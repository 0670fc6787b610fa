---------------------------- MODULE ProgramsProofs ----------------------------
(***************************************************************************)
(* Two smaller programs, for every value of their constants: what irdadump *)
(* shows and writes to its log, and what the keyboard driver passes on.    *)
(* Each specification is that of one program.                              *)
(***************************************************************************)
EXTENDS Capture, Kbd, SequenceTheorems, FiniteSetTheorems, TLAPS

(***************************************************************************)
(* irdadump's clock and its log.                                           *)
(***************************************************************************)
CaptureSpec == CaptureInit /\ [][CaptureNext]_cpVars

Time == [sec : Int, usec : Int]
Times == [time : [{1, 2} -> Time], cur : {1, 2}]
LineOf == [id : Nat, out : BOOLEAN, diff : Int]
Piece ==
  [piece : {"file"}] \cup [piece : {"record"}, time : Time]
    \cup [piece : {"packet"}, type : Nat, protocol : Nat] \cup [piece : {"data"}, id : Nat]

CaptureType ==
  /\ host \in [little : BOOLEAN, diff : BOOLEAN]
  /\ clock \in Seq(Nat) /\ Len(clock) = Len(lines) + 1
  /\ pc \in {"loop", "record", "packet", "data", "print", "gone"}
  /\ pc # "gone" \/ ~host.little => tv \in Times
  /\ log \in Seq(Piece) /\ lines \in Seq(LineOf) /\ back \in Seq(LineOf) /\ shown \in Nat
  /\ rd \in [pc : {"none", "loop", "astray", "exit"}, pos : Nat]

(* With -d the time value that is not current is, as microseconds, that of *)
(* the last frame; without, the current one is, once a frame has come.     *)
ClockInv ==
  /\ DiffTrue
  /\ pc # "gone" /\ host.diff => Micros(tv.time[3 - tv.cur]) = clock[Len(lines) + 1]
  /\ pc = "record" /\ ~host.diff => Micros(tv.time[tv.cur]) = clock[Len(lines) + 1]

(* What the log holds of frame i. *)
Written(i) ==
  /\ 3 * i - 1 =< Len(log) =>
       log[3 * i - 1].time \in Time /\ (~host.diff => Micros(log[3 * i - 1].time) = clock[i + 1])
  /\ 3 * i =< Len(log) => log[3 * i] = SllHeader(lines[i].out)
  /\ 3 * i + 1 =< Len(log) => log[3 * i + 1].id = i

(* The log ends where the recorder is, or was when it stopped. *)
LogInv ==
  /\ Len(log) >= 3 * Len(lines) - 2 /\ Len(log) =< 3 * Len(lines) + 1
  /\ pc \in {"loop", "print"} => Len(log) = 3 * Len(lines) + 1
  /\ pc = "record" => Len(log) = 3 * Len(lines) - 2
  /\ pc = "packet" => Len(log) = 3 * Len(lines) - 1
  /\ pc = "data" => Len(log) = 3 * Len(lines)
  /\ pc \in {"record", "packet", "data"} => lines # <<>>
  /\ \A i \in 1 .. Len(lines) : lines[i].id = i /\ Written(i)

(* All lines but the last have been printed, that one too before the next  *)
(* frame comes and not before its record is written.                       *)
PrintInv ==
  /\ shown =< Len(lines) /\ Len(lines) =< shown + 1
  /\ pc = "loop" => shown = Len(lines)
  /\ pc \in {"record", "packet", "data", "print"} => Len(lines) = shown + 1
  /\ 3 * shown + 1 =< Len(log) /\ Len(log) =< 3 * shown + 4

(* The reader is at the record after those it has shown, or, on a          *)
(* little-endian host, shows nothing, until it goes astray.                *)
ReadInv ==
  /\ rd.pc # "none" => pc = "gone"
  /\ rd.pc = "none" \/ (rd.pc = "loop" /\ host.little) => back = <<>>
  /\ rd.pc = "loop" => rd.pos % 3 = 2
  /\ rd.pc = "loop" /\ ~host.little => rd.pos = 3 * Len(back) + 2
  /\ rd.pc = "astray" => ~Aligned
  /\ rd.pc = "loop" \/ Aligned => \A i \in DOMAIN back : FromRecord(i)

CaptureInv == CaptureType /\ ClockInv /\ LogInv /\ PrintInv /\ ReadInv
-----------------------------------------------------------------------------
(* A number of microseconds and the struct timeval made of it are the same. *)
LEMMA TvMicros ==
  ASSUME NEW t \in Nat
  PROVE  Tv(t) \in Time /\ Micros(Tv(t)) = t
<1>1. PICK S \in Nat \ {0} : S = Second
  BY CaptureAssumption
<1>2. t \div S \in Int
  OBVIOUS
<1>3. t % S \in Int
  OBVIOUS
<1>4. (t \div S) * S + (t % S) = t
  OBVIOUS
<1>5. PICK a \in Int, b \in Int : a = t \div S /\ b = t % S
  BY <1>2, <1>3
<1>6. Tv(t) = [sec |-> a, usec |-> b]
  BY <1>1, <1>5 DEF Tv
<1>7. a * S + b = t
  BY <1>4, <1>5
<1> QED BY <1>1, <1>6, <1>7 DEF Micros, Time

(* Both time values start as the time at which irdadump starts. *)
LEMMA StartedTimes ==
  ASSUME NEW t \in Nat
  PROVE  /\ Started(t) \in Times
         /\ Micros(Started(t).time[Started(t).cur]) = t
         /\ Micros(Started(t).time[3 - Started(t).cur]) = t
<1>1. Tv(t) \in Time /\ Micros(Tv(t)) = t
  BY TvMicros
<1>2. Started(t).cur = 1 /\ Started(t).time = [i \in {1, 2} |-> Tv(t)]
  BY DEF Started
<1>3. Started(t).time[1] = Tv(t) /\ Started(t).time[2] = Tv(t) /\ 3 - 1 = 2
  BY <1>2
<1>4. Started(t) \in Times
  BY <1>1 DEF Started, Times
<1> QED BY <1>1, <1>2, <1>3, <1>4

(* A time is read into the current value. *)
LEMMA SetTime ==
  ASSUME NEW v \in Times, NEW x \in Time, NEW w, w = [v EXCEPT !.time[v.cur] = x]
  PROVE  /\ w \in Times /\ w.cur = v.cur /\ w.time[w.cur] = x
         /\ w.time[3 - w.cur] = v.time[3 - v.cur]
  BY DEF Times

(* print_diff_time: borrowing a second changes neither time nor difference. *)
LEMMA DiffTimeMicros ==
  ASSUME NEW v \in Times, NEW w, w = DiffTime(v)
  PROVE  /\ w \in Times /\ w.cur = v.cur
         /\ Micros(w.time[w.cur]) = Micros(v.time[v.cur])
         /\ Micros(w.time[3 - w.cur]) = Micros(v.time[v.cur]) - Micros(v.time[3 - v.cur])
<1>1. PICK now \in Time, prev \in Time : now = v.time[v.cur] /\ prev = v.time[3 - v.cur]
  BY DEF Times
<1>2. PICK S \in Nat : S = Second
  BY CaptureAssumption
<1>3. PICK lent : lent = IF prev.usec > now.usec THEN [sec |-> now.sec - 1, usec |-> now.usec + Second] ELSE now
  OBVIOUS
<1>4. lent \in Time /\ lent.sec * S + lent.usec = now.sec * S + now.usec
  <2>1. PICK a \in Int, b \in Int : a = now.sec /\ b = now.usec
    BY DEF Time
  <2>2. (a - 1) * S + (b + S) = a * S + b
    OBVIOUS
  <2>3. a - 1 \in Int /\ b + S \in Int
    OBVIOUS
  <2> QED BY <1>2, <1>3, <2>1, <2>2, <2>3 DEF Time
<1>5. PICK d : d = [sec |-> lent.sec - prev.sec, usec |-> lent.usec - prev.usec]
  OBVIOUS
<1>6. d \in Time /\ d.sec * S + d.usec = (lent.sec * S + lent.usec) - (prev.sec * S + prev.usec)
  <2>1. PICK a \in Int, b \in Int, e \in Int, f \in Int :
          a = lent.sec /\ b = lent.usec /\ e = prev.sec /\ f = prev.usec
    BY <1>4 DEF Time
  <2>2. (a - e) * S + (b - f) = (a * S + b) - (e * S + f)
    OBVIOUS
  <2>3. a - e \in Int /\ b - f \in Int
    OBVIOUS
  <2> QED BY <1>5, <2>1, <2>2, <2>3 DEF Time
<1>7. w = [v EXCEPT !.time[v.cur] = lent, !.time[3 - v.cur] = d]
  BY <1>1, <1>3, <1>5 DEF DiffTime
<1>8. w \in Times /\ w.cur = v.cur /\ w.time[w.cur] = lent /\ w.time[3 - w.cur] = d
  <2>1. PICK a \in {1, 2}, b \in {1, 2} : a = v.cur /\ b = 3 - v.cur /\ a # b
    BY DEF Times
  <2>2. PICK f : f = [v.time EXCEPT ![a] = lent, ![b] = d]
    OBVIOUS
  <2>3. f \in [{1, 2} -> Time] /\ f[a] = lent /\ f[b] = d
    <3>1. v.time \in [{1, 2} -> Time]
      BY DEF Times
    <3> QED BY <1>4, <1>6, <2>1, <2>2, <3>1
  <2>4. w = [v EXCEPT !.time = f]
    <3>1. w = [v EXCEPT !.time[a] = lent, !.time[b] = d]
      BY <1>7, <2>1
    <3> QED BY <2>2, <3>1 DEF Times
  <2> QED BY <2>1, <2>3, <2>4 DEF Times
<1> QED BY <1>1, <1>2, <1>4, <1>6, <1>8 DEF Micros

(* The line of a frame, and the two time values after it. *)
LEMMA LineShown ==
  ASSUME CaptureType, NEW v \in Times, NEW id \in Nat, NEW out \in BOOLEAN
  PROVE  /\ Swapped(v) \in Times
         /\ Line(v, id, out) \in LineOf /\ Line(v, id, out).id = id /\ Line(v, id, out).out = out
         /\ host.diff =>
              /\ Line(v, id, out).diff = Micros(v.time[v.cur]) - Micros(v.time[3 - v.cur])
              /\ Micros(Swapped(v).time[3 - Swapped(v).cur]) = Micros(v.time[v.cur])
         /\ ~host.diff => Swapped(v) = v
<1>1. \A x \in Time : Micros(x) \in Int
  BY CaptureAssumption DEF Micros, Time
<1>2. CASE host.diff
  <2>1. PICK w : w = DiffTime(v)
    OBVIOUS
  <2>2. /\ w \in Times /\ w.cur = v.cur
        /\ Micros(w.time[w.cur]) = Micros(v.time[v.cur])
        /\ Micros(w.time[3 - w.cur]) = Micros(v.time[v.cur]) - Micros(v.time[3 - v.cur])
    BY <2>1, DiffTimeMicros
  <2>3. PICK z : z = [w EXCEPT !.cur = 3 - @]
    OBVIOUS
  <2>4. z \in Times /\ z.cur = 3 - w.cur /\ 3 - z.cur = w.cur /\ z.time = w.time
    BY <2>2, <2>3 DEF Times
  <2>5. Swapped(v) = z
    BY <1>2, <2>1, <2>3 DEF Swapped
  <2>6. z.time[z.cur] \in Time
    BY <2>4 DEF Times
  <2>7. Micros(z.time[z.cur]) \in Int
    BY <1>1, <2>6
  <2> QED BY <1>2, <2>2, <2>4, <2>5, <2>7 DEF Line, LineOf
<1>3. CASE ~host.diff
  BY <1>3 DEF Swapped, Line, LineOf
<1> QED BY <1>2, <1>3 DEF CaptureType

(* The direction and the protocol survive the way through network order,   *)
(* the protocol not in the eyes of a little-endian reader.                 *)
LEMMA HeaderRead ==
  ASSUME CaptureType, NEW out \in BOOLEAN
  PROVE  /\ SllHeader(out) \in Piece
         /\ (SllHeader(out).type # PACKET_HOST) = out
         /\ SllHeader(out).protocol = ETH_P_IRDA <=> ~host.little
<1>1. htons(0) = 0 /\ htons(4) = (IF host.little THEN 1024 ELSE 4) /\ htons(23) = (IF host.little THEN 5888 ELSE 23)
  BY DEF htons
<1>2. PICK y \in Nat, z \in Nat :
        /\ y = htons(IF out THEN PACKET_OUTGOING ELSE PACKET_HOST) /\ z = htons(ETH_P_IRDA)
        /\ y # PACKET_HOST <=> out
        /\ z = ETH_P_IRDA <=> ~host.little
  <2>1. host.little \in BOOLEAN
    BY DEF CaptureType
  <2>2. htons(IF out THEN PACKET_OUTGOING ELSE PACKET_HOST) = IF out THEN htons(4) ELSE htons(0)
    BY Zenon DEF PACKET_HOST, PACKET_OUTGOING
  <2>3. PICK y \in Nat : /\ y = htons(IF out THEN PACKET_OUTGOING ELSE PACKET_HOST)
                         /\ y # 0 <=> out
    BY <1>1, <2>1, <2>2
  <2>4. PICK z \in Nat : z = htons(23) /\ (z = 23 <=> ~host.little)
    BY <1>1, <2>1
  <2> QED BY <2>3, <2>4 DEF PACKET_HOST, ETH_P_IRDA
<1>3. PICK h : h = SllHeader(out)
  OBVIOUS
<1>4. h = [piece |-> "packet", type |-> y, protocol |-> z]
  BY <1>2, <1>3 DEF SllHeader
<1>5. h \in Piece
  BY <1>4 DEF Piece
<1>6. h.type = y /\ h.protocol = z
  BY <1>4
<1>7. (y # PACKET_HOST) = out
  BY <1>2, Zenon
<1> QED BY <1>2, <1>3, <1>5, <1>6, <1>7, Zenon

(* Written of the next state, spelled out. *)
LEMMA WrittenNext ==
  ASSUME NEW i, host' = host
  PROVE  Written(i)' <=>
           /\ 3 * i - 1 =< Len(log') =>
                /\ log'[3 * i - 1].time \in Time
                /\ ~host.diff => Micros(log'[3 * i - 1].time) = clock'[i + 1]
           /\ 3 * i =< Len(log') => log'[3 * i] = SllHeader(lines'[i].out)
           /\ 3 * i + 1 =< Len(log') => log'[3 * i + 1].id = i
<1>1. SllHeader(lines[i].out)' = SllHeader(lines'[i].out)
  BY DEF SllHeader, htons
<1>2. Micros(log[3 * i - 1].time)' = Micros(log'[3 * i - 1].time)
  BY DEF Micros
<1> QED BY <1>1, <1>2, Zenon DEF Written

(* A log that is not written to stays true, also when the recorder ends. *)
LEMMA LogSame ==
  ASSUME LogInv, UNCHANGED <<host, clock, log, lines>>,
         pc' = pc \/ pc' = "gone" \/ (pc = "print" /\ pc' = "loop")
  PROVE  LogInv'
<1>1. ASSUME NEW i \in 1 .. Len(lines)
      PROVE  lines[i].id = i /\ Written(i)'
  <2>1. lines[i].id = i /\ Written(i)
    BY DEF LogInv
  <2>2. host' = host /\ clock' = clock /\ log' = log /\ lines' = lines
    OBVIOUS
  <2>3. Written(i)'
    BY <2>1, <2>2, WrittenNext, Zenon DEF Written
  <2> QED BY <2>1, <2>3
<1>2. \A i \in 1 .. Len(lines) : Written(i)'
  BY <1>1
<1>3. pc' = "gone" => pc' \notin {"loop", "record", "packet", "data", "print"}
  OBVIOUS
<1> QED BY <1>1, <1>2, <1>3 DEF LogInv

(* The log is empty and no frame has been shown. *)
LEMMA CaptureInitInv == CaptureInit => CaptureInv
<1> SUFFICES ASSUME CaptureInit PROVE CaptureInv
  OBVIOUS
<1>1. /\ Started(0) \in Times /\ Micros(Started(0).time[3 - Started(0).cur]) = 0
  BY StartedTimes
<1>2. clock \in Seq(Nat) /\ Len(clock) = 1 /\ clock[1] = 0
  BY DEF CaptureInit
<1>3. lines \in Seq(LineOf) /\ back \in Seq(LineOf) /\ Len(lines) = 0 /\ Len(back) = 0
  BY DEF CaptureInit
<1>4. [piece |-> "file"] \in Piece
  BY DEF Piece
<1>5. log \in Seq(Piece) /\ Len(log) = 1
  BY <1>4 DEF CaptureInit
<1>6. CaptureType
  BY <1>1, <1>2, <1>3, <1>5 DEF CaptureInit, CaptureType
<1>7. ClockInv
  BY <1>1, <1>2, <1>3 DEF CaptureInit, ClockInv, DiffTrue
<1>8. LogInv
  BY <1>3, <1>5 DEF CaptureInit, LogInv
<1>9. ReadInv
  BY <1>3 DEF CaptureInit, ReadInv
<1>10. PrintInv
  BY <1>3, <1>5 DEF CaptureInit, PrintInv
<1> QED BY <1>6, <1>7, <1>8, <1>9, <1>10 DEF CaptureInv

(* A frame comes and its line is made. *)
LEMMA CaptureFrameInv ==
  ASSUME CaptureInv, CaptureFrame
  PROVE  CaptureInv'
<1>1. CaptureType /\ ClockInv /\ LogInv /\ PrintInv /\ ReadInv
  BY DEF CaptureInv
<1>2. UNCHANGED <<host, log, short, shown, rd, back>> /\ pc = "loop" /\ pc' = "record"
  BY DEF CaptureFrame
<1>3. PICK t \in Last(clock) .. MaxTime, out \in BOOLEAN :
        /\ clock' = Append(clock, t)
        /\ lines' = Append(lines, Line([tv EXCEPT !.time[tv.cur] = Tv(t)], Len(lines) + 1, out))
        /\ tv' = Swapped([tv EXCEPT !.time[tv.cur] = Tv(t)])
  BY DEF CaptureFrame
<1>4. PICK n \in Nat : n = Len(lines) /\ Len(clock) = n + 1 /\ clock \in Seq(Nat) /\ lines \in Seq(LineOf)
  BY <1>1 DEF CaptureType
<1>5. t \in Nat
  BY <1>3, <1>4, CaptureAssumption DEF Last
<1>6. PICK v : v = [tv EXCEPT !.time[tv.cur] = Tv(t)]
  OBVIOUS
<1>7. tv \in Times /\ Tv(t) \in Time /\ Micros(Tv(t)) = t
  BY <1>1, <1>2, <1>5, TvMicros DEF CaptureType
<1>8. v \in Times /\ v.time[v.cur] = Tv(t) /\ v.time[3 - v.cur] = tv.time[3 - tv.cur]
  <2>1. PICK x \in Time : x = Tv(t)
    BY <1>7
  <2>2. v = [tv EXCEPT !.time[tv.cur] = x]
    BY <1>6, <2>1
  <2>3. v \in Times /\ v.time[v.cur] = x /\ v.time[3 - v.cur] = tv.time[3 - tv.cur]
    <3>1. tv \in Times
      BY <1>7
    <3> QED BY <2>2, <3>1 DEF Times
  <2> QED BY <2>1, <2>3
<1>9. PICK l : l = Line(v, n + 1, out)
  OBVIOUS
<1>10. /\ Swapped(v) \in Times /\ l \in LineOf /\ l.id = n + 1
       /\ host.diff => /\ l.diff = Micros(v.time[v.cur]) - Micros(v.time[3 - v.cur])
                       /\ Micros(Swapped(v).time[3 - Swapped(v).cur]) = Micros(v.time[v.cur])
       /\ ~host.diff => Swapped(v) = v
  <2>1. n + 1 \in Nat
    OBVIOUS
  <2> QED BY <1>1, <1>8, <1>9, <2>1, LineShown
<1>11. /\ clock' \in Seq(Nat) /\ Len(clock') = n + 2 /\ clock'[n + 2] = t
       /\ \A i \in 1 .. n + 1 : clock'[i] = clock[i]
  BY <1>3, <1>4, <1>5
<1>12. /\ lines' = Append(lines, l) /\ lines' \in Seq(LineOf) /\ Len(lines') = n + 1
       /\ lines'[n + 1] = l /\ \A i \in 1 .. n : lines'[i] = lines[i]
  BY <1>3, <1>4, <1>6, <1>9, <1>10
<1>13. CaptureType'
  <2>1. tv' \in Times
    BY <1>3, <1>6, <1>10
  <2> QED BY <1>1, <1>2, <1>11, <1>12, <2>1 DEF CaptureType
<1>14. ClockInv'
  <2>1. ASSUME host.diff
        PROVE  /\ \A i \in 1 .. n + 1 : lines'[i].diff = clock'[i + 1] - clock'[i]
               /\ Micros(tv'.time[3 - tv'.cur]) = t
    <3>1. \A i \in 1 .. n : lines[i].diff = clock[i + 1] - clock[i]
      BY <1>1, <1>4, <2>1 DEF ClockInv, DiffTrue
    <3>2. Micros(tv.time[3 - tv.cur]) = clock[n + 1]
      BY <1>1, <1>2, <1>4, <2>1 DEF ClockInv
    <3>3. l.diff = t - clock[n + 1]
      BY <1>7, <1>8, <1>10, <2>1, <3>2
    <3>4. Micros(tv'.time[3 - tv'.cur]) = t
      BY <1>3, <1>6, <1>7, <1>8, <1>10, <2>1
    <3>5. ASSUME NEW i \in 1 .. n + 1 PROVE lines'[i].diff = clock'[i + 1] - clock'[i]
      <4>1. CASE i = n + 1
        <5>1. clock'[i + 1] = t /\ clock'[i] = clock[n + 1] /\ lines'[i] = l
          BY <1>11, <1>12, <4>1
        <5> QED BY <3>3, <5>1
      <4>2. CASE i # n + 1
        <5>1. i \in 1 .. n /\ i + 1 \in 1 .. n + 1
          BY <4>2
        <5>2. clock'[i + 1] = clock[i + 1] /\ clock'[i] = clock[i] /\ lines'[i] = lines[i]
          BY <1>11, <1>12, <5>1
        <5> QED BY <3>1, <5>1, <5>2
      <4> QED BY <4>1, <4>2
    <3> QED BY <3>4, <3>5
  <2>2. ~host.diff => Micros(tv'.time[tv'.cur]) = t
    BY <1>3, <1>6, <1>7, <1>8, <1>10
  <2>3. clock'[Len(lines') + 1] = t
    BY <1>11, <1>12
  <2>4. DiffTrue'
    BY <1>2, <1>12, <2>1 DEF DiffTrue
  <2> QED BY <1>2, <2>1, <2>2, <2>3, <2>4 DEF ClockInv, Micros
<1>15. LogInv'
  <2>1. PICK m \in Nat : m = Len(log) /\ m = 3 * n + 1
    BY <1>1, <1>2, <1>4 DEF LogInv, CaptureType
  <2>2. ASSUME NEW i \in 1 .. n + 1 PROVE lines'[i].id = i /\ Written(i)'
    <3>1. CASE i = n + 1
      <4>1. ~(3 * i - 1 =< m) /\ ~(3 * i =< m) /\ ~(3 * i + 1 =< m)
        BY <2>1, <3>1
      <4> QED BY <1>2, <1>10, <1>12, <2>1, <3>1, <4>1 DEF Written
    <3>2. CASE i # n + 1
      <4>1. i \in 1 .. n /\ i + 1 \in 1 .. n + 1
        BY <3>2
      <4>2. clock'[i + 1] = clock[i + 1] /\ lines'[i] = lines[i]
        BY <1>11, <1>12, <4>1
      <4>3. lines[i].id = i /\ Written(i)
        BY <1>1, <1>4, <4>1 DEF LogInv
      <4>4. Written(i)'
        BY <1>2, <4>2, <4>3, WrittenNext DEF Written
      <4> QED BY <4>2, <4>3, <4>4
    <3> QED BY <3>1, <3>2
  <2>3. Len(log) = 3 * (n + 1) - 2 /\ 3 * (n + 1) - 2 =< 3 * (n + 1) + 1
    BY <2>1
  <2>4. lines' # <<>>
    BY <1>12
  <2> QED BY <1>2, <1>12, <2>2, <2>3, <2>4 DEF LogInv
<1>16. ReadInv'
  <2>1. rd.pc = "none" /\ back = <<>>
    BY <1>1, <1>2 DEF ReadInv
  <2>2. Len(back') = 0
    BY <1>2, <2>1
  <2> QED BY <1>2, <2>1, <2>2 DEF ReadInv
<1>17. PrintInv'
  <2>1. shown = n /\ Len(log) = 3 * n + 1
    BY <1>1, <1>2, <1>4 DEF PrintInv, LogInv
  <2> QED BY <1>2, <1>4, <1>12, <2>1 DEF PrintInv
<1> QED BY <1>13, <1>14, <1>15, <1>16, <1>17 DEF CaptureInv

(* The log grows by a piece of the last frame, complete or not. *)
LEMMA LogGrows ==
  ASSUME CaptureInv, NEW x \in Piece, log' = Append(log, x), UNCHANGED <<host, clock, tv, lines, shown, rd, back>>,
         pc \in {"record", "packet", "data"},
         pc' = (CASE pc = "record" -> "packet" [] pc = "packet" -> "data" [] OTHER -> "print"),
         NEW n \in Nat, n = Len(lines),
         pc = "record" => x.time \in Time /\ (~host.diff => Micros(x.time) = clock[n + 1]),
         pc = "packet" => x = SllHeader(lines[n].out),
         pc = "data" => x.id = n
  PROVE  CaptureInv'
<1>1. CaptureType /\ ClockInv /\ LogInv /\ PrintInv /\ ReadInv
  BY DEF CaptureInv
<1>2. PICK m \in Nat : /\ m = Len(log) /\ log \in Seq(Piece) /\ n >= 1
                       /\ pc = "record" => m = 3 * n - 2
                       /\ pc = "packet" => m = 3 * n - 1
                       /\ pc = "data" => m = 3 * n
  <2>1. lines # <<>> /\ lines \in Seq(LineOf)
    BY <1>1 DEF LogInv, CaptureType
  <2>2. n >= 1
    BY <2>1
  <2>3. /\ log \in Seq(Piece) /\ Len(log) \in Nat
        /\ pc = "record" => Len(log) = 3 * n - 2
        /\ pc = "packet" => Len(log) = 3 * n - 1
        /\ pc = "data" => Len(log) = 3 * n
    BY <1>1 DEF LogInv, CaptureType
  <2> QED BY <2>2, <2>3
<1>3. /\ log' \in Seq(Piece) /\ Len(log') = m + 1 /\ log'[m + 1] = x
      /\ \A j \in 1 .. m : log'[j] = log[j]
  BY <1>2
<1>4. pc' \in {"print", "packet", "data"} /\ rd.pc = "none" /\ back = <<>>
  BY <1>1 DEF ReadInv
<1>5. CaptureType'
  BY <1>1, <1>3, <1>4 DEF CaptureType
<1>6. ClockInv'
  BY <1>1, <1>4 DEF ClockInv, DiffTrue, Micros
<1>7. ReadInv'
  BY <1>1, <1>4 DEF ReadInv
<1>8. ASSUME NEW i \in 1 .. n PROVE lines'[i].id = i /\ Written(i)'
  <2>1. lines[i].id = i /\ Written(i)
    BY <1>1 DEF LogInv
  <2>2. CASE i # n
    <3>1. 3 * i - 1 \in 1 .. m /\ 3 * i \in 1 .. m /\ 3 * i + 1 \in 1 .. m
      BY <1>2, <2>2, SMTT(60)
    <3>2. /\ log'[3 * i - 1] = log[3 * i - 1] /\ log'[3 * i] = log[3 * i]
          /\ log'[3 * i + 1] = log[3 * i + 1]
      BY <1>3, <3>1
    <3>3. 3 * i - 1 =< Len(log) /\ 3 * i =< Len(log) /\ 3 * i + 1 =< Len(log)
      BY <1>2, <3>1
    <3>4. Written(i)'
      BY <2>1, <3>2, <3>3, WrittenNext DEF Written
    <3> QED BY <2>1, <3>4
  <2>3. CASE i = n
    <3>1. PICK a \in Nat, b \in Nat, c \in Nat : a = 3 * i - 1 /\ b = 3 * i /\ c = 3 * i + 1
      BY <1>2
    <3>2. /\ a =< m + 1 => log'[a].time \in Time /\ (~host.diff => Micros(log'[a].time) = clock[i + 1])
      <4>1. CASE pc = "record"
        <5>0. m = 3 * n - 2
          BY <1>2, <4>1
        <5>1. a = m + 1
          BY <1>2, <2>3, <3>1, <5>0
        <5> QED BY <1>3, <2>3, <4>1, <5>1
      <4>2. CASE pc # "record"
        <5>1. a \in 1 .. m
          BY <1>2, <2>3, <3>1, <4>2
        <5>2. log'[a] = log[a] /\ a =< Len(log)
          BY <1>2, <1>3, <5>1
        <5> QED BY <2>1, <3>1, <5>2 DEF Written
      <4> QED BY <4>1, <4>2
    <3>3. b =< m + 1 => log'[b] = SllHeader(lines[i].out)
      <4>1. CASE pc = "record"
        <5>1. ~(b =< m + 1)
          BY <1>2, <2>3, <3>1, <4>1
        <5> QED BY <5>1
      <4>2. CASE pc = "packet"
        <5>1. b = m + 1
          BY <1>2, <2>3, <3>1, <4>2
        <5> QED BY <1>3, <2>3, <4>2, <5>1
      <4>3. CASE pc = "data"
        <5>1. b \in 1 .. m
          BY <1>2, <2>3, <3>1, <4>3
        <5>2. log'[b] = log[b] /\ b =< Len(log)
          BY <1>2, <1>3, <5>1
        <5> QED BY <2>1, <3>1, <5>2 DEF Written
      <4> QED BY <4>1, <4>2, <4>3
    <3>4. c =< m + 1 => log'[c].id = i
      <4>1. CASE pc = "data"
        <5>1. c = m + 1
          BY <1>2, <2>3, <3>1, <4>1
        <5> QED BY <1>3, <2>3, <4>1, <5>1
      <4>2. CASE pc # "data"
        <5>1. ~(c =< m + 1)
          BY <1>2, <2>3, <3>1, <4>2
        <5> QED BY <5>1
      <4> QED BY <4>1, <4>2
    <3>5. Written(i)'
      BY <1>3, <3>1, <3>2, <3>3, <3>4, WrittenNext
    <3> QED BY <2>1, <3>5
  <2> QED BY <2>2, <2>3
<1>9. LogInv'
  <2>1. /\ m + 1 >= 3 * n - 2 /\ m + 1 =< 3 * n + 1
        /\ pc = "record" => m + 1 = 3 * n - 1
        /\ pc = "packet" => m + 1 = 3 * n
        /\ pc = "data" => m + 1 = 3 * n + 1
    BY <1>2, SMTT(60)
  <2>2. /\ pc' = "print" => m + 1 = 3 * n + 1
        /\ pc' = "packet" => m + 1 = 3 * n - 1
        /\ pc' = "data" => m + 1 = 3 * n
        /\ pc' # "record" /\ pc' # "loop"
    BY <2>1
  <2>3. lines' # <<>>
    BY <1>1 DEF LogInv
  <2> QED BY <1>3, <1>8, <2>1, <2>2, <2>3 DEF LogInv
<1>10. PrintInv'
  <2>1. shown \in Nat /\ n = shown + 1 /\ m + 1 =< 3 * n + 1 /\ m >= 3 * n - 2
    BY <1>1, <1>2, SMTT(60) DEF PrintInv, CaptureType
  <2>2. m \in Nat
    BY <1>2
  <2>3. 3 * shown + 1 =< m + 1 /\ m + 1 =< 3 * shown + 4
    <3>1. 3 * n = 3 * shown + 3
      BY <2>1
    <3> QED BY <2>1, <2>2, <3>1
  <2> QED BY <1>3, <1>4, <2>1, <2>3 DEF PrintInv
<1> QED BY <1>5, <1>6, <1>7, <1>9, <1>10 DEF CaptureInv

(* capwrite_dump: the next of the three pieces of a record. *)
LEMMA WritePieceInv ==
  ASSUME CaptureInv, WritePiece
  PROVE  CaptureInv'
<1>1. CaptureType /\ ClockInv /\ LogInv
  BY DEF CaptureInv
<1>2. UNCHANGED <<host, clock, tv, lines, shown, rd, back>> /\ pc \in {"record", "packet", "data"}
  BY DEF WritePiece
<1>3. PICK n \in Nat : n = Len(lines) /\ n \in 1 .. Len(lines) /\ Last(lines) = lines[n] /\ lines[n] \in LineOf
  <2>1. lines # <<>> /\ lines \in Seq(LineOf)
    BY <1>1, <1>2 DEF LogInv, CaptureType
  <2>2. Len(lines) \in Nat /\ Len(lines) >= 1
    BY <2>1
  <2> QED BY <2>1, <2>2 DEF Last
<1>4. CASE pc = "record"
  <2>1. PICK x : x = [piece |-> "record", time |-> tv.time[tv.cur]]
    OBVIOUS
  <2>2. tv.time[tv.cur] \in Time
    BY <1>1, <1>4 DEF CaptureType, Times
  <2>3. x \in Piece /\ x.time = tv.time[tv.cur]
    BY <2>1, <2>2 DEF Piece
  <2>4. log' = Append(log, x) /\ pc' = "packet"
    BY <1>4, <2>1 DEF WritePiece
  <2>5. ~host.diff => Micros(x.time) = clock[n + 1]
    BY <1>1, <1>3, <1>4, <2>3 DEF ClockInv
  <2> QED BY <1>2, <1>3, <1>4, <2>2, <2>3, <2>4, <2>5, LogGrows
<1>5. CASE pc = "packet"
  <2>1. PICK x : x = SllHeader(lines[n].out)
    OBVIOUS
  <2>2. lines[n].out \in BOOLEAN
    BY <1>3 DEF LineOf
  <2>3. x \in Piece
    BY <1>1, <2>1, <2>2, HeaderRead
  <2>4. log' = Append(log, x) /\ pc' = "data"
    BY <1>3, <1>5, <2>1 DEF WritePiece
  <2> QED BY <1>2, <1>3, <1>5, <2>1, <2>3, <2>4, LogGrows
<1>6. CASE pc = "data"
  <2>1. PICK x : x = [piece |-> "data", id |-> n]
    OBVIOUS
  <2>2. x \in Piece /\ x.id = n
    BY <1>3, <2>1 DEF Piece
  <2>3. lines[n].id = n
    BY <1>1, <1>3 DEF LogInv
  <2>4. log' = Append(log, x) /\ pc' = "print"
    BY <1>3, <1>6, <2>1, <2>3 DEF WritePiece
  <2> QED BY <1>2, <1>3, <1>6, <2>2, <2>4, LogGrows
<1> QED BY <1>2, <1>4, <1>5, <1>6

(* main prints the line. *)
LEMMA PrintLineInv ==
  ASSUME CaptureInv, PrintLine
  PROVE  CaptureInv'
<1>1. CaptureType /\ ClockInv /\ LogInv /\ PrintInv /\ ReadInv
  BY DEF CaptureInv
<1>2. /\ UNCHANGED <<host, clock, tv, log, short, lines, rd, back>>
      /\ pc = "print" /\ pc' = "loop" /\ shown' = shown + 1
  BY DEF PrintLine
<1>3. CaptureType'
  BY <1>1, <1>2 DEF CaptureType
<1>4. ClockInv'
  BY <1>1, <1>2 DEF ClockInv, DiffTrue, Micros
<1>5. LogInv'
  BY <1>1, <1>2, LogSame
<1>6. PrintInv'
  <2>1. Len(lines) = shown + 1 /\ Len(log) = 3 * Len(lines) + 1 /\ shown \in Nat
    BY <1>1, <1>2 DEF PrintInv, LogInv, CaptureType
  <2> QED BY <1>2, <2>1 DEF PrintInv
<1>7. ReadInv'
  <2>1. rd.pc = "none" /\ back = <<>>
    BY <1>1, <1>2 DEF ReadInv
  <2> QED BY <1>2, <2>1 DEF ReadInv
<1> QED BY <1>3, <1>4, <1>5, <1>6, <1>7 DEF CaptureInv

(* The recorder ends, between two pieces of a record or after all of them. *)
LEMMA RecorderExitsInv ==
  ASSUME CaptureInv, RecorderExits
  PROVE  CaptureInv'
<1>1. CaptureType /\ ClockInv /\ LogInv /\ PrintInv /\ ReadInv
  BY DEF CaptureInv
<1>2. UNCHANGED <<host, clock, tv, log, short, lines, shown, rd, back>> /\ pc # "gone" /\ pc' = "gone"
  BY DEF RecorderExits
<1>3. CaptureType'
  BY <1>1, <1>2 DEF CaptureType
<1>4. ClockInv'
  BY <1>1, <1>2 DEF ClockInv, DiffTrue
<1>5. LogInv'
  BY <1>1, <1>2, LogSame
<1>6. ReadInv'
  <2>1. rd.pc = "none" /\ back = <<>>
    BY <1>1, <1>2 DEF ReadInv
  <2> QED BY <1>2, <2>1 DEF ReadInv
<1>7. PrintInv'
  BY <1>1, <1>2 DEF PrintInv
<1> QED BY <1>3, <1>4, <1>5, <1>6, <1>7 DEF CaptureInv

(* A step of the reader changes neither the log nor what was shown. *)
LEMMA ReaderOnly ==
  ASSUME CaptureInv, pc = "gone", UNCHANGED <<host, clock, pc, log, short, lines, shown>>,
         ~host.little => tv' \in Times, back' \in Seq(LineOf),
         rd' \in [pc : {"none", "loop", "astray", "exit"}, pos : Nat], ReadInv'
  PROVE  CaptureInv'
<1>1. CaptureType /\ ClockInv /\ LogInv /\ PrintInv
  BY DEF CaptureInv
<1>2. CaptureType'
  BY <1>1 DEF CaptureType
<1>3. ClockInv'
  BY <1>1 DEF ClockInv, DiffTrue
<1>4. LogInv'
  BY <1>1, LogSame
<1>5. PrintInv'
  BY <1>1 DEF PrintInv
<1> QED BY <1>2, <1>3, <1>4, <1>5 DEF CaptureInv

(* What the reader has shown of the records stays so. *)
LEMMA FromRecordSame ==
  ASSUME UNCHANGED <<log, short, lines, back>>
  PROVE  Aligned' = Aligned /\ \A i : FromRecord(i) => FromRecord(i)'
  BY DEF Aligned, FromRecord, SameLine

(* irdadump -r reads the header of the file. *)
LEMMA ReaderStartsInv ==
  ASSUME CaptureInv, ReaderStarts
  PROVE  CaptureInv'
<1>1. CaptureType /\ ReadInv /\ UNCHANGED <<host, clock, pc, log, short, lines, shown, back>> /\ pc = "gone"
  BY DEF CaptureInv, ReaderStarts
<1>2. rd' = [pc |-> "loop", pos |-> 2] /\ rd.pc = "none"
  BY DEF ReaderStarts
<1>3. tv' \in Times
  <2>1. clock \in Seq(Nat) /\ Len(clock) >= 1
    BY <1>1 DEF CaptureType
  <2>2. Last(clock) \in Nat
    BY <2>1 DEF Last
  <2> QED BY <2>2, StartedTimes DEF ReaderStarts
<1>4. back = <<>> /\ Len(back) = 0 /\ back \in Seq(LineOf)
  BY <1>1, <1>2 DEF ReadInv, CaptureType
<1>5. ReadInv'
  BY <1>1, <1>2, <1>4 DEF ReadInv
<1>6. rd' \in [pc : {"none", "loop", "astray", "exit"}, pos : Nat]
  BY <1>2
<1> QED BY <1>1, <1>3, <1>4, <1>5, <1>6, ReaderOnly

(* irdadump -r reads a record, shows it or skips it, or meets the end. *)
LEMMA ReadRecordInv ==
  ASSUME CaptureInv, ReadRecord
  PROVE  CaptureInv'
<1>1. /\ CaptureType /\ LogInv /\ ReadInv /\ UNCHANGED <<host, clock, pc, log, short, lines, shown>>
      /\ rd.pc = "loop" /\ pc = "gone"
  BY DEF CaptureInv, ReadRecord, ReadInv
<1>2. rd \in [pc : {"none", "loop", "astray", "exit"}, pos : Nat] /\ back \in Seq(LineOf)
  BY <1>1 DEF CaptureType
<1>3. CASE ~RecordComplete
  <2>1. /\ UNCHANGED <<tv, back>>
        /\ \/ rd' = [rd EXCEPT !.pc = "exit"]
           \/ rd' = [rd EXCEPT !.pc = "astray"] /\ RecordTorn
    BY <1>3 DEF ReadRecord
  <2>2. /\ rd' \in [pc : {"none", "loop", "astray", "exit"}, pos : Nat]
        /\ rd'.pc \in {"exit", "astray"} /\ (rd'.pc = "astray" => RecordTorn)
    BY <1>2, <2>1
  <2>3. RecordTorn => ~Aligned
    <3>1. Len(log) \in Nat /\ rd.pos \in Nat
      BY <1>1, <1>2 DEF CaptureType
    <3> QED BY <3>1 DEF RecordTorn, Aligned
  <2>4. ReadInv'
    <3>1. Aligned' = Aligned /\ \A i : FromRecord(i) => FromRecord(i)'
      BY <1>1, <2>1, FromRecordSame
    <3>2. \A i \in DOMAIN back : FromRecord(i)'
      BY <1>1, <3>1 DEF ReadInv
    <3> QED BY <1>1, <2>1, <2>2, <2>3, <3>1, <3>2 DEF ReadInv
  <2> QED BY <1>1, <1>2, <2>1, <2>2, <2>4, ReaderOnly DEF CaptureType
<1>4. CASE RecordComplete
  <2>0. rd.pos + 2 =< Len(log) /\ \A k \in rd.pos .. rd.pos + 2 : k \notin short
    BY <1>4 DEF RecordComplete
  <2>1. RecordShown /\ rd' = [rd EXCEPT !.pos = @ + 3]
    <3>1. ~RecordTorn
      BY <2>0 DEF RecordTorn
    <3> QED BY <1>4, <3>1 DEF ReadRecord
  <2>2. rd' \in [pc : {"none", "loop", "astray", "exit"}, pos : Nat] /\ rd'.pc = "loop" /\ rd'.pos = rd.pos + 3
    <3>1. PICK q \in Nat : q = rd.pos + 3
      BY <1>2
    <3>2. rd' = [rd EXCEPT !.pos = q]
      BY <2>1, <3>1
    <3> QED BY <1>1, <1>2, <3>1, <3>2
  <2>3. PICK v : v = [tv EXCEPT !.time[tv.cur] = log[rd.pos].time]
    OBVIOUS
  <2>4. /\ log[rd.pos + 1].protocol = ETH_P_IRDA =>
             /\ back' = Append(back, Line(v, log[rd.pos + 2].id, log[rd.pos + 1].type # PACKET_HOST))
             /\ tv' = Swapped(v)
        /\ log[rd.pos + 1].protocol # ETH_P_IRDA => tv' = v /\ back' = back
    BY <2>1, <2>3 DEF RecordShown
  <2>5. PICK i \in Nat, n \in Nat, m \in Nat :
          /\ n = Len(lines) /\ m = Len(log) /\ m =< 3 * n + 1
          /\ rd.pos = 3 * i - 1 /\ (~host.little => i = Len(back) + 1)
    <3>1. PICK q \in Nat, b \in Nat : q = rd.pos /\ b = Len(back)
      BY <1>2
    <3>2. q % 3 = 2 /\ (~host.little => q = 3 * b + 2)
      BY <1>1, <3>1 DEF ReadInv
    <3>3. PICK i \in Nat : q = 3 * i - 1
      <4>1. q \div 3 + 1 \in Nat /\ q = 3 * (q \div 3 + 1) - 1
        BY <3>2
      <4> QED BY <4>1
    <3>4. ~host.little => i = b + 1
      BY <3>2, <3>3
    <3>5. Len(lines) \in Nat /\ Len(log) \in Nat /\ Len(log) =< 3 * Len(lines) + 1
      BY <1>1 DEF LogInv, CaptureType
    <3> QED BY <3>1, <3>3, <3>4, <3>5
  <2>6. /\ rd.pos + 1 = 3 * i /\ rd.pos + 2 = 3 * i + 1
        /\ 3 * i - 1 =< m /\ 3 * i =< m /\ 3 * i + 1 =< m /\ i \in 1 .. n
    <3>1. PICK q \in Nat : q = rd.pos
      BY <1>2
    <3>2. q = 3 * i - 1 /\ q + 2 =< m
      BY <2>0, <2>5, <3>1
    <3>3. /\ q + 1 = 3 * i /\ q + 2 = 3 * i + 1
          /\ 3 * i - 1 =< m /\ 3 * i =< m /\ 3 * i + 1 =< m /\ i \in 1 .. n
      BY <2>5, <3>2
    <3> QED BY <3>1, <3>3
  <2>7. lines[i].id = i /\ Written(i) /\ lines[i] \in LineOf
    BY <1>1, <2>5, <2>6 DEF LogInv, CaptureType
  <2>8. /\ log[rd.pos].time \in Time /\ log[rd.pos + 1] = SllHeader(lines[i].out)
        /\ log[rd.pos + 2].id = i
    BY <2>5, <2>6, <2>7 DEF Written
  <2>9. PICK out \in BOOLEAN : out = lines[i].out
    BY <2>7 DEF LineOf
  <2>10. /\ (log[rd.pos + 1].type # PACKET_HOST) = out
         /\ log[rd.pos + 1].protocol = ETH_P_IRDA <=> ~host.little
    BY <1>1, <2>8, <2>9, HeaderRead
  <2>11. rd'.pos % 3 = 2
    <3>1. PICK q \in Nat : q = rd.pos /\ q % 3 = 2
      BY <1>1, <1>2 DEF ReadInv
    <3> QED BY <2>2, <3>1
  <2>12. CASE host.little
    <3>1. back' = back /\ back = <<>>
      BY <1>1, <2>4, <2>10, <2>12 DEF ReadInv
    <3>2. Len(back') = 0
      BY <3>1
    <3>3. ReadInv'
      BY <1>1, <2>2, <2>11, <2>12, <3>1, <3>2 DEF ReadInv
    <3> QED BY <1>1, <1>2, <2>2, <2>12, <3>1, <3>3, ReaderOnly
  <2>13. CASE ~host.little
    <3>1. v \in Times
      <4>1. PICK x \in Time : x = log[rd.pos].time
        BY <2>8
      <4>2. v = [tv EXCEPT !.time[tv.cur] = x] /\ tv \in Times
        BY <1>1, <2>3, <2>13, <4>1 DEF CaptureType
      <4> QED BY <4>2, SetTime
    <3>2. PICK l : l = Line(v, i, out)
      OBVIOUS
    <3>3. Swapped(v) \in Times /\ l \in LineOf /\ l.id = i /\ l.out = out
      BY <1>1, <3>1, <3>2, LineShown
    <3>4. back' = Append(back, l) /\ tv' = Swapped(v)
      BY <2>4, <2>8, <2>10, <2>13, <3>2, Zenon
    <3>5. /\ back' \in Seq(LineOf) /\ Len(back') = i /\ back'[i] = l
          /\ \A j \in 1 .. Len(back) : back'[j] = back[j]
      BY <1>2, <2>5, <2>13, <3>3, <3>4
    <3>6. ASSUME NEW j \in 1 .. i PROVE FromRecord(j)'
      <4>0. DOMAIN lines = 1 .. n /\ lines' = lines /\ log' = log /\ short' = short
        BY <1>1, <2>5 DEF CaptureType
      <4>1. CASE j = i
        <5>1. SameLine(back'[j], lines[j])
          BY <2>7, <2>9, <3>3, <3>5, <4>1 DEF SameLine
        <5>2. 3 * j + 1 =< Len(log)
          BY <2>5, <2>6, <4>1
        <5>3. \A k \in 3 * j - 1 .. 3 * j + 1 : k \notin short
          BY <2>0, <2>5, <2>6, <4>1
        <5>4. j \in DOMAIN lines
          BY <2>6, <4>0, <4>1
        <5> QED BY <4>0, <5>1, <5>2, <5>3, <5>4 DEF FromRecord, SameLine
      <4>2. CASE j # i
        <5>1. j \in 1 .. Len(back) /\ j \in DOMAIN back
          BY <1>2, <2>5, <2>13, <4>2
        <5>2. FromRecord(j) /\ back'[j] = back[j]
          BY <1>1, <3>5, <5>1 DEF ReadInv
        <5> QED BY <4>0, <5>2 DEF FromRecord, SameLine
      <4> QED BY <4>1, <4>2
    <3>7. rd'.pos = 3 * i + 2
      <4>1. PICK q \in Nat : q = rd.pos
        BY <1>2
      <4> QED BY <2>2, <2>5, <4>1
    <3>8. ReadInv'
      <4>1. DOMAIN back' = 1 .. i
        BY <3>5
      <4> QED BY <1>1, <2>2, <2>5, <2>11, <2>13, <3>5, <3>6, <3>7, <4>1 DEF ReadInv
    <3> QED BY <1>1, <2>2, <3>3, <3>4, <3>5, <3>8, ReaderOnly
  <2> QED BY <2>12, <2>13
<1> QED BY <1>3, <1>4

(* A reader that went astray promises nothing. *)
LEMMA ReadAstrayInv ==
  ASSUME CaptureInv, ReadAstray
  PROVE  CaptureInv'
<1>1. /\ CaptureType /\ ReadInv /\ UNCHANGED <<host, clock, tv, pc, log, short, lines, shown>>
      /\ rd.pc = "astray" /\ pc = "gone" /\ ~Aligned /\ rd' = [rd EXCEPT !.pc = "exit"]
  BY DEF CaptureInv, ReadAstray, ReadInv
<1>2. rd' \in [pc : {"none", "loop", "astray", "exit"}, pos : Nat] /\ rd'.pc = "exit"
  BY <1>1 DEF CaptureType
<1>3. back' \in Seq(LineOf)
  <2>1. [id |-> 0, out |-> FALSE, diff |-> 0] \in LineOf /\ back \in Seq(LineOf)
    BY <1>1 DEF LineOf, CaptureType
  <2>2. \A l \in LineOf : Append(back, l) \in Seq(LineOf)
    BY <2>1
  <2> QED BY <2>1, <2>2 DEF ReadAstray
<1>4. ReadInv'
  <2>1. ~Aligned'
    BY <1>1 DEF Aligned
  <2> QED BY <1>1, <1>2, <2>1 DEF ReadInv
<1> QED BY <1>1, <1>2, <1>3, <1>4, ReaderOnly DEF CaptureType

(* Every step keeps the invariant. *)
LEMMA CaptureStep == CaptureInv /\ [CaptureNext]_cpVars => CaptureInv'
<1> SUFFICES ASSUME CaptureInv, [CaptureNext]_cpVars PROVE CaptureInv'
  OBVIOUS
<1>1. CASE UNCHANGED cpVars
  <2>1. UNCHANGED <<host, clock, tv, pc, log, short, lines, shown, rd, back>>
    BY <1>1 DEF cpVars
  <2>2. CaptureType'
    BY <2>1 DEF CaptureInv, CaptureType
  <2>3. ClockInv' /\ PrintInv'
    BY <2>1 DEF CaptureInv, ClockInv, PrintInv, DiffTrue, Micros
  <2>5. ReadInv'
    BY <2>1, FromRecordSame DEF CaptureInv, ReadInv
  <2>4. LogInv'
    BY <2>1, LogSame DEF CaptureInv
  <2> QED BY <2>2, <2>3, <2>4, <2>5 DEF CaptureInv
<1>2. CASE CaptureNext
  BY <1>2, CaptureFrameInv, WritePieceInv, PrintLineInv, RecorderExitsInv, ReaderStartsInv,
     ReadRecordInv, ReadAstrayInv DEF CaptureNext
<1> QED BY <1>1, <1>2

(* The invariant of recording and reading back always holds. *)
LEMMA CaptureInvariant == CaptureSpec => []CaptureInv
<1> QED BY CaptureInitInv, CaptureStep, PTL DEF CaptureSpec

(* irdadump -d shows the true time between two frames, for any number of   *)
(* frames at any times: the two values of print_diff_time, of which one    *)
(* may hold more than a second of microseconds, change places and still    *)
(* mean the time of the frame before.                                      *)
THEOREM DiffAlwaysTrue == CaptureSpec => []DiffTrue
<1>1. CaptureInv => DiffTrue
  BY DEF CaptureInv, ClockInv
<1> QED BY <1>1, CaptureInvariant, PTL

(* Wherever irdadump -w is stopped, between two writes or before a line is *)
(* printed, every frame it has printed is in the log that capwrite_dump    *)
(* leaves, in order, with its direction and, unless -d was given, its      *)
(* time, and the log has at most one record more; irdadump -r shows the    *)
(* captured frames in order, from complete records only, on a host of      *)
(* either byte order.  Any write may be short: the second part then holds  *)
(* if the recorder wrote nothing more.                                     *)
THEOREM LogAlwaysTrue == CaptureSpec => []LogTrue
<1>1. CaptureInv => LogTrue
  <2> SUFFICES ASSUME CaptureInv PROVE LogTrue
    OBVIOUS
  <2>1. CaptureType /\ LogInv /\ PrintInv /\ ReadInv
    BY DEF CaptureInv
  <2>2. PICK n \in Nat, m \in Nat : /\ n = Len(lines) /\ m = Len(log)
                                    /\ shown \in Nat /\ shown =< n /\ 3 * shown + 1 =< m
    BY <2>1 DEF CaptureType, PrintInv
  <2>3. ASSUME NEW i \in 1 .. shown PROVE Logged(i)
    <3>1. i \in 1 .. n /\ lines[i] \in LineOf
      BY <2>1, <2>2 DEF CaptureType
    <3>2. PICK a \in Nat : a = 3 * i - 1 /\ a + 1 = 3 * i /\ a + 2 = 3 * i + 1 /\ a + 2 =< m
      BY <2>2, <3>1
    <3>3. Written(i) /\ lines[i].out \in BOOLEAN
      BY <2>1, <2>2, <3>1 DEF LogInv, LineOf
    <3>4. a =< Len(log) /\ a + 1 =< Len(log) /\ a + 2 =< Len(log)
      BY <2>2, <3>2
    <3>5. (log[a + 1].type # PACKET_HOST) = lines[i].out
      BY <2>1, <3>2, <3>3, <3>4, HeaderRead DEF Written
    <3>6. ~host.diff => Micros(log[a].time) = clock[i + 1]
      BY <3>2, <3>3, <3>4 DEF Written
    <3>7. log[a + 2].id = i
      BY <3>2, <3>3, <3>4 DEF Written
    <3> QED BY <3>2, <3>4, <3>5, <3>6, <3>7 DEF Logged
  <2>4. Aligned => \A i \in DOMAIN back : FromRecord(i)
    BY <2>1 DEF ReadInv
  <2>5. Len(log) =< 3 * shown + 4
    BY <2>1 DEF PrintInv
  <2> QED BY <2>3, <2>4, <2>5 DEF LogTrue
<1> QED BY <1>1, CaptureInvariant, PTL
-----------------------------------------------------------------------------
(***************************************************************************)
(* The keyboard driver.                                                    *)
(***************************************************************************)
KbdSpec == KbdInit /\ [][KbdNext]_kbVars

Activation == [handler : {"alarm", "io"}, pc : {"switch", "rearm", "poll", "recv", "parse", "arm"}, n : Nat]

(* Every handler is active at most once, and SIGIO's is at a subframe. *)
Stack ==
  {st \in Seq(Activation) :
     /\ \A i, j \in 1 .. Len(st) : st[i].handler = st[j].handler => i = j
     /\ \A i \in 1 .. Len(st) : st[i].handler = "io" => st[i].n >= 1}

(* At most the first subframe of a frame is an input. *)
Sub == [type : {"LEDOK", "RSPN41", "KBDOK", "KBDERR", "MSOK", "MSERR"}] \cup [type : {"key"}, n : Nat]
Frame == {f \in Seq(Sub) : \A i \in 1 .. Len(f) : f[i].type = "key" => i = 1}
Command == {"INIT_KBD", "INIT_MOUSE", "ENABLE"}

KbdType ==
  /\ stack \in Stack /\ frame \in Frame
  /\ irlink \in [up : BOOLEAN, cmds : Seq(Command), frames : Seq(Frame)]
  /\ sigio \in BOOLEAN
  /\ count \in [keys : Nat, downs : Nat, fed : Nat]

(* The SIGIO handler is about to read, or to look at the first subframe. *)
ReadingIn(st) == \E i \in 1 .. Len(st) : st[i].handler = "io" /\ st[i].pc = "recv"
ParsingIn(st) == \E i \in 1 .. Len(st) : st[i].handler = "io" /\ st[i].pc = "parse" /\ st[i].n = 1

HasKey(f) == f # <<>> /\ f[1].type = "key"
KeysIn(fs) == {i \in 1 .. Len(fs) : HasKey(fs[i])}
One(b) == IF b THEN 1 ELSE 0

(***************************************************************************)
(* The inputs passed on, those that still can be, unread or in the frame   *)
(* at hand, and the times the last frame can yet be looked at once more    *)
(* because the connection is down: by the activation that is about to read *)
(* and by the one whose signal is pending.  Each disconnect allows two.    *)
(***************************************************************************)
Repeats == IF irlink.up THEN 0 ELSE One(ReadingIn(stack)) + One(sigio)
Budget ==
  count.fed + Cardinality(KeysIn(irlink.frames)) + One(ParsingIn(stack) /\ HasKey(frame)) + Repeats
    =< count.keys + 2 * count.downs

KbdInv == KbdType /\ Budget
-----------------------------------------------------------------------------
(* What becomes of the SIGIO handler when the stack changes. *)
LEMMA Pushed ==
  ASSUME NEW st \in Stack, NEW a \in Activation, \A i \in 1 .. Len(st) : st[i].handler # a.handler,
         a.handler = "io" => a.n >= 1
  PROVE  /\ Append(st, a) \in Stack
         /\ ReadingIn(Append(st, a)) => ReadingIn(st) \/ (a.handler = "io" /\ a.pc = "recv")
         /\ ParsingIn(Append(st, a)) => ParsingIn(st) \/ (a.handler = "io" /\ a.pc = "parse")
<1>1. PICK w \in {Append(st, a)}, n \in Nat : n = Len(st) /\ st \in Seq(Activation)
  BY DEF Stack
<1>2. w \in Seq(Activation) /\ Len(w) = n + 1 /\ w[n + 1] = a /\ \A i \in 1 .. n : w[i] = st[i]
  BY <1>1
<1>3. \A i \in 1 .. n + 1 : i = n + 1 \/ i \in 1 .. n
  OBVIOUS
<1>4. w \in Stack
  BY <1>1, <1>2, <1>3 DEF Stack
<1>5. ReadingIn(w) => ReadingIn(st) \/ (a.handler = "io" /\ a.pc = "recv")
  BY <1>1, <1>2, <1>3 DEF ReadingIn
<1>6. ParsingIn(w) => ParsingIn(st) \/ (a.handler = "io" /\ a.pc = "parse")
  BY <1>1, <1>2, <1>3 DEF ParsingIn
<1> QED BY <1>1, <1>4, <1>5, <1>6, Zenon

(* A handler that returns leaves no other one reading or parsing. *)
LEMMA Popped ==
  ASSUME NEW st \in Stack, st # <<>>
  PROVE  /\ Front(st) \in Stack
         /\ ReadingIn(Front(st)) => ReadingIn(st)
         /\ ParsingIn(Front(st)) => ParsingIn(st)
<1>1. PICK w \in {Front(st)}, n \in Nat : n = Len(st) /\ st \in Seq(Activation)
  BY DEF Stack
<1>2. n >= 1
  BY <1>1
<1>3. w \in Seq(Activation) /\ Len(w) = n - 1 /\ \A i \in 1 .. n - 1 : w[i] = st[i]
  BY <1>1, <1>2 DEF Front
<1>4. \A i \in 1 .. n - 1 : i \in 1 .. n
  BY <1>2
<1>5. w \in Stack
  BY <1>1, <1>3, <1>4 DEF Stack
<1> QED BY <1>1, <1>3, <1>4, <1>5 DEF ReadingIn, ParsingIn

(* The running activation goes on. *)
LEMMA TopChanged ==
  ASSUME NEW st \in Stack, st # <<>>, NEW a \in Activation, a.handler = st[Len(st)].handler,
         a.n >= st[Len(st)].n
  PROVE  /\ [st EXCEPT ![Len(st)] = a] \in Stack
         /\ ReadingIn([st EXCEPT ![Len(st)] = a]) =>
              IF a.handler = "io" THEN a.pc = "recv" ELSE ReadingIn(st)
         /\ ParsingIn([st EXCEPT ![Len(st)] = a]) =>
              IF a.handler = "io" THEN a.pc = "parse" /\ a.n = 1 ELSE ParsingIn(st)
<1>1. PICK w \in {[st EXCEPT ![Len(st)] = a]}, n \in Nat : n = Len(st) /\ st \in Seq(Activation)
  BY DEF Stack
<1>2. n >= 1
  BY <1>1
<1>3. w \in Seq(Activation) /\ Len(w) = n /\ w[n] = a /\ \A i \in 1 .. n : i # n => w[i] = st[i]
  <2>1. w = [st EXCEPT ![n] = a] /\ n \in 1 .. Len(st)
    BY <1>1, <1>2
  <2> QED BY <1>1, <2>1, ExceptSeq
<1>4. \A i \in 1 .. n : w[i].handler = st[i].handler
  BY <1>1, <1>3
<1>5. st[n].n \in Nat /\ a.n \in Nat /\ (st[n].handler = "io" => st[n].n >= 1)
  <2>1. st[n] \in Activation /\ n \in 1 .. Len(st)
    BY <1>1, <1>2
  <2> QED BY <1>1, <2>1 DEF Stack, Activation
<1>6. a.handler = "io" => a.n >= 1
  BY <1>1, <1>5
<1>7. \A i, j \in 1 .. n : w[i].handler = w[j].handler => i = j
  BY <1>1, <1>4 DEF Stack
<1>8. \A i \in 1 .. n : w[i].handler = "io" => w[i].n >= 1
  BY <1>1, <1>3, <1>6 DEF Stack
<1>9. w \in Stack
  BY <1>3, <1>7, <1>8 DEF Stack
<1>10. n \in 1 .. n
  BY <1>2
<1>11. a.handler = "io" => \A i \in 1 .. n : w[i].handler = "io" => i = n
  BY <1>3, <1>7, <1>10
<1>12. ReadingIn(w) => IF a.handler = "io" THEN a.pc = "recv" ELSE ReadingIn(st)
  BY <1>1, <1>3, <1>11 DEF ReadingIn
<1>13. ParsingIn(w) => IF a.handler = "io" THEN a.pc = "parse" /\ a.n = 1 ELSE ParsingIn(st)
  BY <1>1, <1>3, <1>11 DEF ParsingIn
<1> QED BY <1>1, <1>9, <1>12, <1>13

(* The unread inputs, when the frames change. *)
LEMMA KeysFinite ==
  ASSUME NEW fs \in Seq(Frame)
  PROVE  IsFiniteSet(KeysIn(fs)) /\ Cardinality(KeysIn(fs)) \in Nat
<1>1. IsFiniteSet(1 .. Len(fs)) /\ KeysIn(fs) \subseteq 1 .. Len(fs)
  BY FS_Interval DEF KeysIn
<1>2. IsFiniteSet(KeysIn(fs))
  BY <1>1, FS_Subset
<1> QED BY <1>2, FS_CardinalityType

(* A frame that is sent adds its input to those under way. *)
LEMMA KeysAppend ==
  ASSUME NEW fs \in Seq(Frame), NEW f \in Frame
  PROVE  Cardinality(KeysIn(Append(fs, f))) = Cardinality(KeysIn(fs)) + One(HasKey(f))
<1>1. PICK w \in {Append(fs, f)}, n \in Nat : n = Len(fs)
  OBVIOUS
<1>2. Len(w) = n + 1 /\ w[n + 1] = f /\ (\A i \in 1 .. n : w[i] = fs[i]) /\ n + 1 \notin 1 .. n
  BY <1>1
<1>3. \A i : i \in 1 .. n + 1 <=> i = n + 1 \/ i \in 1 .. n
  BY <1>1
<1>4. IsFiniteSet(KeysIn(fs)) /\ Cardinality(KeysIn(fs)) \in Nat
  BY KeysFinite
<1>5. CASE HasKey(f)
  <2>1. KeysIn(w) = KeysIn(fs) \cup {n + 1} /\ n + 1 \notin KeysIn(fs)
    BY <1>1, <1>2, <1>3, <1>5 DEF KeysIn
  <2>2. Cardinality(KeysIn(w)) = Cardinality(KeysIn(fs)) + 1
    BY <1>4, <2>1, FS_AddElement
  <2> QED BY <1>1, <1>5, <2>2 DEF One
<1>6. CASE ~HasKey(f)
  <2>1. KeysIn(w) = KeysIn(fs)
    BY <1>1, <1>2, <1>3, <1>6 DEF KeysIn
  <2>2. Cardinality(KeysIn(w)) = Cardinality(KeysIn(fs)) + 0
    BY <1>4, <2>1
  <2> QED BY <1>1, <1>6, <2>2 DEF One
<1> QED BY <1>5, <1>6

(* A disconnect loses inputs and makes none. *)
LEMMA KeysPrefix ==
  ASSUME NEW fs \in Seq(Frame), NEW i \in 0 .. Len(fs)
  PROVE  /\ SubSeq(fs, 1, i) \in Seq(Frame)
         /\ Cardinality(KeysIn(SubSeq(fs, 1, i))) =< Cardinality(KeysIn(fs))
<1>1. PICK w \in {SubSeq(fs, 1, i)}, n \in Nat : n = Len(fs)
  OBVIOUS
<1>2. w \in Seq(Frame) /\ Len(w) = i /\ \A j \in 1 .. i : w[j] = fs[j] /\ j \in 1 .. n
  BY <1>1
<1>3. KeysIn(w) \subseteq KeysIn(fs)
  BY <1>1, <1>2 DEF KeysIn
<1> QED BY <1>1, <1>2, <1>3, KeysFinite, FS_Subset

(* The first frame is among those under way. *)
LEMMA KeysHead ==
  ASSUME NEW fs \in Seq(Frame), fs # <<>>
  PROVE  Head(fs) \in Frame /\ One(HasKey(Head(fs))) =< Cardinality(KeysIn(fs))
<1>1. Head(fs) = fs[1] /\ 1 \in 1 .. Len(fs) /\ Head(fs) \in Frame
  OBVIOUS
<1>2. IsFiniteSet(KeysIn(fs)) /\ Cardinality(KeysIn(fs)) \in Nat
  BY KeysFinite
<1>3. CASE HasKey(fs[1])
  <2>1. 1 \in KeysIn(fs)
    BY <1>1, <1>3 DEF KeysIn
  <2>2. Cardinality(KeysIn(fs)) # 0
    BY <1>2, <2>1, FS_EmptySet
  <2> QED BY <1>1, <1>2, <2>2 DEF One
<1>4. CASE ~HasKey(fs[1])
  BY <1>1, <1>2, <1>4 DEF One
<1> QED BY <1>3, <1>4

(* Nothing under way is no input. *)
LEMMA KeysNone == Cardinality(KeysIn(<<>>)) = 0
<1>1. KeysIn(<<>>) = {}
  BY DEF KeysIn
<1> QED BY <1>1, FS_EmptySet

(* The main program has not started; no input was made or passed on. *)
LEMMA KbdInitInv == KbdInit => KbdInv
<1> SUFFICES ASSUME KbdInit PROVE KbdInv
  OBVIOUS
<1>1. stack = <<>> /\ frame = <<>> /\ irlink = NoLink /\ sigio = FALSE
      /\ count = [keys |-> 0, downs |-> 0, fed |-> 0]
  BY DEF KbdInit
<1>2. <<>> \in Stack /\ <<>> \in Frame /\ <<>> \in Seq(Command) /\ <<>> \in Seq(Frame)
  BY DEF Stack, Frame
<1>3. KbdType
  BY <1>1, <1>2 DEF KbdType, NoLink
<1>4. ~ReadingIn(<<>>) /\ ~ParsingIn(<<>>)
  BY DEF ReadingIn, ParsingIn
<1>5. One(ReadingIn(stack)) = 0 /\ One(sigio) = 0 /\ One(ParsingIn(stack) /\ HasKey(frame)) = 0
  BY <1>1, <1>4 DEF One
<1>6. Cardinality(KeysIn(irlink.frames)) = 0 /\ Repeats = 0
  BY <1>1, <1>5, KeysNone DEF NoLink, Repeats
<1> QED BY <1>1, <1>3, <1>5, <1>6 DEF KbdInv, Budget

(* The terms of the budget are numbers. *)
LEMMA BudgetTerms ==
  ASSUME KbdType
  PROVE  \E f, u, p, r, k, d \in Nat :
           /\ f = count.fed /\ k = count.keys /\ d = count.downs
           /\ u = Cardinality(KeysIn(irlink.frames))
           /\ p = One(ParsingIn(stack) /\ HasKey(frame)) /\ p =< 1
           /\ r = Repeats /\ r =< 2
           /\ Budget <=> f + u + p + r =< k + 2 * d
<1>1. \A b : One(b) \in {0, 1}
  BY DEF One
<1>2. count.fed \in Nat /\ count.keys \in Nat /\ count.downs \in Nat
  BY DEF KbdType
<1>3. Cardinality(KeysIn(irlink.frames)) \in Nat
  <2>1. irlink.frames \in Seq(Frame)
    BY DEF KbdType
  <2> QED BY <2>1, KeysFinite
<1>4. PICK p \in Nat : p = One(ParsingIn(stack) /\ HasKey(frame)) /\ p =< 1
  BY <1>1
<1>5. PICK x \in {0, 1}, y \in {0, 1} : x = One(ReadingIn(stack)) /\ y = One(sigio)
  BY <1>1
<1>6. PICK r \in Nat : r = Repeats /\ r =< 2
  BY <1>5 DEF Repeats
<1> QED BY <1>2, <1>3, <1>4, <1>6 DEF Budget

(* The budget of the next state, spelled out. *)
LEMMA BudgetNext ==
  ASSUME KbdType', NEW r, r = (IF irlink'.up THEN 0 ELSE One(ReadingIn(stack')) + One(sigio')),
         count'.fed + Cardinality(KeysIn(irlink'.frames)) + One(ParsingIn(stack') /\ HasKey(frame')) + r
           =< count'.keys + 2 * count'.downs
  PROVE  KbdInv'
<1>1. One(ParsingIn(stack) /\ HasKey(frame))' = One(ParsingIn(stack') /\ HasKey(frame'))
  BY DEF ParsingIn, HasKey, One
<1>2. Cardinality(KeysIn(irlink.frames))' = Cardinality(KeysIn(irlink'.frames))
  BY DEF KeysIn, HasKey
<1>3. Repeats' = r
  BY DEF Repeats, ReadingIn, One
<1>4. Budget'
  BY <1>1, <1>2, <1>3 DEF Budget
<1> QED BY <1>4 DEF KbdInv

(* Counting a condition that implies another. *)
LEMMA OneOf ==
  ASSUME NEW a, NEW b, a => b
  PROVE  One(a) \in {0, 1} /\ One(b) \in {0, 1} /\ One(a) =< One(b)
  BY DEF One

(* A handler is interrupted, goes on or returns, and reads nothing. *)
LEMMA StackOnly ==
  ASSUME KbdInv, stack' \in Stack, UNCHANGED <<frame, sigio, count>>,
         irlink' \in [up : BOOLEAN, cmds : Seq(Command), frames : Seq(Frame)],
         irlink'.up = irlink.up, irlink'.frames = irlink.frames,
         ReadingIn(stack') => ReadingIn(stack), ParsingIn(stack') => ParsingIn(stack)
  PROVE  KbdInv'
<1>1. KbdType /\ Budget /\ KbdType'
  BY DEF KbdInv, KbdType
<1>2. PICK f, u, p, r, k, d \in Nat :
        /\ f = count.fed /\ k = count.keys /\ d = count.downs
        /\ u = Cardinality(KeysIn(irlink.frames))
        /\ p = One(ParsingIn(stack) /\ HasKey(frame)) /\ r = Repeats
        /\ f + u + p + r =< k + 2 * d
  BY <1>1, BudgetTerms, ZenonT(60)
<1>3. PICK p2 \in Nat : p2 = One(ParsingIn(stack') /\ HasKey(frame')) /\ p2 =< p
  BY <1>2 DEF One
<1>4. PICK a2 \in {0, 1}, a \in {0, 1}, b \in {0, 1} :
        a2 = One(ReadingIn(stack')) /\ a = One(ReadingIn(stack)) /\ a2 =< a /\ b = One(sigio)
  BY DEF One
<1>5. PICK r2 \in Nat : r2 = (IF irlink'.up THEN 0 ELSE One(ReadingIn(stack')) + One(sigio')) /\ r2 =< r
  <2>1. r = IF irlink.up THEN 0 ELSE a + b
    BY <1>2, <1>4, Zenon DEF Repeats
  <2>2. CASE irlink.up
    BY <2>2
  <2>3. CASE ~irlink.up
    <3>1. r = a + b /\ a2 + b \in Nat /\ a2 + b =< r
      BY <1>4, <2>1, <2>3
    <3> QED BY <1>4, <2>3, <3>1
  <2> QED BY <2>2, <2>3
<1>6. f + u + p2 + r2 =< k + 2 * d
  <2>1. p2 =< p /\ r2 =< r /\ f + u + p + r =< k + 2 * d
    BY <1>2, <1>3, <1>5
  <2> QED BY <2>1
<1>7. /\ Cardinality(KeysIn(irlink'.frames)) = u
      /\ count'.fed = f /\ count'.keys = k /\ count'.downs = d
  BY <1>2
<1>8. count'.fed + Cardinality(KeysIn(irlink'.frames)) + One(ParsingIn(stack') /\ HasKey(frame')) + r2
        =< count'.keys + 2 * count'.downs
  BY <1>3, <1>6, <1>7, Zenon
<1> QED BY <1>1, <1>5, <1>8, BudgetNext

(* The same, for a step that says what its terms become. *)
LEMMA Balanced ==
  ASSUME KbdType', NEW f \in Nat, NEW u \in Nat, NEW q \in Nat, NEW r \in Nat, NEW k \in Nat, NEW d \in Nat,
         f = count'.fed /\ k = count'.keys /\ d = count'.downs
           /\ u = Cardinality(KeysIn(irlink'.frames)) /\ q = One(ParsingIn(stack') /\ HasKey(frame'))
           /\ r = (IF irlink'.up THEN 0 ELSE One(ReadingIn(stack')) + One(sigio')),
         f + u + q + r =< k + 2 * d
  PROVE  KbdInv'
<1>1. count'.fed + Cardinality(KeysIn(irlink'.frames)) + One(ParsingIn(stack') /\ HasKey(frame')) + r
        =< count'.keys + 2 * count'.downs
  BY Zenon
<1> QED BY <1>1, BudgetNext

(* The connection is made anew when no handler is active or called for. *)
LEMMA ConnectRequestInv ==
  ASSUME KbdInv, ConnectRequest
  PROVE  KbdInv'
<1>1. KbdType /\ Budget /\ stack = <<>> /\ ~sigio
  BY DEF KbdInv, ConnectRequest, InMain
<1>2. UNCHANGED <<stack, frame, sigio, count>> /\ irlink' = [NoLink EXCEPT !.up = TRUE]
  BY DEF ConnectRequest
<1>3. irlink'.up /\ irlink'.frames = <<>> /\ irlink'.cmds = <<>>
  BY <1>2 DEF NoLink
<1>4. KbdType'
  <2>1. <<>> \in Seq(Command) /\ <<>> \in Seq(Frame)
    OBVIOUS
  <2> QED BY <1>1, <1>2, <2>1 DEF KbdType, NoLink
<1>5. PICK f, u, p, r, k, d \in Nat :
        /\ f = count.fed /\ k = count.keys /\ d = count.downs
        /\ f + u + p + r =< k + 2 * d
  BY <1>1, BudgetTerms, ZenonT(60)
<1>6. 0 = One(ParsingIn(stack') /\ HasKey(frame'))
  BY <1>1, <1>2 DEF ParsingIn, One
<1>7. 0 = Cardinality(KeysIn(irlink'.frames))
  BY <1>3, KeysNone
<1>8. f + 0 + 0 + 0 =< k + 2 * d
  BY <1>5
<1>9. f = count'.fed /\ k = count'.keys /\ d = count'.downs
      /\ 0 = (IF irlink'.up THEN 0 ELSE One(ReadingIn(stack')) + One(sigio'))
  BY <1>2, <1>3, <1>5
<1> QED BY <1>4, <1>6, <1>7, <1>8, <1>9, Balanced

(* SIGALRM *)
LEMMA WatchdogInv ==
  ASSUME KbdInv, WatchdogExpires \/ WatchdogSends \/ WatchdogReturns
  PROVE  KbdInv'
<1>1. KbdType /\ stack \in Stack /\ stack \in Seq(Activation) /\ UNCHANGED <<frame, sigio, count>>
  BY DEF KbdInv, KbdType, Stack, WatchdogExpires, WatchdogSends, WatchdogReturns
<1>2. /\ irlink' \in [up : BOOLEAN, cmds : Seq(Command), frames : Seq(Frame)]
      /\ irlink'.up = irlink.up /\ irlink'.frames = irlink.frames
  <2>1. irlink \in [up : BOOLEAN, cmds : Seq(Command), frames : Seq(Frame)]
    BY <1>1 DEF KbdType
  <2>2. ASSUME NEW c \in Command, DataRequest(c)
        PROVE  /\ irlink' \in [up : BOOLEAN, cmds : Seq(Command), frames : Seq(Frame)]
               /\ irlink'.up = irlink.up /\ irlink'.frames = irlink.frames
    <3>1. irlink.cmds \in Seq(Command)
      BY <2>1
    <3>2. Append(irlink.cmds, c) \in Seq(Command)
      BY <2>2, <3>1, AppendProperties
    <3>3. PICK cs \in Seq(Command) : cs = Append(irlink.cmds, c)
      BY <3>2
    <3>4. irlink' = IF irlink.up THEN [irlink EXCEPT !.cmds = cs] ELSE irlink
      BY <2>2, <3>3 DEF DataRequest
    <3> QED BY <2>1, <3>3, <3>4
  <2>3. CASE WatchdogSends
    BY <2>2, <2>3 DEF WatchdogSends, Command
  <2>4. CASE WatchdogExpires \/ WatchdogReturns
    BY <2>1, <2>4 DEF WatchdogExpires, WatchdogReturns
  <2> QED BY <2>3, <2>4
<1>3. /\ stack' \in Stack
      /\ ReadingIn(stack') => ReadingIn(stack)
      /\ ParsingIn(stack') => ParsingIn(stack)
  <2>1. CASE WatchdogExpires
    <3>1. PICK a : a = [handler |-> "alarm", pc |-> "switch", n |-> 0]
      OBVIOUS
    <3>2. a \in Activation /\ a.handler = "alarm"
      BY <3>1 DEF Activation
    <3>3. stack' = Append(stack, a) /\ \A i \in 1 .. Len(stack) : stack[i].handler # a.handler
      BY <1>1, <2>1, <3>1 DEF WatchdogExpires, Runs
    <3> QED BY <1>1, <3>2, <3>3, Pushed
  <2>2. CASE stack # <<>> /\ Pop
    BY <1>1, <2>2, Popped DEF Pop
  <2>3. ASSUME stack # <<>>, Top.handler = "alarm", NEW x \in {"rearm", "poll"}, Goto(x)
        PROVE  /\ stack' \in Stack
               /\ ReadingIn(stack') => ReadingIn(stack)
               /\ ParsingIn(stack') => ParsingIn(stack)
    <3>1. PICK a : a = [stack[Len(stack)] EXCEPT !.pc = x]
      OBVIOUS
    <3>2. Len(stack) \in 1 .. Len(stack) /\ stack[Len(stack)] \in Activation
      BY <1>1, <2>3
    <3>3. a \in Activation /\ a.handler = stack[Len(stack)].handler /\ a.n = stack[Len(stack)].n
          /\ a.n >= stack[Len(stack)].n
      BY <3>1, <3>2 DEF Activation
    <3>4. a.handler = "alarm"
      BY <2>3, <3>3 DEF Top, Last
    <3>5. stack' = [stack EXCEPT ![Len(stack)] = a]
      BY <2>3, <3>1 DEF Goto
    <3> QED BY <1>1, <2>3, <3>3, <3>4, <3>5, TopChanged
  <2>4. CASE WatchdogSends
    BY <2>2, <2>3, <2>4 DEF WatchdogSends, InHandler
  <2>5. CASE WatchdogReturns
    BY <2>2, <2>5 DEF WatchdogReturns, InHandler
  <2> QED BY <2>1, <2>4, <2>5
<1> QED BY <1>1, <1>2, <1>3, StackOnly

(* SIGIO: the pending signal becomes an activation. *)
LEMMA DataIndicationInv ==
  ASSUME KbdInv, DataIndication
  PROVE  KbdInv'
<1>1. KbdType /\ Budget /\ stack \in Stack /\ stack \in Seq(Activation) /\ sigio
  BY DEF KbdInv, KbdType, Stack, DataIndication
<1>2. UNCHANGED <<frame, irlink, count>> /\ sigio' = FALSE
  BY DEF DataIndication
<1>3. PICK a : a = [handler |-> "io", pc |-> "recv", n |-> 1]
  OBVIOUS
<1>4. a \in Activation /\ a.handler = "io" /\ a.n >= 1 /\ a.pc = "recv"
  BY <1>3 DEF Activation
<1>5. stack' = Append(stack, a) /\ \A i \in 1 .. Len(stack) : stack[i].handler # "io"
  BY <1>1, <1>3 DEF DataIndication, Runs
<1>6. stack' \in Stack /\ (ParsingIn(stack') => ParsingIn(stack))
  BY <1>1, <1>4, <1>5, Pushed
<1>7. ~ReadingIn(stack)
  BY <1>5 DEF ReadingIn
<1>8. KbdType'
  BY <1>1, <1>2, <1>6 DEF KbdType
<1>9. PICK f, u, p, r, k, d \in Nat :
        /\ f = count.fed /\ k = count.keys /\ d = count.downs
        /\ u = Cardinality(KeysIn(irlink.frames))
        /\ p = One(ParsingIn(stack) /\ HasKey(frame)) /\ r = Repeats
        /\ f + u + p + r =< k + 2 * d
  BY <1>1, BudgetTerms, ZenonT(60)
<1>10. PICK p2 \in Nat : p2 = One(ParsingIn(stack') /\ HasKey(frame')) /\ p2 =< p
  BY <1>2, <1>6, <1>9 DEF One
<1>11. PICK r2 \in Nat : r2 = (IF irlink'.up THEN 0 ELSE One(ReadingIn(stack')) + One(sigio')) /\ r2 =< r
  <2>1. PICK x \in {0, 1} : x = One(ReadingIn(stack'))
    BY DEF One
  <2>2. One(sigio') = 0 /\ One(sigio) = 1 /\ One(ReadingIn(stack)) = 0
    BY <1>1, <1>2, <1>7 DEF One
  <2>3. r = IF irlink.up THEN 0 ELSE 0 + 1
    BY <1>9, <2>2, Zenon DEF Repeats
  <2>4. x + 0 = x /\ 0 + 1 = 1 /\ x \in Nat /\ x =< 1 /\ 0 \in Nat /\ 0 =< 0
    BY <2>1
  <2> QED BY <1>2, <2>1, <2>2, <2>3, <2>4
<1>12. f + u + p2 + r2 =< k + 2 * d
  <2>1. p2 =< p /\ r2 =< r /\ f + u + p + r =< k + 2 * d
    BY <1>9, <1>10, <1>11
  <2> QED BY <2>1
<1>13. f = count'.fed /\ k = count'.keys /\ d = count'.downs /\ u = Cardinality(KeysIn(irlink'.frames))
  BY <1>2, <1>9
<1> QED BY <1>8, <1>10, <1>11, <1>12, <1>13, Balanced, ZenonT(60)

(* recv: a frame takes the place of the last one, or, with no connection,  *)
(* the last one is looked at again.                                        *)
LEMMA RecvInv ==
  ASSUME KbdInv, Recv
  PROVE  KbdInv'
<1>1. KbdType /\ Budget /\ stack \in Stack /\ stack \in Seq(Activation) /\ stack # <<>>
  BY DEF KbdInv, KbdType, Stack, Recv, InHandler
<1>2. UNCHANGED <<sigio, count>>
  BY DEF Recv
<1>3. PICK t \in Activation : /\ t = stack[Len(stack)] /\ t.handler = "io" /\ t.pc = "recv"
                              /\ Len(stack) \in 1 .. Len(stack)
  <2>1. Len(stack) \in 1 .. Len(stack) /\ stack[Len(stack)] \in Activation
    BY <1>1
  <2> QED BY <2>1 DEF Recv, InHandler, Top, Last
<1>4. PICK a : a = [t EXCEPT !.pc = "parse"]
  OBVIOUS
<1>5. a \in Activation /\ a.handler = "io" /\ a.pc = "parse" /\ a.n = t.n /\ a.n >= t.n
  BY <1>3, <1>4 DEF Activation
<1>6. stack' = [stack EXCEPT ![Len(stack)] = a]
  BY <1>3, <1>4 DEF Recv, Goto
<1>7. stack' \in Stack /\ ~ReadingIn(stack')
  <2>1. a.handler = stack[Len(stack)].handler /\ a.n >= stack[Len(stack)].n
    BY <1>3, <1>5
  <2>2. stack' \in Stack /\ (ReadingIn(stack') => IF a.handler = "io" THEN a.pc = "recv" ELSE ReadingIn(stack))
    BY <1>1, <1>5, <1>6, <2>1, TopChanged, Zenon
  <2> QED BY <1>5, <2>2
<1>8. ReadingIn(stack) /\ ~ParsingIn(stack)
  <2>1. \A i \in 1 .. Len(stack) : stack[i].handler = "io" => i = Len(stack)
    BY <1>1, <1>3 DEF Stack
  <2> QED BY <1>3, <2>1 DEF ReadingIn, ParsingIn
<1>9. PICK f, u, p, r, k, d \in Nat :
        /\ f = count.fed /\ k = count.keys /\ d = count.downs
        /\ u = Cardinality(KeysIn(irlink.frames))
        /\ p = One(ParsingIn(stack) /\ HasKey(frame)) /\ r = Repeats
        /\ f + u + p + r =< k + 2 * d
  BY <1>1, BudgetTerms, ZenonT(60)
<1>10. f = count'.fed /\ k = count'.keys /\ d = count'.downs
  BY <1>2, <1>9
<1>11. PICK b \in {0, 1} : b = One(sigio) /\ One(sigio') = b
  BY <1>2 DEF One
<1>12. r = (IF irlink.up THEN 0 ELSE 1 + b) /\ One(ReadingIn(stack')) = 0
  <2>1. One(ReadingIn(stack)) = 1 /\ One(ReadingIn(stack')) = 0
    BY <1>7, <1>8 DEF One
  <2> QED BY <1>9, <1>11, <2>1, Zenon DEF Repeats
<1>13. PICK q \in Nat : q = One(ParsingIn(stack') /\ HasKey(frame')) /\ q =< One(HasKey(frame')) /\ q =< 1
  BY DEF One
<1>14. irlink \in [up : BOOLEAN, cmds : Seq(Command), frames : Seq(Frame)] /\ irlink.frames \in Seq(Frame)
  BY <1>1 DEF KbdType
<1>15. CASE irlink.frames # <<>> /\ frame' = Head(irlink.frames) /\ irlink' = [irlink EXCEPT !.frames = <<>>]
  <2>1. frame' \in Frame /\ One(HasKey(frame')) =< u
    BY <1>9, <1>14, <1>15, KeysHead
  <2>2. irlink'.up = irlink.up /\ irlink'.frames = <<>>
        /\ irlink' \in [up : BOOLEAN, cmds : Seq(Command), frames : Seq(Frame)]
    <3>1. <<>> \in Seq(Frame)
      OBVIOUS
    <3> QED BY <1>14, <1>15, <3>1
  <2>3. KbdType'
    BY <1>1, <1>2, <1>7, <2>1, <2>2 DEF KbdType
  <2>4. PICK r2 \in Nat : r2 = (IF irlink'.up THEN 0 ELSE One(ReadingIn(stack')) + One(sigio')) /\ r2 =< r
    <3>1. CASE irlink.up
      BY <1>12, <2>2, <3>1
    <3>2. CASE ~irlink.up
      <4>1. 0 + b \in Nat /\ 0 + b =< 1 + b
        OBVIOUS
      <4> QED BY <1>11, <1>12, <2>2, <3>2, <4>1
    <3> QED BY <3>1, <3>2
  <2>5. PICK z \in Nat : z = 0 /\ z = Cardinality(KeysIn(irlink'.frames))
    BY <2>2, KeysNone
  <2>6. f + z + q + r2 =< k + 2 * d
    <3>1. PICK h \in Nat : h = One(HasKey(frame')) /\ h =< u /\ q =< h
      BY <1>13, <2>1 DEF One
    <3>2. r2 =< r /\ f + u + p + r =< k + 2 * d /\ z = 0
      BY <1>9, <2>4, <2>5
    <3> QED BY <3>1, <3>2
  <2> QED BY <1>10, <1>13, <2>3, <2>4, <2>5, <2>6, Balanced, ZenonT(60)
<1>16. CASE irlink.frames = <<>> /\ ~irlink.up /\ UNCHANGED <<frame, irlink>>
  <2>1. KbdType'
    BY <1>1, <1>2, <1>7, <1>16 DEF KbdType
  <2>2. PICK r2 \in Nat : /\ r = 1 + r2
                          /\ r2 = (IF irlink'.up THEN 0 ELSE One(ReadingIn(stack')) + One(sigio'))
    <3>1. 0 + b = b /\ b \in Nat
      OBVIOUS
    <3> QED BY <1>11, <1>12, <1>16, <3>1
  <2>3. u = Cardinality(KeysIn(irlink'.frames))
    BY <1>9, <1>16
  <2>4. f + u + q + r2 =< k + 2 * d
    <3>1. q =< 1 /\ r = 1 + r2 /\ f + u + p + r =< k + 2 * d
      BY <1>9, <1>13, <2>2
    <3> QED BY <3>1
  <2> QED BY <1>10, <1>13, <2>1, <2>2, <2>3, <2>4, Balanced, ZenonT(60)
<1> QED BY <1>15, <1>16 DEF Recv

(* The step to the next subframe, of the activation on top. *)
LEMMA SubframeDone ==
  ASSUME NEW t \in Activation, t = stack[Len(stack)], t.handler = "io", t.n >= 1,
         stack \in Seq(Activation), stack # <<>>, NextSubframe
  PROVE  \E a \in Activation :
           /\ a.handler = "io" /\ a.n >= t.n /\ a.pc # "recv" /\ ~(a.pc = "parse" /\ a.n = 1)
           /\ stack' = [stack EXCEPT ![Len(stack)] = a]
<1>1. t.n \in Nat
  BY DEF Activation
<1>2. PICK m \in Nat : m = t.n + 1 /\ m # 1 /\ m >= t.n
  BY <1>1
<1>3. PICK a : a = [handler |-> "io", pc |-> "parse", n |-> m]
  OBVIOUS
<1>4. a \in Activation /\ a.handler = "io" /\ a.n = m /\ a.pc = "parse"
  BY <1>3 DEF Activation
<1>5. Len(stack) \in 1 .. Len(stack)
  OBVIOUS
<1>6. stack' = [stack EXCEPT ![Len(stack)] = a]
  <2>1. stack' = [stack EXCEPT ![Len(stack)] = [handler |-> "io", pc |-> "parse", n |-> t.n + 1]]
    BY <1>5 DEF NextSubframe, Top, Last
  <2> QED BY <1>2, <1>3, <2>1, Zenon
<1> QED BY <1>2, <1>4, <1>6

(* irkbd_start_watchdog_timer: nothing is passed on. *)
LEMMA ArmTimerInv ==
  ASSUME KbdInv, ArmTimer
  PROVE  KbdInv'
<1>1. /\ KbdType /\ stack \in Stack /\ stack \in Seq(Activation) /\ stack # <<>> /\ NextSubframe
      /\ UNCHANGED <<frame, irlink, sigio, count>>
  BY DEF KbdInv, KbdType, Stack, ArmTimer, InHandler
<1>2. PICK t \in Activation : t = stack[Len(stack)] /\ t.handler = "io" /\ t.n >= 1
  <2>1. Len(stack) \in 1 .. Len(stack) /\ stack[Len(stack)] \in Activation
    BY <1>1
  <2> QED BY <1>1, <2>1 DEF ArmTimer, InHandler, Top, Last, Stack
<1>3. PICK a \in Activation : /\ a.handler = "io" /\ a.n >= t.n /\ a.pc # "recv"
                              /\ ~(a.pc = "parse" /\ a.n = 1)
                              /\ stack' = [stack EXCEPT ![Len(stack)] = a]
  BY <1>1, <1>2, SubframeDone
<1>4. stack' \in Stack /\ ~ReadingIn(stack') /\ ~ParsingIn(stack')
  <2>1. a.handler = stack[Len(stack)].handler /\ a.n >= stack[Len(stack)].n
    BY <1>2, <1>3
  <2>2. /\ stack' \in Stack
        /\ ReadingIn(stack') => IF a.handler = "io" THEN a.pc = "recv" ELSE ReadingIn(stack)
        /\ ParsingIn(stack') => IF a.handler = "io" THEN a.pc = "parse" /\ a.n = 1 ELSE ParsingIn(stack)
    BY <1>1, <1>3, <2>1, TopChanged, Zenon
  <2> QED BY <1>3, <2>2
<1>5. irlink' \in [up : BOOLEAN, cmds : Seq(Command), frames : Seq(Frame)]
  BY <1>1 DEF KbdType
<1> QED BY <1>1, <1>4, <1>5, StackOnly

(* A subframe is looked at; only the first can be an input. *)
LEMMA ParseFrameInv ==
  ASSUME KbdInv, ParseFrame
  PROVE  KbdInv'
<1>1. KbdType /\ Budget /\ stack \in Stack /\ stack \in Seq(Activation) /\ stack # <<>>
  BY DEF KbdInv, KbdType, Stack, ParseFrame, InHandler
<1>2. UNCHANGED <<frame, irlink, sigio>>
  BY DEF ParseFrame
<1>3. PICK t \in Activation : /\ t = stack[Len(stack)] /\ t = Top /\ t.handler = "io" /\ t.pc = "parse"
                              /\ Len(stack) \in 1 .. Len(stack)
  <2>1. Len(stack) \in 1 .. Len(stack) /\ stack[Len(stack)] \in Activation
    BY <1>1
  <2> QED BY <2>1 DEF ParseFrame, InHandler, Top, Last
<1>4. irlink \in [up : BOOLEAN, cmds : Seq(Command), frames : Seq(Frame)] /\ frame \in Frame
      /\ count \in [keys : Nat, downs : Nat, fed : Nat]
  BY <1>1 DEF KbdType
<1>5. CASE Top.n > Len(frame)
  <2>1. Pop /\ UNCHANGED count
    BY <1>5 DEF ParseFrame
  <2>2. /\ stack' \in Stack
        /\ ReadingIn(stack') => ReadingIn(stack)
        /\ ParsingIn(stack') => ParsingIn(stack)
    BY <1>1, <2>1, Popped DEF Pop
  <2> QED BY <1>2, <1>4, <2>1, <2>2, StackOnly
<1>6. CASE ~(Top.n > Len(frame))
  <2>1. /\ IF frame[t.n].type = "LEDOK" THEN NextSubframe ELSE Goto("arm")
        /\ count' = [count EXCEPT !.fed = IF frame[t.n].type = "key" THEN @ + 1 ELSE @]
    BY <1>3, <1>6 DEF ParseFrame, Subframe
  <2>2. t.n \in Nat /\ t.n >= 1
    BY <1>1, <1>3 DEF Activation, Stack
  <2>3. PICK a \in Activation : /\ a.handler = "io" /\ a.n >= t.n /\ a.pc # "recv"
                                /\ ~(a.pc = "parse" /\ a.n = 1)
                                /\ stack' = [stack EXCEPT ![Len(stack)] = a]
    <3>1. CASE frame[t.n].type = "LEDOK"
      BY <1>1, <1>3, <2>1, <2>2, <3>1, SubframeDone
    <3>2. CASE frame[t.n].type # "LEDOK"
      <4>1. PICK a : a = [t EXCEPT !.pc = "arm"]
        OBVIOUS
      <4>2. a \in Activation /\ a.handler = "io" /\ a.n = t.n /\ a.pc = "arm"
        BY <1>3, <4>1 DEF Activation
      <4>3. stack' = [stack EXCEPT ![Len(stack)] = a]
        BY <1>3, <2>1, <3>2, <4>1 DEF Goto
      <4>4. a.n >= t.n
        BY <2>2, <4>2
      <4> QED BY <4>2, <4>3, <4>4
    <3> QED BY <3>1, <3>2
  <2>7. stack' \in Stack /\ ~ReadingIn(stack') /\ ~ParsingIn(stack')
    <3>1. a.handler = stack[Len(stack)].handler /\ a.n >= stack[Len(stack)].n
      BY <1>3, <2>3
    <3>2. /\ stack' \in Stack
          /\ ReadingIn(stack') => IF a.handler = "io" THEN a.pc = "recv" ELSE ReadingIn(stack)
          /\ ParsingIn(stack') => IF a.handler = "io" THEN a.pc = "parse" /\ a.n = 1 ELSE ParsingIn(stack)
      BY <1>1, <2>3, <3>1, TopChanged, Zenon
    <3> QED BY <2>3, <3>2
  <2>8. PICK f, u, p, r, k, d \in Nat :
          /\ f = count.fed /\ k = count.keys /\ d = count.downs
          /\ u = Cardinality(KeysIn(irlink.frames))
          /\ p = One(ParsingIn(stack) /\ HasKey(frame)) /\ r = Repeats
          /\ f + u + p + r =< k + 2 * d
    BY <1>1, BudgetTerms, ZenonT(60)
  <2>9. frame[t.n].type = "key" => ParsingIn(stack) /\ HasKey(frame)
    <3>1. frame \in Seq(Sub) /\ t.n \in 1 .. Len(frame)
      BY <1>3, <1>4, <1>6, <2>2 DEF Frame
    <3>2. frame[t.n].type = "key" => t.n = 1
      BY <1>4, <3>1 DEF Frame
    <3>3. frame # <<>>
      BY <3>1
    <3> QED BY <1>3, <3>2, <3>3 DEF ParsingIn, HasKey
  <2>10. PICK f2 \in Nat : count' = [count EXCEPT !.fed = f2] /\ f2 =< f + p
    <3>1. CASE frame[t.n].type = "key"
      <4>1. p = 1 /\ count' = [count EXCEPT !.fed = count.fed + 1]
        BY <2>1, <2>8, <2>9, <3>1 DEF One
      <4>2. PICK f2 \in Nat : f2 = f + 1 /\ f2 =< f + p
        BY <4>1
      <4> QED BY <2>8, <4>1, <4>2
    <3>2. CASE frame[t.n].type # "key"
      <4>1. count' = [count EXCEPT !.fed = f]
        BY <2>1, <2>8, <3>2
      <4>2. f =< f + p
        OBVIOUS
      <4> QED BY <4>1, <4>2
    <3> QED BY <3>1, <3>2
  <2>11. /\ f2 = count'.fed /\ k = count'.keys /\ d = count'.downs
         /\ count' \in [keys : Nat, downs : Nat, fed : Nat]
    BY <1>4, <2>8, <2>10
  <2>12. KbdType'
    BY <1>1, <1>2, <2>7, <2>11 DEF KbdType
  <2>13. 0 = One(ParsingIn(stack') /\ HasKey(frame')) /\ One(ReadingIn(stack')) = 0
    BY <2>7 DEF One
  <2>14. PICK r2 \in Nat : r2 = (IF irlink'.up THEN 0 ELSE One(ReadingIn(stack')) + One(sigio')) /\ r2 =< r
    <3>1. PICK b \in {0, 1}, x \in {0, 1} : b = One(sigio) /\ One(sigio') = b /\ x = One(ReadingIn(stack))
      BY <1>2 DEF One
    <3>2. r = IF irlink.up THEN 0 ELSE x + b
      BY <2>8, <3>1, Zenon DEF Repeats
    <3>3. CASE irlink.up
      BY <1>2, <3>2, <3>3
    <3>4. CASE ~irlink.up
      <4>1. 0 + b \in Nat /\ 0 + b =< x + b
        OBVIOUS
      <4> QED BY <1>2, <2>13, <3>1, <3>2, <3>4, <4>1
    <3> QED BY <3>3, <3>4
  <2>15. f2 + u + 0 + r2 =< k + 2 * d
    <3>1. f2 =< f + p /\ r2 =< r /\ f + u + p + r =< k + 2 * d
      BY <2>8, <2>10, <2>14
    <3> QED BY <3>1
  <2>16. u = Cardinality(KeysIn(irlink'.frames))
    BY <1>2, <2>8
  <2> QED BY <2>11, <2>12, <2>13, <2>14, <2>15, <2>16, Balanced, ZenonT(60)
<1> QED BY <1>5, <1>6

(* The dock answers with a frame, of which the first subframe may be an    *)
(* input.                                                                  *)
LEMMA AnswerFrame ==
  ASSUME KbdType, NEW c \in Command, NEW a \in Answers(c)
  PROVE  a \in Frame /\ (HasKey(a) <=> a[1].type = "key")
<1>1. \A x \in {"LEDOK", "RSPN41", "KBDOK", "KBDERR", "MSOK", "MSERR"} : Response(x) \in Sub /\ Response(x).type # "key"
  BY DEF Response, Sub
<1>2. ASSUME NEW x \in Sub PROVE <<x>> \in Frame /\ <<x>> # <<>>
  BY DEF Frame
<1>3. ASSUME NEW x \in Sub, NEW y \in Sub, y.type # "key" PROVE <<x, y>> \in Frame /\ <<x, y>> # <<>>
  <2>1. <<x, y>> \in Seq(Sub) /\ Len(<<x, y>>) = 2 /\ <<x, y>>[2] = y
    OBVIOUS
  <2> QED BY <1>3, <2>1 DEF Frame
<1>4. Key(count.keys + 1) \in Sub
  BY DEF KbdType, Key, Sub
<1>5. a \in Frame /\ a # <<>>
  <2>1. CASE \E x \in {"LEDOK", "RSPN41", "KBDOK", "KBDERR", "MSOK", "MSERR"} : a = <<Response(x)>>
    BY <1>1, <1>2, <2>1
  <2>2. CASE a \in {<<Key(count.keys + 1)>>, <<Key(count.keys + 1), Response("RSPN41")>>}
    BY <1>1, <1>2, <1>3, <1>4, <2>2
  <2>3. CASE a = <<Response("LEDOK"), Response("RSPN41")>>
    BY <1>1, <1>3, <2>3
  <2> QED BY <2>1, <2>2, <2>3 DEF Answers, Command
<1> QED BY <1>5 DEF HasKey

(* The dock answers a command with a frame, perhaps with an input. *)
LEMMA DockAnswersInv ==
  ASSUME KbdInv, DockAnswers
  PROVE  KbdInv'
<1>1. KbdType /\ Budget /\ irlink.up
  BY DEF KbdInv, DockAnswers
<1>2. UNCHANGED <<stack, frame>> /\ sigio' = TRUE
  BY DEF DockAnswers
<1>3. /\ irlink \in [up : BOOLEAN, cmds : Seq(Command), frames : Seq(Frame)]
      /\ irlink.cmds \in Seq(Command) /\ irlink.cmds # <<>> /\ irlink.frames \in Seq(Frame)
      /\ count \in [keys : Nat, downs : Nat, fed : Nat]
  BY <1>1 DEF KbdType, DockAnswers
<1>4. PICK a \in Answers(Head(irlink.cmds)) :
        /\ irlink' = [irlink EXCEPT !.cmds = Tail(@), !.frames = Append(@, a)]
        /\ count' = [count EXCEPT !.keys = IF a[1].type = "key" THEN @ + 1 ELSE @]
  BY DEF DockAnswers
<1>5. Head(irlink.cmds) \in Command /\ Tail(irlink.cmds) \in Seq(Command)
  BY <1>3, HeadTailProperties
<1>6. a \in Frame /\ (HasKey(a) <=> a[1].type = "key")
  BY <1>1, <1>4, <1>5, AnswerFrame
<1>7. PICK f, u, p, r, k, d \in Nat :
        /\ f = count.fed /\ k = count.keys /\ d = count.downs
        /\ u = Cardinality(KeysIn(irlink.frames))
        /\ p = One(ParsingIn(stack) /\ HasKey(frame)) /\ r = Repeats
        /\ f + u + p + r =< k + 2 * d
  BY <1>1, BudgetTerms
<1>8. PICK cs \in Seq(Command), fs \in Seq(Frame) : cs = Tail(irlink.cmds) /\ fs = Append(irlink.frames, a)
  <2>1. Append(irlink.frames, a) \in Seq(Frame)
    BY <1>3, <1>6, AppendProperties
  <2> QED BY <1>5, <2>1
<1>9. irlink' = [irlink EXCEPT !.cmds = cs, !.frames = fs]
  BY <1>4, <1>8
<1>10. /\ irlink' \in [up : BOOLEAN, cmds : Seq(Command), frames : Seq(Frame)]
       /\ irlink'.frames = fs /\ irlink'.up
  BY <1>1, <1>3, <1>9
<1>11. PICK h \in Nat : h = One(HasKey(a))
  BY DEF One
<1>12. PICK k2 \in Nat : k2 = k + h /\ count' = [count EXCEPT !.keys = k2]
  <2>1. CASE HasKey(a)
    <3>1. h = 1 /\ count' = [count EXCEPT !.keys = count.keys + 1]
      BY <1>4, <1>6, <1>11, <2>1 DEF One
    <3>2. PICK k2 \in Nat : k2 = k + 1
      OBVIOUS
    <3> QED BY <1>7, <3>1, <3>2
  <2>2. CASE ~HasKey(a)
    <3>1. h = 0 /\ count' = [count EXCEPT !.keys = k]
      BY <1>4, <1>6, <1>7, <1>11, <2>2 DEF One
    <3>2. k = k + 0
      OBVIOUS
    <3> QED BY <3>1, <3>2
  <2> QED BY <2>1, <2>2
<1>13. PICK u2 \in Nat : u2 = u + h /\ u2 = Cardinality(KeysIn(irlink'.frames))
  <2>1. Cardinality(KeysIn(fs)) = u + h
    BY <1>3, <1>6, <1>7, <1>8, <1>11, KeysAppend
  <2>2. u + h \in Nat
    OBVIOUS
  <2> QED BY <1>10, <2>1, <2>2
<1>14. /\ f = count'.fed /\ k2 = count'.keys /\ d = count'.downs
       /\ count' \in [keys : Nat, downs : Nat, fed : Nat]
  BY <1>3, <1>7, <1>12
<1>15. KbdType'
  BY <1>1, <1>2, <1>10, <1>14 DEF KbdType
<1>16. PICK z \in Nat : z = 0 /\ z = (IF irlink'.up THEN 0 ELSE One(ReadingIn(stack')) + One(sigio'))
  BY <1>10
<1>17. p = One(ParsingIn(stack') /\ HasKey(frame'))
  BY <1>2, <1>7
<1>18. f + u2 + p + z =< k2 + 2 * d
  <2>1. u2 = u + h /\ k2 = k + h /\ z = 0 /\ f + u + p + r =< k + 2 * d
    BY <1>7, <1>12, <1>13, <1>16
  <2> QED BY <2>1
<1> QED BY <1>13, <1>14, <1>15, <1>16, <1>17, <1>18, Balanced, ZenonT(60)

(* A disconnect: what is unread may be lost, and the last frame may be     *)
(* looked at twice more.                                                   *)
LEMMA LinkGoesDownInv ==
  ASSUME KbdInv, LinkGoesDown
  PROVE  KbdInv'
<1>1. KbdType /\ Budget /\ irlink.up
  BY DEF KbdInv, LinkGoesDown
<1>2. UNCHANGED <<stack, frame>> /\ sigio' = TRUE /\ count' = [count EXCEPT !.downs = @ + 1]
  BY DEF LinkGoesDown
<1>3. irlink.frames \in Seq(Frame) /\ count \in [keys : Nat, downs : Nat, fed : Nat]
  BY <1>1 DEF KbdType
<1>4. PICK i \in 0 .. Len(irlink.frames) : irlink' = [NoLink EXCEPT !.frames = SubSeq(irlink.frames, 1, i)]
  BY DEF LinkGoesDown
<1>5. PICK fs \in Seq(Frame) : /\ fs = SubSeq(irlink.frames, 1, i)
                               /\ Cardinality(KeysIn(fs)) =< Cardinality(KeysIn(irlink.frames))
  BY <1>3, KeysPrefix
<1>6. /\ irlink' \in [up : BOOLEAN, cmds : Seq(Command), frames : Seq(Frame)]
      /\ irlink'.frames = fs /\ ~irlink'.up
  <2>1. <<>> \in Seq(Command)
    OBVIOUS
  <2> QED BY <1>4, <1>5, <2>1 DEF NoLink
<1>7. PICK f, u, p, r, k, d \in Nat :
        /\ f = count.fed /\ k = count.keys /\ d = count.downs
        /\ u = Cardinality(KeysIn(irlink.frames))
        /\ p = One(ParsingIn(stack) /\ HasKey(frame)) /\ r = Repeats
        /\ f + u + p + r =< k + 2 * d
  BY <1>1, BudgetTerms, ZenonT(60)
<1>8. PICK d2 \in Nat : d2 = d + 1 /\ count' = [count EXCEPT !.downs = d2]
  <2>1. PICK d2 \in Nat : d2 = d + 1
    OBVIOUS
  <2> QED BY <1>2, <1>7, <2>1
<1>9. /\ f = count'.fed /\ k = count'.keys /\ d2 = count'.downs
      /\ count' \in [keys : Nat, downs : Nat, fed : Nat]
  BY <1>3, <1>7, <1>8
<1>10. KbdType'
  BY <1>1, <1>2, <1>6, <1>9 DEF KbdType
<1>11. PICK u2 \in Nat : u2 = Cardinality(KeysIn(irlink'.frames)) /\ u2 =< u
  BY <1>5, <1>6, <1>7, KeysFinite
<1>12. PICK r2 \in Nat : r2 = (IF irlink'.up THEN 0 ELSE One(ReadingIn(stack')) + One(sigio')) /\ r2 =< 2
  <2>1. PICK x \in {0, 1}, y \in {0, 1} : x = One(ReadingIn(stack')) /\ y = One(sigio')
    BY DEF One
  <2>2. x + y \in Nat /\ x + y =< 2
    BY <2>1
  <2> QED BY <1>6, <2>1, <2>2
<1>13. p = One(ParsingIn(stack') /\ HasKey(frame'))
  BY <1>2, <1>7
<1>14. f + u2 + p + r2 =< k + 2 * d2
  <2>1. u2 =< u /\ r2 =< 2 /\ d2 = d + 1 /\ f + u + p + r =< k + 2 * d
    BY <1>7, <1>8, <1>11, <1>12
  <2> QED BY <2>1
<1> QED BY <1>9, <1>10, <1>11, <1>12, <1>13, <1>14, Balanced, ZenonT(60)

(* Every step keeps the budget. *)
LEMMA KbdStep == KbdInv /\ [KbdNext]_kbVars => KbdInv'
<1> SUFFICES ASSUME KbdInv, [KbdNext]_kbVars PROVE KbdInv'
  OBVIOUS
<1>1. CASE UNCHANGED <<stack, frame, irlink, sigio, count>>
  BY <1>1 DEF KbdInv, KbdType, Budget, Repeats, KeysIn, HasKey, ReadingIn, ParsingIn, One
<1>2. CASE UNCHANGED kbVars
  BY <1>1, <1>2 DEF kbVars
<1>3. CASE MarkConnected \/ StartInit \/ LoopEnds
  BY <1>1, <1>3 DEF MarkConnected, StartInit, LoopEnds
<1>4. CASE ConnectRequest \/ DataIndication \/ Recv \/ ParseFrame \/ ArmTimer
  BY <1>4, ConnectRequestInv, DataIndicationInv, RecvInv, ParseFrameInv, ArmTimerInv
<1>5. CASE WatchdogExpires \/ WatchdogSends \/ WatchdogReturns
  BY <1>5, WatchdogInv
<1>6. CASE DockAnswers \/ LinkGoesDown
  BY <1>6, DockAnswersInv, LinkGoesDownInv
<1> QED BY <1>2, <1>3, <1>4, <1>5, <1>6 DEF KbdNext, DriverStep

(* However often the connection goes down and however the two signal       *)
(* handlers interrupt each other and the main program: what                *)
(* irkbd_data_indication passes on beyond the inputs that were made are at *)
(* most two repetitions for each disconnect.                               *)
THEOREM InputPassedOnOnce == KbdSpec => []InputOnce
<1>1. KbdInv => InputOnce
  <2> SUFFICES ASSUME KbdInv PROVE InputOnce
    OBVIOUS
  <2>1. PICK f, u, p, r, k, d \in Nat :
          /\ f = count.fed /\ k = count.keys /\ d = count.downs
          /\ f + u + p + r =< k + 2 * d
    BY BudgetTerms, ZenonT(60) DEF KbdInv
  <2>2. f =< k + 2 * d
    BY <2>1
  <2> QED BY <2>1, <2>2 DEF InputOnce
<1> QED BY <1>1, KbdInitInv, KbdStep, PTL DEF KbdSpec
=============================================================================
