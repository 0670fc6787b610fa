------------------------------- MODULE Capture -------------------------------
(***************************************************************************)
(* irdadump as a recorder: irdadump -w writes the frames it captures to a  *)
(* log (capture.c) and then shows them, irdadump -r shows a log.  With -d  *)
(* the time since the frame before is shown too (print_diff_time of        *)
(* irdadump.c), for which the program keeps two time values and two        *)
(* pointers that change places.                                            *)
(*                                                                         *)
(* A log is the sequence of the pieces written: a record header, a packet  *)
(* header and the data of every frame.  A write may store only a part of   *)
(* its piece; capwrite_dump does not notice.  Numbers in the packet header *)
(* are in network order; a number in memory is what the host reads there.  *)
(* Frame i has the content i.  Frames irdadump filters away (of another    *)
(* protocol or interface, or empty) change nothing.  The float in which    *)
(* print_diff_time computes what it prints is taken to be exact.           *)
(***************************************************************************)
EXTENDS Naturals, Integers, Sequences, SequencesExt

CONSTANTS MaxFrames,   \* bound on the frames recorded
          MaxShort,    \* bound on the short writes
          MaxTime,     \* bound on the time, in microseconds
          Second       \* microseconds of a second

ASSUME CaptureAssumption ==
  /\ MaxFrames \in Nat /\ MaxShort \in Nat /\ MaxTime \in Nat /\ Second \in Nat \ {0}

ETH_P_IRDA == 23
PACKET_HOST == 0
PACKET_OUTGOING == 4

VARIABLES host,    \* [little, diff]: a little-endian host; irdadump was given -d
          clock,   \* the times of the frames so far, after the time of the start
          tv,      \* [time, cur]: the two time values and which one is curr_time
          pc,      \* what the recorder does: "loop", a piece to write, "print", "gone"
          log,     \* the pieces in the log
          short,   \* the positions of those that are in the log only in part
          lines,   \* the lines the recorder has made: [id, out, diff]
          shown,   \* how many of them it has printed
          rd,      \* the reader: [pc, pos]
          back     \* what the reader has shown

cpVars == <<host, clock, tv, pc, log, short, lines, shown, rd, back>>

htons(x) == IF host.little THEN (x % 256) * 256 + x \div 256 ELSE x
Tv(t) == [sec |-> t \div Second, usec |-> t % Second]
Micros(v) == v.sec * Second + v.usec
Started(t) == [time |-> [i \in {1, 2} |-> Tv(t)], cur |-> 1]

(* main with -w, capwrite_open, capwrite_init, irdadump_init. *)
CaptureInit ==
  /\ host \in [little : BOOLEAN, diff : BOOLEAN]
  /\ clock = <<0>> /\ tv = Started(0)
  /\ pc = "loop" /\ log = <<[piece |-> "file"]>> /\ short = {}
  /\ lines = <<>> /\ shown = 0
  /\ rd = [pc |-> "none", pos |-> 1] /\ back = <<>>
-----------------------------------------------------------------------------
(* Mutant: the second that was borrowed is not paid back. *)
DiffTimeUnpaid(v) ==
  LET now == v.time[v.cur]  prev == v.time[3 - v.cur]
      borrow == prev.usec > now.usec
      lent == IF borrow THEN [sec |-> now.sec, usec |-> now.usec + Second] ELSE now
  IN [v EXCEPT !.time[v.cur] = lent,
               !.time[3 - v.cur] = [sec |-> lent.sec - prev.sec, usec |-> lent.usec - prev.usec]]

(* print_diff_time: the difference takes the place of the older time. *)
DiffTime(v) ==
  LET now == v.time[v.cur]  prev == v.time[3 - v.cur]
      borrow == prev.usec > now.usec
      lent == IF borrow THEN [sec |-> now.sec - 1, usec |-> now.usec + Second] ELSE now
  IN [v EXCEPT !.time[v.cur] = lent,
               !.time[3 - v.cur] = [sec |-> lent.sec - prev.sec, usec |-> lent.usec - prev.usec]]

(* parse_irda_frame, for a frame whose time is in curr_time: with -d the   *)
(* difference is shown, and the pointers change places.                    *)
Swapped(v) == IF host.diff THEN [DiffTime(v) EXCEPT !.cur = 3 - @] ELSE v
Line(v, id, out) ==
  [id |-> id, out |-> out, diff |-> IF host.diff THEN Micros(Swapped(v).time[Swapped(v).cur]) ELSE 0]

(* irdadump_loop: a frame comes, its line is made, and it is to be written. *)
CaptureFrame ==
  /\ pc = "loop" /\ Len(lines) < MaxFrames
  /\ \E t \in Last(clock) .. MaxTime, out \in BOOLEAN :
       LET v == [tv EXCEPT !.time[tv.cur] = Tv(t)]
       IN /\ clock' = Append(clock, t)
          /\ lines' = Append(lines, Line(v, Len(lines) + 1, out))
          /\ tv' = Swapped(v)
  /\ pc' = "record"
  /\ UNCHANGED <<host, log, short, shown, rd, back>>

(* Mutant: every frame is written as one received. *)
SllHeaderHost(out) == [piece |-> "packet", type |-> htons(PACKET_HOST), protocol |-> htons(ETH_P_IRDA)]

(* capwrite_fillsll.  The protocol is in network order already. *)
SllHeader(out) ==
  [piece |-> "packet", type |-> htons(IF out THEN PACKET_OUTGOING ELSE PACKET_HOST),
   protocol |-> htons(ETH_P_IRDA)]

(* capwrite_dump: three writes, each of them complete or short. *)
WritePiece ==
  /\ \/ /\ pc = "record" /\ pc' = "packet"
        /\ log' = Append(log, [piece |-> "record", time |-> tv.time[tv.cur]])
     \/ pc = "packet" /\ pc' = "data" /\ log' = Append(log, SllHeader(Last(lines).out))
     \/ pc = "data" /\ pc' = "print" /\ log' = Append(log, [piece |-> "data", id |-> Last(lines).id])
  /\ \/ short' = short
     \/ Cardinality(short) < MaxShort /\ short' = short \cup {Len(log) + 1}
  /\ UNCHANGED <<host, clock, tv, lines, shown, rd, back>>

(* main prints the line of the frame. *)
PrintLine ==
  /\ pc = "print" /\ pc' = "loop"
  /\ shown' = shown + 1
  /\ UNCHANGED <<host, clock, tv, log, short, lines, rd, back>>

(* A signal, or a write that fails: cleanup and exit, wherever the program is. *)
RecorderExits ==
  /\ pc # "gone" /\ pc' = "gone"
  /\ UNCHANGED <<host, clock, tv, log, short, lines, shown, rd, back>>
-----------------------------------------------------------------------------
(* irdadump -r: capread_open, capread_check, irdadump_init. *)
ReaderStarts ==
  /\ pc = "gone" /\ rd.pc = "none"
  /\ rd' = [pc |-> "loop", pos |-> 2]
  /\ tv' = Started(Last(clock))
  /\ UNCHANGED <<host, clock, pc, log, short, lines, shown, back>>

(* The record at rd.pos, as the reader sees it. *)
RecordShown ==
  LET v == [tv EXCEPT !.time[tv.cur] = log[rd.pos].time]
      packet == log[rd.pos + 1]
  IN IF packet.protocol = ETH_P_IRDA
     THEN /\ back' = Append(back, Line(v, log[rd.pos + 2].id, packet.type # PACKET_HOST))
          /\ tv' = Swapped(v)
     ELSE tv' = v /\ UNCHANGED back

(* The record at rd.pos is in the log, all of it. *)
RecordComplete ==
  rd.pos + 2 =< Len(log) /\ \A k \in rd.pos .. rd.pos + 2 : k \notin short

(* Something was written after a piece of it that is there only in part. *)
RecordTorn == \E k \in rd.pos .. rd.pos + 2 : k \in short /\ k < Len(log)

(* capread_get and the rest of irdadump_loop: a record is read; it is      *)
(* shown when its protocol is the right one, as it stands in the log.  At  *)
(* the end of the log, or in a record whose end is missing, the reader     *)
(* exits; where something follows a short piece it reads that instead.     *)
ReadRecord ==
  /\ rd.pc = "loop"
  /\ \/ RecordComplete /\ RecordShown /\ rd' = [rd EXCEPT !.pos = @ + 3]
     \/ ~RecordComplete /\ ~RecordTorn /\ rd' = [rd EXCEPT !.pc = "exit"] /\ UNCHANGED <<tv, back>>
     \/ RecordTorn /\ rd' = [rd EXCEPT !.pc = "astray"] /\ UNCHANGED <<tv, back>>
  /\ UNCHANGED <<host, clock, pc, log, short, lines, shown>>

(* The reader takes one piece for another: it shows something that is no   *)
(* frame, or nothing, and is not followed any further.                     *)
ReadAstray ==
  /\ rd.pc = "astray"
  /\ rd' = [rd EXCEPT !.pc = "exit"]
  /\ back' \in {back, Append(back, [id |-> 0, out |-> FALSE, diff |-> 0])}
  /\ UNCHANGED <<host, clock, tv, pc, log, short, lines, shown>>

CaptureNext == CaptureFrame \/ WritePiece \/ PrintLine \/ RecorderExits \/ ReaderStarts
                 \/ ReadRecord \/ ReadAstray
-----------------------------------------------------------------------------
(* With -d the time in a line is that between the frame and the one before *)
(* it, though print_diff_time changes both time values and leaves one of   *)
(* them with more than a second of microseconds (the lines of a recorder). *)
DiffTrue ==
  host.diff => \A i \in 1 .. Len(lines) : lines[i].diff = clock[i + 1] - clock[i]

(* Nothing was written after a short write. *)
Aligned == \A k \in short : k >= Len(log)

(* What was printed is in the log: the three pieces of its record, in      *)
(* order, with the direction and, without -d, the time of the frame (the   *)
(* recorder does not know which of them it has stored only in part).       *)
Logged(i) ==
  LET at == 3 * i - 1
  IN /\ at + 2 =< Len(log)
     /\ ~host.diff => Micros(log[at].time) = clock[i + 1]
     /\ (log[at + 1].type # PACKET_HOST) = lines[i].out
     /\ log[at + 2].id = i
SameLine(a, b) == a.id = b.id /\ a.out = b.out

(* The reader's i-th line is that of the i-th frame, whose record is       *)
(* complete.                                                               *)
FromRecord(i) ==
  /\ i \in DOMAIN lines /\ SameLine(back[i], lines[i])
  /\ 3 * i + 1 =< Len(log) /\ \A k \in 3 * i - 1 .. 3 * i + 1 : k \notin short

(* Whenever the recorder is stopped (a signal or a failed write between    *)
(* two of the writes of capwrite_dump, or between the last one and the     *)
(* line that main prints), what was printed is logged, and at most one     *)
(* record more.  A reader shows the frames that were captured, in order,   *)
(* with their direction, and nothing of an incomplete record               *)
(* (capread_get), unless the recorder went on after a short write.         *)
LogTrue ==
  /\ \A i \in 1 .. shown : Logged(i)
  /\ Len(log) =< 3 * shown + 4
  /\ Aligned => \A i \in DOMAIN back : FromRecord(i)

(* "-r log: Read from raw capture file" (main.c, usage): a log of complete *)
(* records is shown again, all of it.                                      *)
ReadBack == rd.pc = "exit" /\ short = {} /\ Len(log) = 3 * shown + 1 => Len(back) = shown
=============================================================================
