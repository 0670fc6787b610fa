---------------------------- MODULE TransferProofs ----------------------------
(***************************************************************************)
(* The two programs that move data over a link, irpsion5 and irdaspray,    *)
(* for every number and size of files or frames, every buffer and every    *)
(* loss: what is stored is the beginning of the file, and a file reported  *)
(* as sent is stored; what the echo service has not lost while a           *)
(* connection is up, and what an instance reports as received.             *)
(***************************************************************************)
EXTENDS Psion, Spray, SequenceTheorems, TLAPS

(* irpsion5. *)
PsionSpec == PsionInit /\ [][PsionNext]_psVars

Header(n) == [name |-> n, size |-> ann[n]]
Item == (Nat \X Nat) \cup [name : Nat, size : Nat]
Connection == [state : {"none", "pending", "open", "closed"},
               up : Seq(Item), down : {<<>>, <<"ACK Y">>}]

(* The types of the variables; the two processes are at a file until they  *)
(* have ended.                                                             *)
PsionType ==
  /\ disk \in [File -> 0 .. MaxSize] /\ ann \in [File -> 0 .. MaxSize]
  /\ snd \in [pc : {"discover", "connect", "header", "ack", "data", "last", "done", "exit"},
              n : 1 .. Files + 1, pos : 0 .. MaxSize, try : Nat]
  /\ snd.pc # "done" => snd.n \in File
  /\ snd.pc \in {"discover", "connect", "header"} => snd.pos = 0
  /\ rcv \in [pc : {"accept", "header", "ack", "data", "done", "exit"},
              n : 0 .. Files, size : 0 .. MaxSize]
  /\ rcv.pc \in {"header", "ack", "data"} => rcv.n \in File
  /\ rcv.pc = "accept" => rcv.n = 0
  /\ conn \in [File -> Connection]
  /\ out \in [File -> Seq(Item)]
  /\ told \subseteq File /\ faulty \subseteq File

(* What is stored, and what is under way once the header has been read. *)
Stored(n, o) == Len(o) =< MaxSize /\ \A i \in 1 .. Len(o) : o[i] = <<n, i>>
Streams(n, o, u) ==
  Len(o) + Len(u) =< MaxSize /\ \A i \in 1 .. Len(u) : u[i] = <<n, Len(o) + i>>

SendsFile(n, pcs) == snd.n = n /\ snd.pc \in pcs
Receives(n, pcs) == rcv.n = n /\ rcv.pc \in pcs

(* A connection is made for the file that is being sent, once, and it is   *)
(* over before the next file is begun.                                     *)
OneConnection(n) ==
  /\ snd.n < n \/ SendsFile(n, {"discover", "connect"}) => conn[n] = NoConn /\ out[n] = <<>>
  /\ n < snd.n => conn[n].state = "closed"
  /\ n \in told => n < snd.n
  /\ conn[n].state = "pending" => SendsFile(n, {"header", "ack"}) /\ conn[n].down = <<>>
  /\ rcv.n = n => conn[n].state \in {"open", "closed"}
  /\ SendsFile(n, {"header", "ack"}) => conn[n].state # "none"

(* Before the header has been sent, and before it has been answered. *)
Announces(n) ==
  /\ SendsFile(n, {"header"}) =>
       conn[n].up = <<>> /\ conn[n].down = <<>> /\ out[n] = <<>> /\ ~Receives(n, {"ack", "data"})
  /\ SendsFile(n, {"ack"}) =>
       /\ snd.pos = 0 /\ out[n] = <<>>
       /\ \/ conn[n].up = <<>>
          \/ conn[n].up = <<Header(n)>> /\ conn[n].down = <<>> /\ ~Receives(n, {"ack", "data"})
       /\ conn[n].down # <<>> => ~Receives(n, {"header"})
  /\ Receives(n, {"header"}) =>
       /\ out[n] = <<>> /\ conn[n].up \in {<<>>, <<Header(n)>>}
       /\ snd.n = n => snd.pc \in {"header", "ack", "exit"}

(* Then both sides agree on the size, and what is under way is what comes  *)
(* after what is stored, up to what the sender has read of the file.       *)
Transfers(n) ==
  /\ SendsFile(n, {"data", "last"}) =>
       /\ conn[n].state \in {"open", "closed"}
       /\ Alive(n) => Len(out[n]) + Len(conn[n].up) = snd.pos
       /\ Streams(n, out[n], conn[n].up)
  /\ Receives(n, {"ack", "data"}) =>
       /\ rcv.size = ann[n]
       /\ snd.n = n => snd.pc \in {"ack", "data", "last", "exit"}
       /\ Streams(n, out[n], conn[n].up)

(* A connection that has ended had its file stored, unless it failed. *)
ClosedIsStored(n) ==
  conn[n].state = "closed" /\ n \notin faulty =>
    Len(out[n]) >= ann[n] \/ SendsFile(n, {"exit"})

FileInv(n) ==
  Stored(n, out[n]) /\ OneConnection(n) /\ Announces(n) /\ Transfers(n) /\ ClosedIsStored(n)

PsionInv == PsionType /\ \A n \in File : FileInv(n)
-----------------------------------------------------------------------------
(* The units of a file from one position to another. *)
LEMMA UnitsSeq ==
  ASSUME NEW n \in Nat, NEW from \in Nat, NEW to \in Nat, from =< to
  PROVE  /\ Units(n, from, to) \in Seq(Item)
         /\ Len(Units(n, from, to)) = to - from
         /\ \A i \in 1 .. to - from : Units(n, from, to)[i] = <<n, from + i>>
  BY DEF Units, Item

(* No units. *)
LEMMA UnitsEmpty ==
  ASSUME NEW n \in Nat, NEW from \in Nat
  PROVE  Units(n, from, from) = <<>>
  BY DEF Units

(* What is stored is the beginning of the file. *)
LEMMA StoredUnits ==
  ASSUME NEW n \in Nat, NEW o \in Seq(Item), Stored(n, o)
  PROVE  o = Units(n, 0, Len(o))
<1>1. o = [i \in 1 .. Len(o) |-> o[i]]
  OBVIOUS
<1>2. \A i \in 1 .. Len(o) : o[i] = <<n, 0 + i>>
  BY DEF Stored
<1>3. Len(o) - 0 = Len(o)
  OBVIOUS
<1> QED BY <1>1, <1>2, <1>3 DEF Units

(* Two sequences of items in a row. *)
LEMMA ItemsJoin ==
  ASSUME NEW a \in Seq(Item), NEW b \in Seq(Item)
  PROVE  /\ a \o b \in Seq(Item) /\ Len(a \o b) = Len(a) + Len(b)
         /\ \A i \in 1 .. Len(a) : (a \o b)[i] = a[i]
         /\ \A i \in Len(a) + 1 .. Len(a \o b) : (a \o b)[i] = b[i - Len(a)]
  OBVIOUS

(* A connection that ends loses the end of what is under way, no more. *)
LEMMA StreamsPrefix ==
  ASSUME NEW n \in Nat, NEW o \in Seq(Item), NEW u \in Seq(Item), Streams(n, o, u),
         NEW v \in Prefixes(u)
  PROVE  Streams(n, o, v)
<1>1. PICK l \in 0 .. Len(u) : v = SubSeq(u, 1, l)
  BY DEF Prefixes
<1>2. Len(v) = l /\ \A i \in 1 .. l : v[i] = u[i]
  BY <1>1
<1>3. Len(o) + Len(v) =< MaxSize
  <2>1. Len(o) \in Nat /\ Len(u) \in Nat /\ Len(o) + Len(u) =< MaxSize /\ l =< Len(u) /\ l \in Nat
    BY DEF Streams
  <2> QED BY <1>2, <2>1, PsionAssumption
<1>4. ASSUME NEW i \in 1 .. Len(v) PROVE v[i] = <<n, Len(o) + i>>
  BY <1>2, SMTT(60) DEF Streams
<1> QED BY <1>3, <1>4 DEF Streams

(* A write of what follows keeps what is under way in order. *)
LEMMA StreamsAppend ==
  ASSUME NEW n \in Nat, NEW o \in Seq(Item), NEW u \in Seq(Item), Streams(n, o, u),
         NEW pos \in Nat, pos = Len(o) + Len(u), NEW to \in Nat, pos =< to, to =< MaxSize
  PROVE  /\ Streams(n, o, u \o Units(n, pos, to))
         /\ u \o Units(n, pos, to) \in Seq(Item)
         /\ Len(o) + Len(u \o Units(n, pos, to)) = to
<1>1. PICK w : w = Units(n, pos, to)
  OBVIOUS
<1>2. w \in Seq(Item) /\ Len(w) = to - pos /\ \A i \in 1 .. to - pos : w[i] = <<n, pos + i>>
  BY <1>1, UnitsSeq, ZenonT(60)
<1>3. PICK v : v = u \o w
  OBVIOUS
<1>4. /\ v \in Seq(Item) /\ Len(v) = Len(u) + Len(w)
      /\ \A i \in 1 .. Len(u) : v[i] = u[i]
      /\ \A i \in Len(u) + 1 .. Len(v) : v[i] = w[i - Len(u)]
  BY <1>2, <1>3
<1>5. Len(o) + Len(v) = to
  BY <1>2, <1>4
<1>6. ASSUME NEW i \in 1 .. Len(v)
      PROVE  v[i] = <<n, Len(o) + i>>
  <2>1. CASE i =< Len(u)
    <3>1. i \in 1 .. Len(u)
      BY <2>1
    <3>2. u[i] = <<n, Len(o) + i>>
      BY <3>1 DEF Streams
    <3> QED BY <1>4, <3>1, <3>2
  <2>2. CASE ~(i =< Len(u))
    <3>1. i \in Len(u) + 1 .. Len(v) /\ i - Len(u) \in 1 .. Len(w)
          /\ pos + (i - Len(u)) = Len(o) + i
      BY <1>4, <1>2, <2>2
    <3> QED BY <1>2, <1>4, <3>1
  <2> QED BY <2>1, <2>2
<1>7. Streams(n, o, v)
  BY <1>5, <1>6 DEF Streams
<1> QED BY <1>1, <1>3, <1>4, <1>5, <1>7

(* A read moves the first units under way to the end of what is stored. *)
Moves(n, o, u, k, p, v) ==
  /\ p = o \o SubSeq(u, 1, k) /\ v = SubSeq(u, k + 1, Len(u))
  /\ p \in Seq(Item) /\ v \in Seq(Item) /\ Stored(n, p) /\ Streams(n, p, v)
  /\ Len(p) + Len(v) = Len(o) + Len(u) /\ Len(p) = Len(o) + k

(* What is read of what is under way continues what is stored. *)
LEMMA StreamsRead ==
  ASSUME NEW n \in Nat, NEW o \in Seq(Item), NEW u \in Seq(Item), Streams(n, o, u), Stored(n, o),
         NEW k \in 1 .. Len(u)
  PROVE  \E p, v : Moves(n, o, u, k, p, v)
<1>1. PICK h : h = SubSeq(u, 1, k)
  OBVIOUS
<1>2. h \in Seq(Item) /\ Len(h) = k /\ \A i \in 1 .. k : h[i] = u[i]
  BY <1>1
<1>3. PICK p : p = o \o h
  OBVIOUS
<1>4. /\ p \in Seq(Item) /\ Len(p) = Len(o) + k
      /\ \A i \in 1 .. Len(o) : p[i] = o[i]
      /\ \A i \in Len(o) + 1 .. Len(p) : p[i] = u[i - Len(o)]
  <2>1. /\ p \in Seq(Item) /\ Len(p) = Len(o) + Len(h)
        /\ \A i \in 1 .. Len(o) : p[i] = o[i]
        /\ \A i \in Len(o) + 1 .. Len(p) : p[i] = h[i - Len(o)]
    BY <1>2, <1>3, ItemsJoin
  <2>2. ASSUME NEW i \in Len(o) + 1 .. Len(p)
        PROVE  p[i] = u[i - Len(o)]
    <3>1. i - Len(o) \in 1 .. k
      BY <1>2, <2>1
    <3> QED BY <1>2, <2>1, <3>1
  <2> QED BY <1>2, <2>1, <2>2
<1>5. PICK v : v = SubSeq(u, k + 1, Len(u))
  OBVIOUS
<1>6. v \in Seq(Item) /\ Len(v) = Len(u) - k /\ \A i \in 1 .. Len(v) : v[i] = u[k + i]
  BY <1>5
<1>7. Len(p) + Len(v) = Len(o) + Len(u) /\ Len(p) =< MaxSize
  BY <1>4, <1>6, PsionAssumption DEF Streams
<1>8. ASSUME NEW i \in 1 .. Len(p) PROVE p[i] = <<n, i>>
  <2>1. CASE i =< Len(o)
    BY <1>4, <2>1 DEF Stored
  <2>2. CASE ~(i =< Len(o))
    <3>1. i \in Len(o) + 1 .. Len(p) /\ i - Len(o) \in 1 .. Len(u) /\ Len(o) + (i - Len(o)) = i
      BY <1>4, <2>2
    <3> QED BY <1>4, <3>1 DEF Streams
  <2> QED BY <2>1, <2>2
<1>9. ASSUME NEW i \in 1 .. Len(v) PROVE v[i] = <<n, Len(p) + i>>
  <2>1. k + i \in 1 .. Len(u) /\ Len(o) + (k + i) = Len(p) + i
    BY <1>4, <1>6
  <2> QED BY <1>6, <2>1 DEF Streams
<1>10. Stored(n, p) /\ Streams(n, p, v)
  BY <1>7, <1>8, <1>9 DEF Stored, Streams
<1> QED BY <1>1, <1>3, <1>4, <1>5, <1>6, <1>7, <1>10 DEF Moves

(* What is left of an acknowledgement or of a header is that or nothing. *)
LEMMA PrefixOne ==
  ASSUME NEW x, NEW v \in Prefixes(<<x>>)
  PROVE  v \in {<<>>, <<x>>}
  BY DEF Prefixes

(* Of nothing under way nothing is left. *)
LEMMA PrefixNothing ==
  ASSUME NEW v \in Prefixes(<<>>)
  PROVE  v = <<>>
  BY DEF Prefixes

(* What is left of what was under way. *)
LEMMA PrefixSeq ==
  ASSUME NEW u \in Seq(Item), NEW v \in Prefixes(u)
  PROVE  v \in Seq(Item)
  BY DEF Prefixes
-----------------------------------------------------------------------------
(* No file has been begun. *)
LEMMA PsionInitInv == PsionInit => PsionInv
<1> SUFFICES ASSUME PsionInit PROVE PsionInv
  OBVIOUS
<1> USE PsionAssumption
<1>1. PsionType
  <2>1. <<>> \in Seq(Item) /\ Files + 1 \in Nat /\ 1 \in 1 .. Files + 1
    OBVIOUS
  <2>2. snd = [pc |-> IF 1 =< Files THEN "discover" ELSE "done", n |-> 1, pos |-> 0, try |-> 0]
    BY DEF PsionInit, Sender
  <2>3. /\ snd \in [pc : {"discover", "connect", "header", "ack", "data", "last", "done", "exit"},
                    n : 1 .. Files + 1, pos : 0 .. MaxSize, try : Nat]
        /\ snd.pc # "done" => snd.n \in File
        /\ snd.pos = 0
    BY <2>1, <2>2 DEF File
  <2>4. NoConn \in Connection
    BY <2>1 DEF NoConn, Connection
  <2> QED BY <2>1, <2>3, <2>4 DEF PsionInit, PsionType
<1>2. ASSUME NEW n \in File PROVE FileInv(n)
  <2>1. conn[n] = NoConn /\ out[n] = <<>> /\ n \in Nat /\ n > 0
    BY DEF PsionInit, File
  <2>2. Stored(n, out[n])
    BY <2>1 DEF Stored
  <2>3. snd.n = 1 /\ snd.pc \in {"discover", "done"} /\ rcv.n = 0 /\ rcv.pc = "accept" /\ told = {}
        /\ (snd.pc = "done" => Files = 0)
    BY DEF PsionInit, Sender
  <2>4. OneConnection(n)
    BY <2>1, <2>3 DEF OneConnection, SendsFile, NoConn
  <2>5. Announces(n) /\ Transfers(n) /\ ClosedIsStored(n)
    BY <2>1, <2>3 DEF Announces, Transfers, ClosedIsStored, SendsFile, Receives, NoConn
  <2> QED BY <2>2, <2>4, <2>5 DEF FileInv
<1> QED BY <1>1, <1>2 DEF PsionInv

(* The types of what belongs to one file. *)
LEMMA FileTypes ==
  ASSUME PsionType, NEW n \in File
  PROVE  /\ n \in Nat /\ n > 0 /\ n =< Files
         /\ conn[n] \in Connection /\ conn[n].up \in Seq(Item) /\ conn[n].down \in {<<>>, <<"ACK Y">>}
         /\ out[n] \in Seq(Item) /\ ann[n] \in 0 .. MaxSize /\ disk[n] \in 0 .. MaxSize
<1>1. n \in Nat /\ n > 0 /\ n =< Files
  BY PsionAssumption DEF File
<1>2. conn[n] \in Connection
  BY DEF PsionType
<1>3. conn[n].up \in Seq(Item) /\ conn[n].down \in {<<>>, <<"ACK Y">>}
  BY <1>2 DEF Connection
<1> QED BY <1>1, <1>2, <1>3 DEF PsionType

(* A step that is about another file. *)
LEMMA OtherFile ==
  ASSUME PsionInv, NEW m \in File,
         conn'[m] = conn[m], out'[m] = out[m], ann'[m] = ann[m],
         m \in told' => m \in told, m \in faulty => m \in faulty',
         snd' = snd \/ (m # snd.n /\ snd'.n = snd.n),
         rcv' = rcv \/ (m # rcv.n /\ m # rcv'.n)
  PROVE  FileInv(m)'
<1> USE DEF FileInv, SendsFile, Receives
<1>1. FileInv(m)
  BY DEF PsionInv
<1>2. Stored(m, out[m])'
  BY <1>1 DEF Stored
<1>3. OneConnection(m)'
  BY <1>1 DEF OneConnection
<1>4. Announces(m)'
  BY <1>1 DEF Announces, Header
<1>5. Transfers(m)'
  <2>1. Streams(m, out[m], conn[m].up) => Streams(m, out[m], conn[m].up)'
    BY DEF Streams
  <2> QED BY <1>1, <2>1 DEF Transfers, Alive
<1>6. ClosedIsStored(m)'
  BY <1>1 DEF ClosedIsStored
<1> QED BY <1>2, <1>3, <1>4, <1>5, <1>6

(* A connection ends, for whatever reason: a process that exits, the       *)
(* receiver that has what it wants, or the link.                           *)
LEMMA FileCloses ==
  ASSUME PsionInv, NEW n \in File, conn[n].state # "none",
         NEW u \in Prefixes(conn[n].up), NEW d \in Prefixes(conn[n].down),
         conn' = [conn EXCEPT ![n] = [state |-> "closed", up |-> u, down |-> d]],
         UNCHANGED <<out, ann, told>>, faulty \subseteq faulty',
         snd' = snd \/ (n = snd.n /\ snd' = [snd EXCEPT !.pc = "exit"]),
         rcv' = rcv \/ rcv'.n # n \/ rcv'.pc = "exit",
         n \in faulty' \/ Len(out[n]) >= ann[n] \/ (snd'.pc = "exit" /\ snd'.n = n)
  PROVE  conn' \in [File -> Connection] /\ FileInv(n)'
<1> USE DEF FileInv, SendsFile, Receives
<1>1. FileInv(n) /\ PsionType
  BY DEF PsionInv
<1>2. conn[n].up \in Seq(Item) /\ conn[n].down \in {<<>>, <<"ACK Y">>} /\ out[n] \in Seq(Item) /\ n \in Nat
  BY <1>1, FileTypes
<1>3. u \in Seq(Item) /\ d \in {<<>>, <<"ACK Y">>} /\ (conn[n].down = <<>> => d = <<>>)
  BY <1>2, PrefixSeq, PrefixOne, PrefixNothing
<1>4. conn' \in [File -> Connection]
  BY <1>1, <1>3 DEF PsionType, Connection
<1>5. /\ conn'[n].state = "closed" /\ conn'[n].up = u /\ conn'[n].down = d
      /\ out'[n] = out[n] /\ ann'[n] = ann[n]
  BY <1>1 DEF PsionType
<1>6. /\ snd'.n = snd.n /\ snd'.pos = snd.pos /\ snd'.pc \in {snd.pc, "exit"}
      /\ snd'.n # n => snd'.pc = snd.pc
  BY <1>1 DEF PsionType
<1>7. Stored(n, out[n])'
  BY <1>1, <1>5 DEF Stored
<1>8. OneConnection(n)'
  BY <1>1, <1>5, <1>6 DEF OneConnection, NoConn
<1>9. Announces(n)'
  <2>1. conn[n].up = <<>> => u = <<>>
    BY PrefixNothing
  <2>2. conn[n].up = <<Header(n)>> => u \in {<<>>, <<Header(n)>>}
    BY PrefixOne
  <2>3. Header(n)' = Header(n)
    BY DEF Header
  <2>4. SendsFile(n, {"header"})' =>
          conn[n].up' = <<>> /\ conn[n].down' = <<>> /\ out[n]' = <<>> /\ ~Receives(n, {"ack", "data"})'
    BY <1>1, <1>3, <1>5, <1>6, <2>1 DEF Announces
  <2>5. SendsFile(n, {"ack"})' =>
          /\ snd'.pos = 0 /\ out[n]' = <<>>
          /\ \/ u = <<>>
             \/ u = <<Header(n)>> /\ d = <<>> /\ ~Receives(n, {"ack", "data"})'
          /\ d # <<>> => ~Receives(n, {"header"})'
    BY <1>1, <1>3, <1>5, <1>6, <2>1, <2>2 DEF Announces
  <2>6. Receives(n, {"header"})' =>
          /\ out[n]' = <<>> /\ u \in {<<>>, <<Header(n)>>}
          /\ snd'.n = n => snd'.pc \in {"header", "ack", "exit"}
    BY <1>1, <1>5, <1>6, <2>1, <2>2 DEF Announces
  <2> QED BY <1>5, <2>3, <2>4, <2>5, <2>6 DEF Announces
<1>10. Transfers(n)'
  <2>1. Streams(n, out[n], conn[n].up) => Streams(n, out[n], conn[n].up)'
    <3>1. Streams(n, out[n], conn[n].up) => Streams(n, out[n], u)
      BY <1>2, StreamsPrefix
    <3>2. Streams(n, out[n], u) => Streams(n, out[n], conn[n].up)'
      BY <1>5 DEF Streams
    <3> QED BY <3>1, <3>2
  <2>2. ~Alive(n)' /\ conn'[n].state = "closed"
    BY <1>5 DEF Alive
  <2>3. SendsFile(n, {"data", "last"})' => Streams(n, out[n], conn[n].up)'
    BY <1>1, <1>6, <2>1 DEF Transfers
  <2>4. Receives(n, {"ack", "data"})' =>
          /\ rcv'.size = ann'[n]
          /\ snd'.n = n => snd'.pc \in {"ack", "data", "last", "exit"}
          /\ Streams(n, out[n], conn[n].up)'
    BY <1>1, <1>5, <1>6, <2>1 DEF Transfers
  <2> QED BY <2>2, <2>3, <2>4 DEF Transfers
<1>11. ClosedIsStored(n)'
  BY <1>5 DEF ClosedIsStored
<1> QED BY <1>4, <1>7, <1>8, <1>9, <1>10, <1>11

(* All that was under way may be lost. *)
LEMMA EmptyPrefix ==
  ASSUME NEW S, NEW u \in Seq(S)
  PROVE  <<>> \in Prefixes(u)
<1>1. 0 \in 0 .. Len(u)
  BY LenProperties
<1>2. SubSeq(u, 1, 0) = <<>>
  BY SubSeqEmpty
<1> QED BY <1>1, <1>2 DEF Prefixes

(* The same where at most one item is under way. *)
LEMMA EmptyOnePrefix ==
  ASSUME NEW x
  PROVE  <<>> \in Prefixes(<<>>) /\ <<>> \in Prefixes(<<x>>)
<1>1. 0 \in 0 .. Len(<<>>) /\ 0 \in 0 .. Len(<<x>>)
  OBVIOUS
<1>2. SubSeq(<<>>, 1, 0) = <<>> /\ SubSeq(<<x>>, 1, 0) = <<>>
  OBVIOUS
<1> QED BY <1>1, <1>2, Zenon DEF Prefixes

(* exit() of the sender. *)
LEMMA SenderExitsInv ==
  ASSUME PsionInv, SenderExits, snd.pc # "done"
  PROVE  PsionInv'
<1>1. PsionType /\ snd.n \in File
  BY DEF PsionInv, PsionType
<1>2. /\ snd' = [snd EXCEPT !.pc = "exit"] /\ UNCHANGED <<disk, ann, rcv, out, told, faulty>>
      /\ snd'.n = snd.n /\ snd'.pc = "exit"
  BY <1>1 DEF SenderExits, PsionType
<1>3. ASSUME conn' \in [File -> Connection]
      PROVE  PsionType'
  BY <1>1, <1>2, <1>3 DEF PsionType
<1>4. CASE Alive(snd.n)
  <2>1. PICK u \in Prefixes(conn[snd.n].up) :
          conn' = [conn EXCEPT ![snd.n] = [state |-> "closed", up |-> u, down |-> <<>>]]
    BY <1>4 DEF SenderExits, ClosedBySender, Closed
  <2>2. <<>> \in Prefixes(conn[snd.n].down)
    BY <1>1, FileTypes, EmptyOnePrefix
  <2>3. conn[snd.n].state # "none"
    BY <1>4 DEF Alive
  <2>4. ASSUME NEW m \in File, m = snd.n
        PROVE  conn' \in [File -> Connection] /\ FileInv(m)'
    BY <1>1, <1>2, <2>1, <2>2, <2>3, <2>4, FileCloses
  <2>5. ASSUME NEW m \in File, m # snd.n
        PROVE  FileInv(m)'
    <3>1. conn'[m] = conn[m]
      BY <1>1, <2>1, <2>5 DEF PsionType
    <3> QED BY <1>2, <2>5, <3>1, OtherFile
  <2> QED BY <1>1, <1>3, <2>4, <2>5 DEF PsionInv
<1>5. CASE ~Alive(snd.n)
  <2>1. conn' = conn
    BY <1>5 DEF SenderExits
  <2>2. ASSUME NEW m \in File, m # snd.n
        PROVE  FileInv(m)'
    BY <1>2, <2>1, <2>2, OtherFile
  <2>3. ASSUME NEW m \in File, m = snd.n
        PROVE  FileInv(m)'
    <3>1. FileInv(m) /\ ~Alive(m) /\ ~Alive(m)'
      BY <1>5, <2>1, <2>3 DEF PsionInv, Alive
    <3>2. Streams(m, out[m], conn[m].up) => Streams(m, out[m], conn[m].up)'
      BY <1>2, <2>1 DEF Streams
    <3>3. Stored(m, out[m])'
      BY <1>2, <3>1 DEF FileInv, Stored
    <3> QED
      BY <1>2, <2>1, <2>3, <3>1, <3>2, <3>3
      DEF FileInv, OneConnection, Announces, Transfers, ClosedIsStored, SendsFile, Receives, Alive, Header
  <2> QED BY <1>1, <1>3, <2>1, <2>2, <2>3 DEF PsionInv, PsionType
<1> QED BY <1>4, <1>5

(* exit() of the receiver, and the end of a file it has received. *)
LEMMA ReceiverClosesInv ==
  ASSUME PsionInv, rcv.n \in File, ClosedByReceiver(rcv.n),
         UNCHANGED <<disk, ann, snd, out, told>>, faulty \subseteq faulty', faulty' \subseteq File,
         rcv' \in [pc : {"accept", "done", "exit"}, n : 0 .. Files, size : 0 .. MaxSize],
         rcv'.n = 0 \/ (rcv'.n = rcv.n /\ rcv'.pc = "exit"),
         rcv.n \in faulty' \/ Len(out[rcv.n]) >= ann[rcv.n]
  PROVE  PsionInv'
<1>1. PsionType
  BY DEF PsionInv
<1>2. PICK d \in Prefixes(conn[rcv.n].down) :
        conn' = [conn EXCEPT ![rcv.n] = [state |-> "closed", up |-> <<>>, down |-> d]]
  BY DEF ClosedByReceiver, Closed
<1>3. <<>> \in Prefixes(conn[rcv.n].up)
  BY <1>1, FileTypes, EmptyPrefix
<1>4. conn[rcv.n].state # "none"
  BY DEF PsionInv, FileInv, OneConnection
<1>5. ASSUME NEW m \in File, m = rcv.n
      PROVE  conn' \in [File -> Connection] /\ FileInv(m)'
  <2>1. rcv' = rcv \/ rcv'.n # m \/ rcv'.pc = "exit"
    BY <1>5, PsionAssumption DEF File
  <2> QED BY <1>2, <1>3, <1>4, <1>5, <2>1, FileCloses
<1>6. ASSUME NEW m \in File, m # rcv.n
      PROVE  FileInv(m)'
  <2>1. conn'[m] = conn[m]
    BY <1>1, <1>2, <1>6 DEF PsionType
  <2>2. m # rcv'.n
    BY <1>6, PsionAssumption DEF File
  <2> QED BY <1>6, <2>1, <2>2, OtherFile
<1>7. PsionType'
  BY <1>1, <1>5 DEF PsionType
<1> QED BY <1>5, <1>6, <1>7 DEF PsionInv

(* The receiver gives up in the middle of a file. *)
LEMMA ReceiverExitsInv ==
  ASSUME PsionInv, ReceiverExits, rcv.pc \in {"header", "ack", "data"}
  PROVE  PsionInv'
<1>1. PsionType /\ rcv.n \in File
  BY DEF PsionInv, PsionType
<1>2. rcv' \in [pc : {"accept", "done", "exit"}, n : 0 .. Files, size : 0 .. MaxSize]
      /\ rcv'.n = rcv.n /\ rcv'.pc = "exit"
  BY <1>1 DEF ReceiverExits, PsionType
<1> QED BY <1>1, <1>2, ReceiverClosesInv DEF ReceiverExits, PsionType
-----------------------------------------------------------------------------
(* A step of the sender at one file that leaves the stored files alone. *)
LEMMA SenderAtFile ==
  ASSUME PsionInv, NEW n \in File, n = snd.n, snd'.n = n,
         UNCHANGED <<rcv, out, told, faulty>>,
         NEW c \in Connection, conn' = [conn EXCEPT ![n] = c],
         ann' \in [File -> 0 .. MaxSize], \A m \in File \ {n} : ann'[m] = ann[m],
         disk' = disk,
         snd' \in [pc : {"discover", "connect", "header", "ack", "data", "last", "done", "exit"},
                   n : 1 .. Files + 1, pos : 0 .. MaxSize, try : Nat],
         snd'.pc \in {"discover", "connect", "header"} => snd'.pos = 0,
         OneConnection(n)', Announces(n)', Transfers(n)', ClosedIsStored(n)'
  PROVE  PsionInv'
<1>1. PsionType
  BY DEF PsionInv
<1>2. PsionType'
  BY <1>1 DEF PsionType
<1>3. FileInv(n)'
  <2>1. Stored(n, out[n])'
    BY DEF PsionInv, FileInv, Stored
  <2> QED BY <2>1 DEF FileInv
<1>4. ASSUME NEW m \in File, m # n
      PROVE  FileInv(m)'
  <2>1. conn'[m] = conn[m] /\ ann'[m] = ann[m]
    BY <1>1, <1>4 DEF PsionType
  <2> QED BY <1>4, <2>1, OtherFile
<1> QED BY <1>2, <1>3, <1>4 DEF PsionInv

(* The sender looks for a device, several times. *)
LEMMA SendDiscoverInv ==
  ASSUME PsionInv, SendDiscover
  PROVE  PsionInv'
<1>1. PsionType /\ snd.n \in File /\ snd.pc = "discover"
  BY DEF PsionInv, PsionType, SendDiscover
<1>2. CASE SenderExits
  BY <1>1, <1>2, SenderExitsInv
<1>3. CASE ~SenderExits
  <2>1. /\ snd' = [snd EXCEPT !.try = @ + 1] \/ snd' = [snd EXCEPT !.pc = "connect"]
        /\ UNCHANGED <<disk, ann, rcv, conn, out, told, faulty>>
    BY <1>3 DEF SendDiscover
  <2>2. /\ snd'.n = snd.n /\ snd'.pc \in {"discover", "connect"} /\ snd'.pos = 0
        /\ snd' \in [pc : {"discover", "connect"}, n : 1 .. Files + 1, pos : 0 .. MaxSize, try : Nat]
    <3>1. CASE snd' = [snd EXCEPT !.try = @ + 1]
      <4>1. snd.try + 1 \in Nat
        BY <1>1 DEF PsionType
      <4>2. PICK k \in Nat : k = snd.try + 1
        BY <4>1
      <4>3. snd' = [snd EXCEPT !.try = k]
        BY <3>1, <4>2
      <4> QED BY <1>1, <4>3 DEF PsionType
    <3>2. CASE snd' = [snd EXCEPT !.pc = "connect"]
      BY <1>1, <3>2 DEF PsionType
    <3> QED BY <2>1, <3>1, <3>2
  <2>3. PsionType'
    BY <1>1, <2>1, <2>2 DEF PsionType
  <2>4. ASSUME NEW m \in File PROVE FileInv(m)'
    <3>1. FileInv(m)
      BY DEF PsionInv
    <3>2. Stored(m, out[m])'
      BY <2>1, <3>1 DEF FileInv, Stored
    <3>3. Streams(m, out[m], conn[m].up) => Streams(m, out[m], conn[m].up)'
      BY <2>1 DEF Streams
    <3> QED
      BY <1>1, <2>1, <2>2, <3>1, <3>2, <3>3
      DEF FileInv, OneConnection, Announces, Transfers, ClosedIsStored, SendsFile, Receives, Header, Alive
  <2> QED BY <2>3, <2>4 DEF PsionInv
<1> QED BY <1>2, <1>3

(* The sender connects, or gives up. *)
LEMMA SendConnectInv ==
  ASSUME PsionInv, SendConnect
  PROVE  PsionInv'
<1>1. PsionType /\ snd.n \in File /\ snd.pc = "connect" /\ FileInv(snd.n)
  BY DEF PsionInv, PsionType, SendConnect
<1>2. CASE SenderExits
  BY <1>1, <1>2, SenderExitsInv
<1>3. CASE ~SenderExits
  <2> DEFINE c == [NoConn EXCEPT !.state = "pending"]
  <2>1. /\ conn' = [conn EXCEPT ![snd.n] = c]
        /\ snd' = [snd EXCEPT !.pc = "header"]
        /\ UNCHANGED <<disk, ann, rcv, out, told, faulty>>
    BY <1>3 DEF SendConnect
  <2>2. PICK n \in File : n = snd.n
    BY <1>1
  <2>3. c \in Connection /\ c.state = "pending" /\ c.up = <<>> /\ c.down = <<>>
    BY EmptySeq DEF Connection, NoConn
  <2>4. conn'[n] = c
    BY <1>1, <2>1, <2>2 DEF PsionType
  <2>5. /\ snd'.n = n /\ snd'.pc = "header" /\ snd'.pos = 0
        /\ snd' \in [pc : {"header"}, n : 1 .. Files + 1, pos : 0 .. MaxSize, try : Nat]
    BY <1>1, <2>1, <2>2 DEF PsionType
  <2>6. out[n] = <<>> /\ rcv.n # n /\ n \notin told /\ n \in Nat
    <3>1. n \in Nat
      BY PsionAssumption DEF File
    <3> QED BY <1>1, <2>2, <3>1 DEF FileInv, OneConnection, SendsFile, NoConn
  <2> HIDE DEF c
  <2>7. OneConnection(n)' /\ Announces(n)' /\ Transfers(n)' /\ ClosedIsStored(n)'
    BY <2>1, <2>3, <2>4, <2>5, <2>6
    DEF OneConnection, Announces, Transfers, ClosedIsStored, SendsFile, Receives
  <2> QED BY <1>1, <2>1, <2>2, <2>3, <2>5, <2>7, SenderAtFile DEF PsionType
<1> QED BY <1>2, <1>3

(* The sender announces the size the file has now. *)
LEMMA SendHeaderInv ==
  ASSUME PsionInv, SendHeader
  PROVE  PsionInv'
<1>1. PsionType /\ snd.n \in File /\ snd.pc = "header" /\ FileInv(snd.n)
  BY DEF PsionInv, PsionType, SendHeader
<1>2. CASE SenderExits
  BY <1>1, <1>2, SenderExitsInv
<1>3. CASE ~SenderExits
  <2>1. PICK n \in File : n = snd.n
    BY <1>1
  <2> DEFINE h == [name |-> n, size |-> disk[n]]
             c == [conn[n] EXCEPT !.up = <<h>>]
  <2>2. /\ Alive(n)
        /\ conn' = [conn EXCEPT ![n].up = <<h>>]
        /\ ann' = [ann EXCEPT ![n] = disk[n]]
        /\ snd' = [snd EXCEPT !.pc = "ack"]
        /\ UNCHANGED <<disk, rcv, out, told, faulty>>
    BY <1>3, <2>1 DEF SendHeader
  <2>3. conn' = [conn EXCEPT ![n] = c]
    BY <2>2
  <2>4. /\ conn[n].up = <<>> /\ conn[n].down = <<>> /\ out[n] = <<>> /\ ~Receives(n, {"ack", "data"})
        /\ n \notin told /\ n \in Nat /\ disk[n] \in 0 .. MaxSize /\ conn[n] \in Connection
    <3>1. n \in Nat /\ disk[n] \in 0 .. MaxSize /\ conn[n] \in Connection
      BY <1>1, FileTypes
    <3> QED BY <1>1, <2>1, <3>1 DEF FileInv, OneConnection, Announces, SendsFile
  <2>5. h \in Item
    BY <2>4, PsionAssumption DEF Item
  <2>6. c \in Connection /\ c.state = conn[n].state /\ c.up = <<h>> /\ c.down = <<>>
    <3>1. <<h>> \in Seq(Item)
      BY <2>5
    <3> HIDE DEF h
    <3> QED BY <2>4, <3>1 DEF Connection
  <2>7. conn'[n] = c /\ ann'[n] = disk[n] /\ ann' \in [File -> 0 .. MaxSize]
    BY <1>1, <2>2, <2>3, <2>4 DEF PsionType
  <2>8. /\ snd'.n = n /\ snd'.pc = "ack" /\ snd'.pos = 0
        /\ snd' \in [pc : {"ack"}, n : 1 .. Files + 1, pos : 0 .. MaxSize, try : Nat]
    BY <1>1, <2>1, <2>2 DEF PsionType
  <2>9. Header(n)' = h
    BY <2>7 DEF Header
  <2>10. conn[n].state \in {"pending", "open"} /\ (rcv.n = n => conn[n].state = "open")
    BY <1>1, <2>1, <2>2 DEF Alive, FileInv, OneConnection
  <2> HIDE DEF c, h
  <2>11. OneConnection(n)' /\ Transfers(n)' /\ ClosedIsStored(n)'
    BY <2>2, <2>4, <2>6, <2>7, <2>8, <2>10
    DEF OneConnection, Transfers, ClosedIsStored, SendsFile, Receives
  <2>12. Announces(n)'
    BY <2>2, <2>4, <2>6, <2>7, <2>8, <2>9, <2>10 DEF Announces, SendsFile, Receives
  <2>13. \A m \in File \ {n} : ann'[m] = ann[m]
    BY <1>1, <2>2 DEF PsionType
  <2> QED BY <1>1, <2>1, <2>2, <2>3, <2>6, <2>7, <2>8, <2>11, <2>12, <2>13, SenderAtFile DEF PsionType
<1> QED BY <1>2, <1>3

(* The sender reads the answer, or sees the connection fail. *)
LEMMA SendAwaitAckInv ==
  ASSUME PsionInv, SendAwaitAck
  PROVE  PsionInv'
<1>1. PsionType /\ snd.n \in File /\ snd.pc = "ack" /\ FileInv(snd.n)
  BY DEF PsionInv, PsionType, SendAwaitAck
<1>2. CASE SenderExits
  BY <1>1, <1>2, SenderExitsInv
<1>3. CASE ~SenderExits
  <2>1. PICK n \in File : n = snd.n
    BY <1>1
  <2> DEFINE c == [conn[n] EXCEPT !.down = <<>>]
  <2>2. /\ conn[n].down = <<"ACK Y">>
        /\ conn' = [conn EXCEPT ![n].down = <<>>]
        /\ snd' = [snd EXCEPT !.pc = "data"]
        /\ UNCHANGED <<disk, ann, rcv, out, told, faulty>>
    BY <1>3, <2>1 DEF SendAwaitAck
  <2>3. conn' = [conn EXCEPT ![n] = c]
    BY <2>2
  <2>4. conn[n].down # <<>>
    <3>1. <<"ACK Y">> # <<>>
      OBVIOUS
    <3> QED BY <2>2, <3>1, Zenon
  <2>5. /\ conn[n].up = <<>> /\ out[n] = <<>> /\ snd.pos = 0 /\ ~Receives(n, {"header"})
        /\ conn[n].state \in {"open", "closed"}
    <3>1. conn[n] \in Connection
      BY <1>1, FileTypes
    <3> QED BY <1>1, <2>1, <2>4, <3>1 DEF FileInv, OneConnection, Announces, SendsFile, Connection
  <2>6. c \in Connection /\ c.state = conn[n].state /\ c.up = <<>> /\ c.down = <<>>
    <3>1. conn[n] \in Connection
      BY <1>1, FileTypes
    <3> QED BY <2>5, <3>1 DEF Connection
  <2>7. conn'[n] = c
    BY <1>1, <2>3 DEF PsionType
  <2>8. /\ snd'.n = n /\ snd'.pc = "data" /\ snd'.pos = 0
        /\ snd' \in [pc : {"data"}, n : 1 .. Files + 1, pos : 0 .. MaxSize, try : Nat]
    BY <1>1, <2>1, <2>2, <2>5 DEF PsionType
  <2> HIDE DEF c
  <2>9. OneConnection(n)' /\ Announces(n)' /\ ClosedIsStored(n)'
    <3>1. OneConnection(n)'
      <4>1. ~(n < n) /\ n \notin told
        BY <1>1, <2>1, PsionAssumption DEF FileInv, OneConnection, File
      <4> QED BY <2>2, <2>5, <2>6, <2>7, <2>8, <4>1 DEF OneConnection, SendsFile
    <3>2. Announces(n)'
      BY <2>2, <2>5, <2>8 DEF Announces, SendsFile, Receives
    <3>3. ClosedIsStored(n)'
      BY <1>1, <2>1, <2>2, <2>6, <2>7 DEF FileInv, ClosedIsStored, SendsFile
    <3> QED BY <3>1, <3>2, <3>3
  <2>10. Transfers(n)'
    <3>0. out'[n] = <<>> /\ conn'[n].up = <<>>
      BY <2>2, <2>5, <2>6, <2>7
    <3>1. Streams(n, out[n], conn[n].up)' /\ Len(out'[n]) + Len(conn'[n].up) = 0
      <4>1. Streams(n, <<>>, <<>>) /\ Len(<<>>) + Len(<<>>) = 0
        BY PsionAssumption DEF Streams
      <4>2. Streams(n, out'[n], conn'[n].up)
        BY <3>0, <4>1
      <4> QED BY <3>0, <4>1, <4>2 DEF Streams
    <3> QED
      BY <1>1, <2>1, <2>2, <2>5, <2>6, <2>7, <2>8, <3>1 DEF FileInv, Transfers, SendsFile, Receives
  <2> QED BY <1>1, <2>1, <2>2, <2>3, <2>6, <2>8, <2>9, <2>10, SenderAtFile DEF PsionType
<1> QED BY <1>2, <1>3

(* fread stays within the file. *)
LEMMA FReadBounds ==
  ASSUME PsionType, snd.n \in File
  PROVE  FRead \in Nat /\ snd.pos + FRead \in 0 .. MaxSize
<1>1. PICK d \in Nat, p \in Nat : d = disk[snd.n] /\ p = snd.pos /\ d =< MaxSize /\ p =< MaxSize
  BY PsionAssumption DEF PsionType
<1>2. FRead = IF d < p THEN 0 ELSE IF d - p < BufLen THEN d - p ELSE BufLen
  BY <1>1 DEF FRead
<1> QED BY <1>1, <1>2, PsionAssumption

(* The sender reads a buffer and sends it. *)
LEMMA SendDataInv ==
  ASSUME PsionInv, SendData
  PROVE  PsionInv'
<1>1. PsionType /\ snd.n \in File /\ snd.pc = "data" /\ FileInv(snd.n)
  BY DEF PsionInv, PsionType, SendData
<1>2. CASE SenderExits
  BY <1>1, <1>2, SenderExitsInv
<1>3. CASE ~SenderExits
  <2>1. PICK n \in File : n = snd.n
    BY <1>1
  <2>2. PICK k \in Nat : k = FRead /\ snd.pos + k \in 0 .. MaxSize
    BY <1>1, FReadBounds
  <2>3. PICK pos \in 0 .. MaxSize : pos = snd.pos
    BY <1>1 DEF PsionType
  <2>4. pos \in Nat /\ pos + k \in 0 .. MaxSize
    BY <2>2, <2>3, PsionAssumption
  <2> DEFINE v == conn[n].up \o Units(n, pos, pos + k)
             c == [conn[n] EXCEPT !.up = v]
  <2>5. /\ k > 0 => Alive(n)
        /\ conn' = [conn EXCEPT ![n].up = v]
        /\ snd' = [snd EXCEPT !.pos = pos + k, !.pc = IF k < BufLen THEN "last" ELSE "data"]
        /\ UNCHANGED <<disk, ann, rcv, out, told, faulty>>
    BY <1>3, <2>1, <2>2, <2>3 DEF SendData
  <2>6. conn' = [conn EXCEPT ![n] = c]
    BY <2>5
  <2>7. /\ conn[n].state \in {"open", "closed"} /\ Streams(n, out[n], conn[n].up)
        /\ Alive(n) => Len(out[n]) + Len(conn[n].up) = pos
    BY <1>1, <2>1, <2>3 DEF FileInv, Transfers, SendsFile
  <2>8. conn[n] \in Connection /\ out[n] \in Seq(Item) /\ conn[n].up \in Seq(Item) /\ n \in Nat
    BY <1>1, FileTypes
  <2>9. v \in Seq(Item) /\ Streams(n, out[n], v) /\ (Alive(n) => Len(out[n]) + Len(v) = pos + k)
    <3>1. CASE Alive(n)
      <4>1. PICK o \in Seq(Item), u \in Seq(Item), to \in Nat :
              o = out[n] /\ u = conn[n].up /\ to = pos + k
        BY <2>4, <2>8
      <4>2. pos = Len(o) + Len(u) /\ Streams(n, o, u)
        BY <2>7, <3>1, <4>1
      <4>0. pos =< to /\ to =< MaxSize
        BY <2>4, <4>1, PsionAssumption
      <4>3. Streams(n, o, u \o Units(n, pos, to)) /\ u \o Units(n, pos, to) \in Seq(Item)
            /\ Len(o) + Len(u \o Units(n, pos, to)) = to
        BY <2>4, <2>8, <4>0, <4>2, StreamsAppend
      <4> QED BY <4>1, <4>3
    <3>2. CASE ~Alive(n)
      <4>1. k = 0 /\ pos + k = pos
        BY <2>4, <2>5, <3>2
      <4>2. Units(n, pos, pos) = <<>>
        BY <2>4, <2>8, UnitsEmpty
      <4>3. v = conn[n].up
        BY <2>8, <4>1, <4>2, ConcatEmptySeq
      <4> QED BY <2>7, <2>8, <3>2, <4>3
    <3> QED BY <3>1, <3>2
  <2> HIDE DEF v
  <2>10. c \in Connection /\ c.state = conn[n].state /\ c.up = v /\ c.down = conn[n].down
    BY <2>8, <2>9 DEF Connection
  <2>11. conn'[n] = c
    BY <1>1, <2>6 DEF PsionType
  <2>12. /\ snd'.n = n /\ snd'.pc \in {"data", "last"} /\ snd'.pos = pos + k
         /\ snd' \in [pc : {"data", "last"}, n : 1 .. Files + 1, pos : 0 .. MaxSize, try : Nat]
    BY <1>1, <2>1, <2>4, <2>5 DEF PsionType
  <2> HIDE DEF c
  <2>13. OneConnection(n)' /\ Announces(n)' /\ ClosedIsStored(n)'
    BY <1>1, <2>1, <2>5, <2>7, <2>8, <2>10, <2>11, <2>12
    DEF FileInv, OneConnection, Announces, ClosedIsStored, SendsFile, Receives
  <2>14. Transfers(n)'
    <3>1. Streams(n, out[n], conn[n].up)'
      BY <2>5, <2>9, <2>10, <2>11 DEF Streams
    <3>2. Alive(n)' => Len(out'[n]) + Len(conn'[n].up) = snd'.pos
      BY <2>5, <2>9, <2>10, <2>11, <2>12 DEF Alive
    <3> QED
      BY <1>1, <2>1, <2>5, <2>7, <2>10, <2>11, <2>12, <3>1, <3>2 DEF FileInv, Transfers, SendsFile, Receives
  <2> QED BY <1>1, <2>1, <2>5, <2>6, <2>10, <2>12, <2>13, <2>14, SenderAtFile DEF PsionType
<1> QED BY <1>2, <1>3

(* The sender waits for the other side to close, and reports "Sent". *)
LEMMA SendLastInv ==
  ASSUME PsionInv, SendLast
  PROVE  PsionInv'
<1>1. PsionType /\ snd.n \in File /\ snd.pc = "last" /\ FileInv(snd.n) /\ ~Alive(snd.n)
  BY DEF PsionInv, PsionType, SendLast
<1>2. CASE SenderExits
  BY <1>1, <1>2, SenderExitsInv
<1>3. CASE ~SenderExits
  <2>1. PICK n \in File : n = snd.n
    BY <1>1
  <2>2. /\ told' = told \cup {n}
        /\ snd' = Sender(n + 1)
        /\ UNCHANGED <<disk, ann, rcv, conn, out, faulty>>
    BY <1>3, <2>1 DEF SendLast
  <2>3. n \in Nat /\ n =< Files /\ n > 0
    BY PsionAssumption DEF File
  <2>4. /\ snd' \in [pc : {"discover", "done"}, n : 1 .. Files + 1, pos : 0 .. MaxSize, try : Nat]
        /\ snd'.n = n + 1 /\ snd'.pos = 0 /\ (snd'.pc # "done" => snd'.n \in File)
    BY <2>2, <2>3, PsionAssumption DEF Sender, File
  <2>5. PsionType'
    BY <1>1, <2>2, <2>4 DEF PsionType
  <2>6. conn[n].state = "closed" /\ ~Receives(n, {"header"})
    BY <1>1, <2>1 DEF FileInv, Transfers, Announces, SendsFile, Receives, Alive
  <2>7. ASSUME NEW m \in File PROVE FileInv(m)'
    <3>1. FileInv(m) /\ m \in Nat /\ (m < n + 1 <=> m < n \/ m = n) /\ (n + 1 < m => n < m)
          /\ (m = n + 1 => n < m)
      BY <2>3, PsionAssumption DEF PsionInv, File
    <3>2. Stored(m, out[m])'
      BY <2>2, <3>1 DEF FileInv, Stored
    <3>3. OneConnection(m)'
      BY <2>1, <2>2, <2>3, <2>4, <2>6, <3>1 DEF FileInv, OneConnection, SendsFile, NoConn
    <3>4. ~SendsFile(m, {"header"})' /\ ~SendsFile(m, {"ack"})' /\ ~SendsFile(m, {"data", "last"})'
      BY <2>4 DEF SendsFile
    <3>5. rcv.n = m => m < n + 1
      BY <2>1, <2>3, <3>1 DEF FileInv, OneConnection, NoConn
    <3>6. Announces(m)'
      BY <2>2, <2>4, <3>1, <3>4, <3>5 DEF FileInv, Announces, Receives, Header
    <3>7. Streams(m, out[m], conn[m].up) => Streams(m, out[m], conn[m].up)'
      BY <2>2 DEF Streams
    <3>8. Transfers(m)'
      <4>1. Receives(m, {"ack", "data"})' =>
              /\ rcv.size = ann[m] /\ Streams(m, out[m], conn[m].up) /\ m # snd'.n
        BY <2>2, <2>3, <2>4, <3>1, <3>5 DEF FileInv, Transfers, Receives
      <4> QED BY <2>2, <3>4, <3>7, <4>1 DEF Transfers
    <3>9. ClosedIsStored(m)'
      BY <1>1, <2>2, <3>1 DEF FileInv, ClosedIsStored, SendsFile
    <3> QED BY <3>2, <3>3, <3>6, <3>8, <3>9 DEF FileInv
  <2> QED BY <2>5, <2>7 DEF PsionInv
<1> QED BY <1>2, <1>3
-----------------------------------------------------------------------------
(* A step of the receiver at one file. *)
LEMMA ReceiverAtFile ==
  ASSUME PsionInv, NEW n \in File, rcv'.n = n, rcv.n \notin File \ {n},
         UNCHANGED <<disk, ann, snd, told, faulty>>,
         NEW c \in Connection, conn' = [conn EXCEPT ![n] = c],
         NEW o \in Seq(Item), out' = [out EXCEPT ![n] = o],
         rcv' \in [pc : {"header", "ack", "data"}, n : 0 .. Files, size : 0 .. MaxSize],
         Stored(n, o), OneConnection(n)', Announces(n)', Transfers(n)', ClosedIsStored(n)'
  PROVE  PsionInv'
<1>1. PsionType
  BY DEF PsionInv
<1>2. PsionType'
  BY <1>1 DEF PsionType
<1>3. FileInv(n)'
  <2>1. out'[n] = o
    BY <1>1 DEF PsionType
  <2>2. Stored(n, out[n])'
    BY <2>1 DEF Stored
  <2> QED BY <2>2 DEF FileInv
<1>4. ASSUME NEW m \in File, m # n
      PROVE  FileInv(m)'
  <2>1. conn'[m] = conn[m] /\ out'[m] = out[m] /\ m # rcv.n /\ m # rcv'.n
    BY <1>1, <1>4 DEF PsionType
  <2> QED BY <1>4, <2>1, OtherFile
<1> QED BY <1>2, <1>3, <1>4 DEF PsionInv

(* The receiver accepts the next connection. *)
LEMMA ReceiveAcceptInv ==
  ASSUME PsionInv, ReceiveAccept
  PROVE  PsionInv'
<1>1. PsionType /\ rcv.n = 0
  BY DEF PsionInv, PsionType, ReceiveAccept
<1>2. PICK n \in File :
        /\ conn[n].state = "pending"
        /\ conn' = [conn EXCEPT ![n].state = "open"]
        /\ rcv' = [pc |-> "header", n |-> n, size |-> 0]
        /\ UNCHANGED <<disk, ann, snd, out, told, faulty>>
  BY DEF ReceiveAccept
<1> DEFINE c == [conn[n] EXCEPT !.state = "open"]
<1>3. conn' = [conn EXCEPT ![n] = c]
  BY <1>2
<1>4. FileInv(n) /\ SendsFile(n, {"header", "ack"}) /\ conn[n].down = <<>>
  BY <1>2 DEF PsionInv, FileInv, OneConnection
<1>5. out[n] = <<>> /\ conn[n].up \in {<<>>, <<Header(n)>>}
  BY <1>4 DEF FileInv, Announces, SendsFile
<1>6. c \in Connection /\ c.state = "open" /\ c.up = conn[n].up /\ c.down = <<>>
  <2>1. conn[n] \in Connection
    BY <1>1, FileTypes
  <2> QED BY <1>4, <2>1 DEF Connection
<1>7. conn'[n] = c /\ out'[n] = out[n] /\ out' = [out EXCEPT ![n] = out[n]]
      /\ out[n] \in Seq(Item)
  BY <1>1, <1>2, <1>3 DEF PsionType
<1>8. /\ rcv'.n = n /\ rcv'.pc = "header"
      /\ rcv' \in [pc : {"header"}, n : 0 .. Files, size : 0 .. MaxSize]
  BY <1>2, PsionAssumption DEF File
<1>9. Header(n)' = Header(n)
  BY <1>2 DEF Header
<1> HIDE DEF c
<1>10. OneConnection(n)' /\ ClosedIsStored(n)'
  <2>1. ~(n < n) /\ n \notin told /\ n = snd.n
    BY <1>4, PsionAssumption DEF FileInv, OneConnection, File, SendsFile
  <2> QED BY <1>2, <1>4, <1>6, <1>7, <1>8, <2>1 DEF OneConnection, SendsFile, ClosedIsStored
<1>11. Announces(n)'
  BY <1>2, <1>4, <1>5, <1>6, <1>7, <1>8, <1>9 DEF FileInv, Announces, SendsFile, Receives
<1>12. Transfers(n)'
  BY <1>2, <1>4, <1>8 DEF Transfers, SendsFile, Receives
<1>13. Stored(n, out[n]) /\ rcv.n \notin File
  BY <1>1, <1>4, PsionAssumption DEF FileInv, File
<1> QED BY <1>2, <1>3, <1>6, <1>7, <1>8, <1>10, <1>11, <1>12, <1>13, ReceiverAtFile

(* The receiver reads the header, which is all that is under way. *)
LEMMA ReceiveHeaderInv ==
  ASSUME PsionInv, ReceiveHeader
  PROVE  PsionInv'
<1>1. PsionType /\ rcv.n \in File /\ rcv.pc = "header" /\ FileInv(rcv.n)
  BY DEF PsionInv, PsionType, ReceiveHeader
<1>2. CASE ReceiverExits
  BY <1>1, <1>2, ReceiverExitsInv
<1>3. CASE ~ReceiverExits
  <2>1. PICK n \in File : n = rcv.n
    BY <1>1
  <2>2. /\ conn[n].up # <<>>
        /\ rcv' = [rcv EXCEPT !.pc = "ack", !.size = Head(conn[n].up).size]
        /\ out' = [out EXCEPT ![n] = <<>>]
        /\ conn' = [conn EXCEPT ![n].up = Tail(@)]
        /\ UNCHANGED <<disk, ann, snd, told, faulty>>
    BY <1>3, <2>1 DEF ReceiveHeader
  <2>3. /\ conn[n].up = <<Header(n)>> /\ out[n] = <<>>
        /\ snd.n = n => snd.pc \in {"ack", "exit"}
        /\ snd.n = n /\ snd.pc = "ack" => snd.pos = 0
    BY <1>1, <2>1, <2>2 DEF FileInv, Announces, Receives, SendsFile
  <2>4. Head(conn[n].up) = Header(n) /\ Tail(conn[n].up) = <<>>
    BY <2>3
  <2>5. Head(conn[n].up).size = ann[n] /\ ann[n] \in 0 .. MaxSize
    <3>1. ann[n] \in 0 .. MaxSize
      BY <1>1, FileTypes
    <3> QED BY <2>4, <3>1 DEF Header
  <2> DEFINE c == [conn[n] EXCEPT !.up = <<>>]
  <2>6. conn' = [conn EXCEPT ![n] = c]
    BY <2>2, <2>4
  <2>7. c \in Connection /\ c.state = conn[n].state /\ c.up = <<>> /\ c.down = conn[n].down
    <3>1. conn[n] \in Connection
      BY <1>1, FileTypes
    <3>2. <<>> \in Seq(Item)
      OBVIOUS
    <3> QED BY <3>1, <3>2 DEF Connection
  <2>8. conn'[n] = c /\ out'[n] = <<>>
    BY <1>1, <2>2, <2>6 DEF PsionType
  <2>9. /\ rcv'.n = n /\ rcv'.pc = "ack" /\ rcv'.size = ann[n]
        /\ rcv' \in [pc : {"ack"}, n : 0 .. Files, size : 0 .. MaxSize]
    BY <1>1, <2>1, <2>2, <2>5 DEF PsionType
  <2> HIDE DEF c
  <2>10. OneConnection(n)'
    BY <1>1, <2>1, <2>2, <2>3, <2>7, <2>8, <2>9 DEF FileInv, OneConnection, SendsFile, NoConn
  <2>11. Announces(n)'
    BY <2>2, <2>3, <2>7, <2>8, <2>9 DEF Announces, SendsFile, Receives
  <2>12. Streams(n, <<>>, <<>>) /\ Stored(n, <<>>)
    BY PsionAssumption DEF Streams, Stored
  <2>13. Transfers(n)'
    <3>1. Streams(n, out[n], conn[n].up)'
      BY <2>7, <2>8, <2>12 DEF Streams
    <3> QED BY <2>2, <2>3, <2>9, <3>1 DEF Transfers, SendsFile, Receives
  <2>14. ClosedIsStored(n)'
    BY <1>1, <2>1, <2>2, <2>3, <2>7, <2>8 DEF FileInv, ClosedIsStored, SendsFile
  <2>15. <<>> \in Seq(Item)
    OBVIOUS
  <2> QED BY <2>1, <2>2, <2>6, <2>7, <2>9, <2>10, <2>11, <2>12, <2>13, <2>14, <2>15, ReceiverAtFile
<1> QED BY <1>2, <1>3

(* The receiver answers the header. *)
LEMMA ReceiveAckInv ==
  ASSUME PsionInv, ReceiveAck
  PROVE  PsionInv'
<1>1. PsionType /\ rcv.n \in File /\ rcv.pc = "ack" /\ FileInv(rcv.n)
  BY DEF PsionInv, PsionType, ReceiveAck
<1>2. CASE ReceiverExits
  BY <1>1, <1>2, ReceiverExitsInv
<1>3. CASE ~ReceiverExits
  <2>1. PICK n \in File : n = rcv.n
    BY <1>1
  <2> DEFINE c == [conn[n] EXCEPT !.down = <<"ACK Y">>]
  <2>2. /\ Alive(n)
        /\ conn' = [conn EXCEPT ![n].down = <<"ACK Y">>]
        /\ rcv' = [rcv EXCEPT !.pc = "data"]
        /\ UNCHANGED <<disk, ann, snd, out, told, faulty>>
    BY <1>3, <2>1 DEF ReceiveAck
  <2>3. conn' = [conn EXCEPT ![n] = c]
    BY <2>2
  <2>4. c \in Connection /\ c.state = conn[n].state /\ c.up = conn[n].up /\ conn[n].state = "open"
    <3>1. conn[n] \in Connection
      BY <1>1, FileTypes
    <3>2. conn[n].state = "open"
      BY <1>1, <2>1, <2>2 DEF FileInv, OneConnection, Alive
    <3> QED BY <3>1, <3>2 DEF Connection
  <2>5. conn'[n] = c /\ out'[n] = out[n] /\ out' = [out EXCEPT ![n] = out[n]]
        /\ out[n] \in Seq(Item)
    BY <1>1, <2>2, <2>3 DEF PsionType
  <2>6. /\ rcv'.n = n /\ rcv'.pc = "data" /\ rcv'.size = rcv.size
        /\ rcv' \in [pc : {"data"}, n : 0 .. Files, size : 0 .. MaxSize]
    BY <1>1, <2>1, <2>2 DEF PsionType
  <2> HIDE DEF c
  <2>7. /\ rcv.size = ann[n] /\ Streams(n, out[n], conn[n].up) /\ Stored(n, out[n])
        /\ snd.n = n => snd.pc \in {"ack", "data", "last", "exit"}
        /\ SendsFile(n, {"ack"}) => snd.pos = 0 /\ out[n] = <<>> /\ conn[n].up = <<>>
        /\ SendsFile(n, {"data", "last"}) /\ Alive(n) => Len(out[n]) + Len(conn[n].up) = snd.pos
    BY <1>1, <2>1 DEF FileInv, Transfers, Announces, SendsFile, Receives
  <2>8. OneConnection(n)'
    <3>1. ~(snd.n < n) /\ ~SendsFile(n, {"discover", "connect"})
      BY <1>1, <2>1, <2>4 DEF FileInv, OneConnection, NoConn
    <3>2. ~(n < snd.n) /\ n \notin told
      BY <1>1, <2>1, <2>4 DEF FileInv, OneConnection
    <3> QED BY <2>2, <2>4, <2>5, <2>6, <3>1, <3>2 DEF OneConnection, SendsFile
  <2>9. Announces(n)'
    BY <2>2, <2>4, <2>5, <2>6, <2>7 DEF Announces, SendsFile, Receives
  <2>10. Transfers(n)'
    <3>1. Streams(n, out[n], conn[n].up)'
      BY <2>4, <2>5, <2>7 DEF Streams
    <3> QED BY <2>2, <2>4, <2>5, <2>6, <2>7, <3>1 DEF Transfers, SendsFile, Receives, Alive
  <2>11. ClosedIsStored(n)'
    BY <2>4, <2>5 DEF ClosedIsStored
  <2> QED BY <2>1, <2>2, <2>3, <2>4, <2>5, <2>6, <2>7, <2>8, <2>9, <2>10, <2>11, ReceiverAtFile
<1> QED BY <1>2, <1>3

(* The receiver stores what it has read. *)
LEMMA ReceiveDataInv ==
  ASSUME PsionInv, ReceiveData
  PROVE  PsionInv'
<1>1. PsionType /\ rcv.n \in File /\ rcv.pc = "data" /\ FileInv(rcv.n)
  BY DEF PsionInv, PsionType, ReceiveData
<1>2. CASE ReceiverExits
  BY <1>1, <1>2, ReceiverExitsInv
<1>3. CASE ~ReceiverExits
  <2>1. PICK n \in File : n = rcv.n
    BY <1>1
  <2>2. PICK k \in 1 .. BufLen :
          /\ k =< Len(conn[n].up)
          /\ out' = [out EXCEPT ![n] = @ \o SubSeq(conn[n].up, 1, k)]
          /\ conn' = [conn EXCEPT ![n].up = SubSeq(@, k + 1, Len(@))]
          /\ UNCHANGED <<disk, ann, snd, rcv, told, faulty>>
    BY <1>3, <2>1 DEF ReceiveData
  <2>3. conn[n] \in Connection /\ conn[n].up \in Seq(Item) /\ out[n] \in Seq(Item) /\ n \in Nat
    BY <1>1, FileTypes
  <2>4. PICK o, u : o = out[n] /\ u = conn[n].up
    OBVIOUS
  <2>5. /\ rcv.size = ann[n] /\ Streams(n, o, u) /\ Stored(n, o)
        /\ snd.n = n => snd.pc \in {"ack", "data", "last", "exit"}
        /\ SendsFile(n, {"ack"}) => conn[n].up = <<>>
        /\ SendsFile(n, {"data", "last"}) /\ Alive(n) => Len(o) + Len(u) = snd.pos
        /\ conn[n].state \in {"open", "closed"}
    BY <1>1, <2>1, <2>4 DEF FileInv, OneConnection, Transfers, Announces, SendsFile, Receives
  <2>6. o \in Seq(Item) /\ u \in Seq(Item) /\ k \in 1 .. Len(u)
    BY <2>2, <2>3, <2>4, PsionAssumption
  <2>7. PICK p, v : Moves(n, o, u, k, p, v)
    BY <2>3, <2>5, <2>6, StreamsRead
  <2>8. /\ p = o \o SubSeq(u, 1, k) /\ v = SubSeq(u, k + 1, Len(u))
         /\ p \in Seq(Item) /\ v \in Seq(Item) /\ Stored(n, p) /\ Streams(n, p, v)
         /\ Len(p) + Len(v) = Len(o) + Len(u) /\ Len(p) = Len(o) + k
    BY <2>7 DEF Moves
  <2>9. PICK c : c = [conn[n] EXCEPT !.up = v]
    OBVIOUS
  <2>10. out' = [out EXCEPT ![n] = p] /\ conn' = [conn EXCEPT ![n] = c]
    BY <2>2, <2>4, <2>8, <2>9
  <2>11. c \in Connection /\ c.state = conn[n].state /\ c.up = v /\ c.down = conn[n].down
    BY <2>3, <2>9, <2>8 DEF Connection
  <2>12. conn'[n] = c /\ out'[n] = p
    BY <1>1, <2>10 DEF PsionType
  <2>13. ~SendsFile(n, {"header"}) /\ ~SendsFile(n, {"ack"})
    <3>1. u # <<>>
      BY <2>6
    <3> QED BY <2>4, <2>5, <3>1 DEF SendsFile
  <2>14. OneConnection(n)'
    <3>1. ~(snd.n < n) /\ ~SendsFile(n, {"discover", "connect"})
      BY <1>1, <2>1, <2>5 DEF FileInv, OneConnection, NoConn
    <3>2. (n < snd.n => conn[n].state = "closed") /\ (n \in told => n < snd.n)
      BY <1>1, <2>1 DEF FileInv, OneConnection
    <3> QED BY <2>1, <2>2, <2>5, <2>11, <2>12, <2>13, <3>1, <3>2 DEF OneConnection, SendsFile
  <2>15. Announces(n)'
    BY <1>1, <2>1, <2>2, <2>13 DEF Announces, SendsFile, Receives
  <2>16. Transfers(n)'
    <3>1. Streams(n, out[n], conn[n].up)'
      BY <2>8, <2>11, <2>12 DEF Streams
    <3>2. Alive(n)' => Alive(n)
      BY <2>11, <2>12 DEF Alive
    <3> QED BY <2>2, <2>5, <2>8, <2>11, <2>12, <3>1, <3>2 DEF Transfers, SendsFile, Receives
  <2>17. ClosedIsStored(n)'
    <3>1. Len(p) >= Len(o) /\ Len(o) \in Nat /\ Len(p) \in Nat
      <4>1. Len(o) \in Nat /\ k \in Nat /\ Len(p) = Len(o) + k
        BY <2>6, <2>8
      <4> QED BY <4>1
    <3>2. ann[n] \in Nat
      <4>1. ann[n] \in 0 .. MaxSize
        BY <1>1, FileTypes
      <4> QED BY <4>1, PsionAssumption
    <3>3. Len(o) >= ann[n] => Len(p) >= ann[n]
      BY <3>1, <3>2
    <3> QED BY <1>1, <2>1, <2>2, <2>4, <2>11, <2>12, <3>3 DEF FileInv, ClosedIsStored, SendsFile
  <2>18. rcv' \in [pc : {"header", "ack", "data"}, n : 0 .. Files, size : 0 .. MaxSize] /\ rcv'.n = n
    BY <1>1, <2>1, <2>2 DEF PsionType
  <2> QED
    BY <2>1, <2>2, <2>10, <2>8, <2>11, <2>14, <2>15, <2>16, <2>17, <2>18, ReceiverAtFile
<1> QED BY <1>2, <1>3

(* The receiver has all it was promised, and closes. *)
LEMMA ReceiveDoneInv ==
  ASSUME PsionInv, ReceiveDone
  PROVE  PsionInv'
<1>1. PsionType /\ rcv.n \in File /\ rcv.pc = "data" /\ FileInv(rcv.n)
  BY DEF PsionInv, PsionType, ReceiveDone
<1>2. CASE ReceiverExits
  BY <1>1, <1>2, ReceiverExitsInv
<1>3. CASE ~ReceiverExits
  <2>1. /\ rcv' = [pc |-> IF Batch THEN "accept" ELSE "done", n |-> 0, size |-> 0]
        /\ ClosedByReceiver(rcv.n) /\ Len(out[rcv.n]) >= rcv.size
        /\ UNCHANGED <<disk, ann, snd, out, told, faulty>>
    BY <1>3 DEF ReceiveDone
  <2>2. rcv' \in [pc : {"accept", "done", "exit"}, n : 0 .. Files, size : 0 .. MaxSize] /\ rcv'.n = 0
    BY <2>1, PsionAssumption
  <2>3. rcv.size = ann[rcv.n]
    BY <1>1 DEF FileInv, Transfers, Receives
  <2>4. faulty' \subseteq File
    BY <1>1, <2>1 DEF PsionType
  <2> QED BY <1>1, <2>1, <2>2, <2>3, <2>4, ReceiverClosesInv
<1> QED BY <1>2, <1>3

(* The link takes a connection down: LinkBreaks and Refused. *)
LEMMA LinkClosesInv ==
  ASSUME PsionInv, NEW n \in File, Alive(n), ClosedByLink(n), faulty' = faulty \cup {n},
         UNCHANGED <<disk, ann, snd, rcv, out, told>>
  PROVE  PsionInv'
<1>1. PsionType
  BY DEF PsionInv
<1>2. PICK u \in Prefixes(conn[n].up), d \in Prefixes(conn[n].down) :
        conn' = [conn EXCEPT ![n] = [state |-> "closed", up |-> u, down |-> d]]
  BY DEF ClosedByLink, Closed
<1>3. conn[n].state # "none"
  BY DEF Alive
<1>4. conn' \in [File -> Connection] /\ FileInv(n)'
  BY <1>2, <1>3, FileCloses
<1>5. ASSUME NEW m \in File, m # n
      PROVE  FileInv(m)'
  <2>1. conn'[m] = conn[m]
    BY <1>1, <1>2, <1>5 DEF PsionType
  <2> QED BY <2>1, OtherFile
<1>6. PsionType'
  BY <1>1, <1>4 DEF PsionType
<1> QED BY <1>4, <1>5, <1>6 DEF PsionInv

(* Somebody writes to the file. *)
LEMMA FileChangesInv ==
  ASSUME PsionInv, FileChanges \/ UNCHANGED psVars
  PROVE  PsionInv'
<1>1. PsionType
  BY DEF PsionInv
<1>2. UNCHANGED <<ann, snd, rcv, conn, out, told, faulty>> /\ disk' \in [File -> 0 .. MaxSize]
  <2>1. CASE FileChanges
    BY <1>1, <2>1 DEF FileChanges, PsionType
  <2>2. CASE UNCHANGED psVars
    BY <1>1, <2>2 DEF psVars, PsionType
  <2> QED BY <2>1, <2>2
<1>3. PsionType'
  BY <1>1, <1>2 DEF PsionType
<1>4. ASSUME NEW m \in File PROVE FileInv(m)'
  BY <1>2, OtherFile
<1> QED BY <1>3, <1>4 DEF PsionInv

(* Every step keeps the invariant. *)
LEMMA PsionStep ==
  ASSUME PsionInv, [PsionNext]_psVars
  PROVE  PsionInv'
<1>1. CASE SenderStep
  BY <1>1, SendDiscoverInv, SendConnectInv, SendHeaderInv, SendAwaitAckInv, SendDataInv, SendLastInv
  DEF SenderStep
<1>2. CASE ReceiverStep
  BY <1>2, ReceiveAcceptInv, ReceiveHeaderInv, ReceiveAckInv, ReceiveDataInv, ReceiveDoneInv
  DEF ReceiverStep
<1>3. CASE LinkBreaks \/ Refused
  <2>1. PICK n \in File :
          /\ Alive(n) /\ ClosedByLink(n) /\ faulty' = faulty \cup {n}
          /\ UNCHANGED <<disk, ann, snd, rcv, out, told>>
    BY <1>3 DEF LinkBreaks, Refused, Alive
  <2> QED BY <2>1, LinkClosesInv
<1> QED BY <1>1, <1>2, <1>3, FileChangesInv DEF PsionNext

(* The invariant of the file transfer always holds. *)
LEMMA PsionInvariant == PsionSpec => []PsionInv
<1>1. PsionInv /\ [PsionNext]_psVars => PsionInv'
  BY PsionStep
<1> QED BY <1>1, PsionInitInv, PTL DEF PsionSpec

(***************************************************************************)
(* For every number and size of files, every buffer, every loss and every  *)
(* change of a file while it is sent: what the receiver stores is the      *)
(* beginning of that file (sendfile, handle_client).                       *)
(***************************************************************************)
THEOREM PsionReceivesPrefix == PsionSpec => []ReceivedPrefix
<1>1. PsionInv => ReceivedPrefix
  <2> SUFFICES ASSUME PsionInv, NEW n \in File
               PROVE  out[n] = Units(n, 0, Len(out[n])) /\ Len(out[n]) =< MaxSize
    BY DEF ReceivedPrefix
  <2>1. Stored(n, out[n]) /\ out[n] \in Seq(Item) /\ n \in Nat
    BY FileTypes DEF PsionInv, FileInv
  <2> QED BY <2>1, StoredUnits DEF Stored
<1> QED BY <1>1, PsionInvariant, PTL

(***************************************************************************)
(* A file reported as "Sent" whose connection did not fail is stored as    *)
(* far as it was announced, though the sender only sees that the other     *)
(* side has closed (sendfile, handle_client).                              *)
(***************************************************************************)
THEOREM PsionSentIsStored == PsionSpec => []SentIsStored
<1>1. PsionInv => SentIsStored
  <2> SUFFICES ASSUME PsionInv, NEW n \in told \ faulty
               PROVE  Len(out[n]) >= ann[n]
    BY DEF SentIsStored
  <2>1. n \in File /\ FileInv(n)
    BY DEF PsionInv, PsionType
  <2>2. n < snd.n /\ conn[n].state = "closed"
    BY <2>1 DEF FileInv, OneConnection
  <2>3. n # snd.n
    BY <2>1, <2>2, PsionAssumption DEF File
  <2> QED BY <2>1, <2>2, <2>3 DEF FileInv, ClosedIsStored, SendsFile
<1> QED BY <1>1, PsionInvariant, PTL
-----------------------------------------------------------------------------
(* irdaspray. *)
SpraySpec == SprayInit /\ [][SprayNext]_spVars

Stage == {"none", "wait", "auto", "ask", "connected", "running", "failed"}
Half == [pc : {"off", "run", "done"}, i : Nat, total : Int]
Child == [pc : {"none", "unforked", "recv", "send", "done"}, frame : Seq(Nat)]
Socket == [state : {"none", "open", "closed"}, up : Seq(Nat), down : Seq(Nat)]

(* The types of the variables the results are about. *)
SprayType ==
  /\ opt \in [echo : BOOLEAN, two : BOOLEAN, frames : Nat]
  /\ inst \in [Inst -> Stage]
  /\ tx \in [Inst -> Half] /\ rx \in [Inst -> Half]
  /\ child \in [Inst -> Child]
  /\ sock \in [Inst -> Socket]
  /\ broke \subseteq Inst

(***************************************************************************)
(* An instance at stage a with transmitter t, receiver r, the server's     *)
(* child c and connection s, which broke if b: nothing has been sent or    *)
(* accepted before it is connected, no one transmits or receives before it *)
(* runs, and a receiver at work has its connection, and has counted every  *)
(* frame in full, unless the connection broke.                             *)
(***************************************************************************)
Accounts(a, t, r, c, s, b) ==
  /\ a \in {"none", "wait", "auto", "ask"} => s = NoSock /\ c.pc = "none"
  /\ a # "running" => t = Off /\ r = Off
  /\ c.pc # "send" => c.frame = <<>>
  /\ a = "connected" => s.state = "open" \/ b
  /\ r.pc = "run" => s.state = "open" \/ b
  /\ b \/ r.total = r.i * FrameSize
  /\ r.pc = "done" => r.i = FrameNumber

(* The frames of s are those that follow the first a ones. *)
Follow(s, a) == \A j \in 1 .. Len(s) : s[j] = a + j

(* What is coming back, what the child holds and what is on its way follow *)
(* each other from the last frame received to the last one sent.           *)
Echoes(t, r, c, s) ==
  /\ Follow(s.down, r.i)
  /\ Follow(c.frame, r.i + Len(s.down))
  /\ Follow(s.up, r.i + Len(s.down) + Len(c.frame))
  /\ r.i + Len(s.down) + Len(c.frame) + Len(s.up) = t.i

InstInv(k) ==
  /\ Accounts(inst[k], tx[k], rx[k], child[k], sock[k], k \in broke)
  /\ opt.echo /\ Open(k) => Echoes(tx[k], rx[k], child[k], sock[k])

SprayInv == SprayType /\ \A k \in Inst : InstInv(k)
-----------------------------------------------------------------------------
(* Frames that follow each other. *)
LEMMA FollowAppend ==
  ASSUME NEW s \in Seq(Nat), NEW a \in Nat, Follow(s, a), NEW x \in Nat, x = a + Len(s) + 1
  PROVE  Append(s, x) \in Seq(Nat) /\ Len(Append(s, x)) = Len(s) + 1 /\ Follow(Append(s, x), a)
  BY DEF Follow

(* The first of such frames is taken away. *)
LEMMA FollowTail ==
  ASSUME NEW s \in Seq(Nat), NEW a \in Nat, Follow(s, a), s # <<>>
  PROVE  /\ Head(s) = a + 1 /\ Tail(s) \in Seq(Nat) /\ Len(Tail(s)) = Len(s) - 1
         /\ Follow(Tail(s), a + 1)
<1>1. /\ Tail(s) \in Seq(Nat) /\ Len(Tail(s)) = Len(s) - 1 /\ Len(s) \in Nat \ {0}
      /\ \A j \in 1 .. Len(Tail(s)) : Tail(s)[j] = s[j + 1]
  BY HeadTailProperties, EmptySeq
<1>2. Head(s) = s[1]
  OBVIOUS
<1>3. Head(s) = a + 1
  BY <1>1, <1>2 DEF Follow
<1>4. ASSUME NEW j \in 1 .. Len(Tail(s)) PROVE Tail(s)[j] = (a + 1) + j
  <2>1. j + 1 \in 1 .. Len(s) /\ a + (j + 1) = (a + 1) + j
    BY <1>1
  <2> QED BY <1>1, <2>1 DEF Follow
<1> QED BY <1>1, <1>3, <1>4 DEF Follow

(* Such frames behind each other. *)
LEMMA FollowJoin ==
  ASSUME NEW s \in Seq(Nat), NEW t \in Seq(Nat), NEW a \in Nat, Follow(s, a), Follow(t, a + Len(s))
  PROVE  s \o t \in Seq(Nat) /\ Len(s \o t) = Len(s) + Len(t) /\ Follow(s \o t, a)
<1>1. PICK v : v = s \o t
  OBVIOUS
<1>2. /\ v \in Seq(Nat) /\ Len(v) = Len(s) + Len(t)
      /\ \A j \in 1 .. Len(s) : v[j] = s[j]
      /\ \A j \in Len(s) + 1 .. Len(v) : v[j] = t[j - Len(s)]
  BY <1>1
<1>3. ASSUME NEW j \in 1 .. Len(v) PROVE v[j] = a + j
  <2>1. CASE j =< Len(s)
    <3>1. j \in 1 .. Len(s)
      BY <2>1
    <3> QED BY <1>2, <3>1 DEF Follow
  <2>2. CASE ~(j =< Len(s))
    <3>1. j \in Len(s) + 1 .. Len(v) /\ j - Len(s) \in 1 .. Len(t) /\ a + Len(s) + (j - Len(s)) = a + j
      BY <1>2, <2>2
    <3> QED BY <1>2, <3>1 DEF Follow
  <2> QED BY <2>1, <2>2
<1> QED BY <1>1, <1>2, <1>3 DEF Follow

(* Such frames complete those received before. *)
LEMMA FollowUpto ==
  ASSUME NEW s \in Seq(Nat), NEW a \in Nat, Follow(s, a)
  PROVE  Upto(a) \o s = Upto(a + Len(s))
<1>1. Upto(a) \in Seq(Nat) /\ Len(Upto(a)) = a /\ \A j \in 1 .. a : Upto(a)[j] = j
  BY DEF Upto
<1>2. Follow(Upto(a), 0) /\ Follow(s, 0 + Len(Upto(a)))
  BY <1>1 DEF Follow
<1>3. PICK v : v = Upto(a) \o s
  OBVIOUS
<1>4. v \in Seq(Nat) /\ Len(v) = a + Len(s) /\ Follow(v, 0)
  BY <1>1, <1>2, <1>3, FollowJoin
<1>5. v = [j \in 1 .. Len(v) |-> v[j]]
  BY <1>4
<1>6. \A j \in 1 .. Len(v) : v[j] = j
  BY <1>4 DEF Follow
<1> QED BY <1>3, <1>4, <1>5, <1>6 DEF Upto

(* No frames follow anything. *)
LEMMA FollowNothing == ASSUME NEW a \in Nat PROVE Follow(<<>>, a)
  BY DEF Follow
-----------------------------------------------------------------------------
(* Each of the four that pass frames on keeps them in order. *)
LEMMA EchoTransmit ==
  ASSUME NEW t \in Half, NEW r \in Half, NEW c \in Child, NEW s \in Socket, Echoes(t, r, c, s),
         NEW t2 \in Half, t2.i = t.i + 1,
         NEW s2 \in Socket, s2.up = Append(s.up, t.i + 1), s2.down = s.down
  PROVE  Echoes(t2, r, c, s2)
<1>1. PICK a \in Nat : a = r.i + Len(s.down) + Len(c.frame)
  BY DEF Half, Child, Socket
<1>2. s.up \in Seq(Nat) /\ t.i \in Nat /\ Follow(s.up, a) /\ t.i + 1 = a + Len(s.up) + 1
  BY <1>1 DEF Echoes, Half, Socket
<1>3. PICK x \in Nat : x = t.i + 1
  BY <1>2
<1>4. Len(Append(s.up, x)) = Len(s.up) + 1 /\ Follow(Append(s.up, x), a)
  BY <1>2, <1>3, FollowAppend
<1>5. Len(s2.up) = Len(s.up) + 1 /\ Follow(s2.up, a)
  BY <1>3, <1>4
<1> QED BY <1>1, <1>2, <1>5 DEF Echoes

(* The receiver takes the first frame that comes back. *)
LEMMA EchoReceive ==
  ASSUME NEW t \in Half, NEW r \in Half, NEW c \in Child, NEW s \in Socket, Echoes(t, r, c, s),
         s.down # <<>>, NEW r2 \in Half, r2.i = r.i + 1,
         NEW s2 \in Socket, s2.down = Tail(s.down), s2.up = s.up
  PROVE  Echoes(t, r2, c, s2)
<1>1. s.down \in Seq(Nat) /\ r.i \in Nat /\ Follow(s.down, r.i)
  BY DEF Echoes, Half, Socket
<1>2. Len(s2.down) = Len(s.down) - 1 /\ Follow(s2.down, r2.i)
  BY <1>1, FollowTail
<1>3. r2.i + Len(s2.down) = r.i + Len(s.down)
  <2>1. PICK l \in Nat : l = Len(s.down)
    BY <1>1
  <2>2. (r.i + 1) + (l - 1) = r.i + l
    BY <1>1, SMTT(60)
  <2> QED BY <1>2, <2>1, <2>2, Zenon
<1> QED BY <1>2, <1>3 DEF Echoes

(* The child takes the first frame on its way. *)
LEMMA EchoServerRecv ==
  ASSUME NEW t \in Half, NEW r \in Half, NEW c \in Child, NEW s \in Socket, Echoes(t, r, c, s),
         c.frame = <<>>, s.up # <<>>,
         NEW c2 \in Child, c2.frame = <<Head(s.up)>>,
         NEW s2 \in Socket, s2.up = Tail(s.up), s2.down = s.down
  PROVE  Echoes(t, r, c2, s2)
<1>1. PICK a \in Nat : a = r.i + Len(s.down)
  BY DEF Half, Socket
<1>2. s.up \in Seq(Nat) /\ Len(c.frame) = 0 /\ a + 0 = a
  BY <1>1 DEF Socket
<1>3. Follow(s.up, a) /\ a + Len(s.up) = t.i
  BY <1>1, <1>2 DEF Echoes
<1>4. Head(s.up) = a + 1 /\ Len(s2.up) = Len(s.up) - 1 /\ Follow(s2.up, a + 1)
  BY <1>2, <1>3, FollowTail
<1>5. Len(c2.frame) = 1 /\ Follow(c2.frame, a)
  <2>1. c2.frame = <<a + 1>>
    BY <1>4
  <2> QED BY <2>1 DEF Follow
<1>6. a + 1 + Len(s2.up) = t.i
  <2>1. PICK l \in Nat : l = Len(s.up)
    BY <1>2
  <2>2. a + 1 + (l - 1) = a + l
    OBVIOUS
  <2> QED BY <1>3, <1>4, <2>1, <2>2, Zenon
<1> QED BY <1>1, <1>4, <1>5, <1>6 DEF Echoes

(* The child sends back the frame it holds. *)
LEMMA EchoServerSend ==
  ASSUME NEW t \in Half, NEW r \in Half, NEW c \in Child, NEW s \in Socket, Echoes(t, r, c, s),
         NEW c2 \in Child, c2.frame = <<>>,
         NEW s2 \in Socket, s2.down = s.down \o c.frame, s2.up = s.up
  PROVE  Echoes(t, r, c2, s2)
<1>1. /\ s.down \in Seq(Nat) /\ c.frame \in Seq(Nat) /\ r.i \in Nat
      /\ Follow(s.down, r.i) /\ Follow(c.frame, r.i + Len(s.down))
  BY DEF Echoes, Half, Socket, Child
<1>2. Len(s2.down) = Len(s.down) + Len(c.frame) /\ Follow(s2.down, r.i)
  BY <1>1, FollowJoin
<1>3. Len(c2.frame) = 0
  OBVIOUS
<1>4. r.i + Len(s2.down) + Len(c2.frame) = r.i + Len(s.down) + Len(c.frame)
  <2>1. PICK l \in Nat, m \in Nat : l = Len(s.down) /\ m = Len(c.frame)
    BY <1>1
  <2>2. r.i + (l + m) + 0 = r.i + l + m
    BY <1>1
  <2> QED BY <1>2, <1>3, <2>1, <2>2, Zenon
<1>5. Follow(c2.frame, r.i + Len(s2.down))
  BY <1>3 DEF Follow
<1> QED BY <1>2, <1>4, <1>5 DEF Echoes

(* Only the counters, the frame held and the frames under way matter. *)
LEMMA EchoSame ==
  ASSUME NEW t, NEW r, NEW c, NEW s, Echoes(t, r, c, s), NEW t2, NEW r2, NEW c2, NEW s2,
         t2.i = t.i, r2.i = r.i, c2.frame = c.frame, s2.up = s.up, s2.down = s.down
  PROVE  Echoes(t2, r2, c2, s2)
  BY DEF Echoes

(* Before the first frame. *)
LEMMA EchoStarts ==
  ASSUME NEW t, NEW r, NEW c, NEW s,
         t.i = 0, r.i = 0, c.frame = <<>>, s.up = <<>>, s.down = <<>>
  PROVE  Echoes(t, r, c, s)
<1>1. Len(<<>>) = 0 /\ 0 + Len(<<>>) = 0 /\ 0 + Len(<<>>) + Len(<<>>) = 0
      /\ 0 + Len(<<>>) + Len(<<>>) + Len(<<>>) = 0
  OBVIOUS
<1> QED BY <1>1, FollowNothing, Zenon DEF Echoes

(* The types of what belongs to one instance. *)
LEMMA Fields ==
  ASSUME SprayType, NEW k \in Inst
  PROVE  /\ inst[k] \in Stage /\ tx[k] \in Half /\ rx[k] \in Half
         /\ child[k] \in Child /\ sock[k] \in Socket
  BY DEF SprayType

(* What is left of what was under way. *)
LEMMA PrefixNat ==
  ASSUME NEW u \in Seq(Nat), NEW v \in Prefixes(u)
  PROVE  v \in Seq(Nat)
  BY DEF Prefixes

(* No instance has connected. *)
LEMMA SprayInitInv == SprayInit => SprayInv
<1> SUFFICES ASSUME SprayInit PROVE SprayInv
  OBVIOUS
<1>1. <<>> \in Seq(Nat)
  OBVIOUS
<1>2. Off \in Half /\ NoSock \in Socket /\ [pc |-> "none", frame |-> <<>>] \in Child
  BY <1>1 DEF Off, NoSock, Half, Socket, Child
<1>3. SprayType
  <2>1. opt \in [echo : BOOLEAN, two : BOOLEAN, frames : Nat]
    BY SprayAssumption DEF SprayInit
  <2>2. inst \in [Inst -> Stage] /\ broke \subseteq Inst
    BY DEF SprayInit, Stage
  <2> QED BY <1>2, <2>1, <2>2 DEF SprayInit, SprayType
<1>4. ASSUME NEW k \in Inst PROVE InstInv(k)
  <2>1. /\ inst[k] \in {"none", "wait"} /\ tx[k] = Off /\ rx[k] = Off
        /\ child[k] = [pc |-> "none", frame |-> <<>>] /\ sock[k] = NoSock /\ k \notin broke
    BY DEF SprayInit
  <2>2. Off.pc = "off" /\ Off.i = 0 /\ Off.total = 0 /\ 0 = 0 * FrameSize /\ NoSock.state = "none"
    BY SprayAssumption DEF Off, NoSock
  <2> QED BY <2>1, <2>2 DEF InstInv, Accounts, Open
<1> QED BY <1>3, <1>4 DEF SprayInv

(* Counting a frame, and what send or recv returned for it. *)
LEMMA Counted ==
  ASSUME NEW h \in Half, NEW n \in Int
  PROVE  /\ [h EXCEPT !.i = @ + 1, !.total = @ + n] \in Half
         /\ [h EXCEPT !.i = @ + 1, !.total = @ + n].pc = h.pc
         /\ [h EXCEPT !.i = @ + 1, !.total = @ + n].i = h.i + 1
         /\ [h EXCEPT !.i = @ + 1, !.total = @ + n].total = h.total + n
<1>1. PICK i \in Nat, total \in Int : i = h.i + 1 /\ total = h.total + n
  BY DEF Half
<1>2. [h EXCEPT !.i = @ + 1, !.total = @ + n] = [h EXCEPT !.i = i, !.total = total]
  BY <1>1
<1> QED BY <1>1, <1>2 DEF Half

(* A step at one instance. *)
LEMMA AtInstance ==
  ASSUME SprayInv, NEW k \in Inst, UNCHANGED opt, broke \subseteq broke', broke' \subseteq broke \cup {k},
         \A m \in Inst \ {k} : /\ inst'[m] = inst[m] /\ tx'[m] = tx[m] /\ rx'[m] = rx[m]
                               /\ child'[m] = child[m] /\ sock'[m] = sock[m],
         inst' \in [Inst -> Stage], tx' \in [Inst -> Half], rx' \in [Inst -> Half],
         child' \in [Inst -> Child], sock' \in [Inst -> Socket],
         InstInv(k)'
  PROVE  SprayInv'
<1>1. SprayType'
  BY DEF SprayInv, SprayType
<1>2. ASSUME NEW m \in Inst, m # k PROVE InstInv(m)'
  <2>1. InstInv(m) /\ (m \in broke' <=> m \in broke)
    BY <1>2 DEF SprayInv
  <2>2. /\ inst'[m] = inst[m] /\ tx'[m] = tx[m] /\ rx'[m] = rx[m]
        /\ child'[m] = child[m] /\ sock'[m] = sock[m]
    BY <1>2
  <2>3. opt.echo' /\ Open(m)' => Echoes(tx[m], rx[m], child[m], sock[m])'
    <3>1. opt.echo' /\ Open(m)' => Echoes(tx[m], rx[m], child[m], sock[m])
      BY <2>1, <2>2 DEF InstInv, Open
    <3> QED BY <2>2, <3>1 DEF Echoes, Follow
  <2>4. Accounts(inst[m], tx[m], rx[m], child[m], sock[m], m \in broke)'
    BY <2>1, <2>2 DEF InstInv, Accounts, FrameNumber, Off, NoSock
  <2> QED BY <2>3, <2>4 DEF InstInv
<1> QED BY <1>1, <1>2 DEF SprayInv
-----------------------------------------------------------------------------
(* A connection ends.  Whoever still receives on it sees it break. *)
LEMMA SockClosesInst ==
  ASSUME SprayInv, NEW k \in Inst, SockCloses(k)
  PROVE  /\ sock' \in [Inst -> Socket]
         /\ sock'[k].state = "closed"
         /\ \A m \in Inst \ {k} : sock'[m] = sock[m]
<1>1. sock \in [Inst -> Socket] /\ sock[k] \in Socket
  BY DEF SprayInv, SprayType
<1>2. PICK u \in Prefixes(sock[k].up), d \in Prefixes(sock[k].down) :
        sock' = [sock EXCEPT ![k] = [state |-> "closed", up |-> u, down |-> d]]
  BY DEF SockCloses
<1>3. sock[k].up \in Seq(Nat) /\ sock[k].down \in Seq(Nat)
  BY <1>1 DEF Socket
<1>4. u \in Seq(Nat) /\ d \in Seq(Nat)
  BY <1>3, PrefixNat
<1>5. [state |-> "closed", up |-> u, down |-> d] \in Socket
  BY <1>4 DEF Socket
<1> QED BY <1>1, <1>2, <1>5

(* The stages of irdaspray_connect_request. *)
LEMMA ConnectStages ==
  ASSUME SprayInv, NEW k \in Inst, inst[k] \in {"wait", "auto", "ask"},
         NEW a \in {"auto", "ask", "failed", "connected"},
         inst' = [inst EXCEPT ![k] = a],
         sock' = IF a = "connected" THEN [sock EXCEPT ![k].state = "open"] ELSE sock,
         UNCHANGED <<opt, tx, rx, child, broke>>
  PROVE  SprayInv'
<1>1. SprayType /\ InstInv(k)
  BY DEF SprayInv
<1>2. /\ sock[k] = NoSock /\ child[k].pc = "none" /\ child[k].frame = <<>>
      /\ tx[k] = Off /\ rx[k] = Off
  BY <1>1 DEF InstInv, Accounts
<1>3. inst'[k] = a /\ inst' \in [Inst -> Stage] /\ \A m \in Inst \ {k} : inst'[m] = inst[m]
  BY <1>1 DEF SprayType, Stage
<1>4. /\ sock'[k].state = (IF a = "connected" THEN "open" ELSE "none")
      /\ sock'[k].up = <<>> /\ sock'[k].down = <<>> /\ (a # "connected" => sock'[k] = NoSock)
      /\ sock' \in [Inst -> Socket] /\ \A m \in Inst \ {k} : sock'[m] = sock[m]
  <2>1. CASE a = "connected"
    <3>1. PICK s : s = [sock[k] EXCEPT !.state = "open"]
      OBVIOUS
    <3>2. sock' = [sock EXCEPT ![k] = s] /\ sock[k] \in Socket
      BY <1>1, <2>1, <3>1 DEF SprayType
    <3>3. s \in Socket /\ s.state = "open" /\ s.up = <<>> /\ s.down = <<>>
      <4>1. s \in Socket /\ s.state = "open" /\ s.up = sock[k].up /\ s.down = sock[k].down
        BY <3>1, <3>2 DEF Socket
      <4>2. NoSock.up = <<>> /\ NoSock.down = <<>>
        BY DEF NoSock
      <4> QED BY <1>2, <4>1, <4>2
    <3> QED BY <1>1, <2>1, <3>2, <3>3 DEF SprayType
  <2>2. CASE a # "connected"
    BY <1>1, <1>2, <2>2 DEF SprayType, NoSock
  <2> QED BY <2>1, <2>2
<1>5. Echoes(tx[k], rx[k], child[k], sock[k])'
  <2>1. Echoes(tx'[k], rx'[k], child'[k], sock'[k])
    <3>1. tx'[k].i = 0 /\ rx'[k].i = 0 /\ child'[k].frame = <<>>
      BY <1>2 DEF Off
    <3> QED BY <1>4, <3>1, EchoStarts
  <2> QED BY <2>1 DEF Echoes, Follow
<1>6. Accounts(inst[k], tx[k], rx[k], child[k], sock[k], k \in broke)'
  BY <1>1, <1>2, <1>3, <1>4 DEF InstInv, Accounts, Off, FrameNumber
<1>7. InstInv(k)'
  BY <1>5, <1>6 DEF InstInv
<1> QED BY <1>1, <1>3, <1>4, <1>7, AtInstance DEF SprayType

(* An instance connects. *)
LEMMA ConnectInv ==
  ASSUME SprayInv, NEW k \in Inst, WaitDevice(k) \/ AutoConnect(k) \/ AskUser(k)
  PROVE  SprayInv'
<1>1. CASE WaitDevice(k)
  BY <1>1, ConnectStages DEF WaitDevice
<1>2. CASE AutoConnect(k) \/ AskUser(k)
  <2>1. inst[k] \in {"wait", "auto", "ask"} /\ UNCHANGED <<opt, tx, rx, child, broke>>
    BY <1>2 DEF AutoConnect, AskUser
  <2>2. \E a \in {"auto", "ask", "failed", "connected"} :
          /\ inst' = [inst EXCEPT ![k] = a]
          /\ sock' = IF a = "connected" THEN [sock EXCEPT ![k].state = "open"] ELSE sock
    BY <1>2 DEF AutoConnect, AskUser, Connected, ConnectFails
  <2> QED BY <2>1, <2>2, ConnectStages
<1> QED BY <1>1, <1>2

(* The client forks its second instance, or cannot. *)
LEMMA ForkSecondInv ==
  ASSUME SprayInv, ForkSecond
  PROVE  SprayInv'
<1>1. SprayType /\ InstInv(1) /\ InstInv(2) /\ inst[1] = "connected" /\ inst[2] = "none"
  BY DEF SprayInv, ForkSecond, Inst
<1>2. UNCHANGED <<opt, tx, rx, child, broke>>
  BY DEF ForkSecond
<1>3. /\ inst' \in [Inst -> Stage] /\ inst'[2] = "wait" /\ sock' \in [Inst -> Socket] /\ sock'[2] = sock[2]
      /\ \/ inst'[1] = inst[1] /\ sock'[1] = sock[1]
         \/ inst'[1] = "failed" /\ sock'[1].state = "closed"
  <2>1. CASE inst' = [inst EXCEPT ![2] = "wait"] /\ UNCHANGED sock
    BY <1>1, <2>1 DEF SprayType, Stage, Inst
  <2>2. CASE inst' = [inst EXCEPT ![1] = "failed", ![2] = "wait"] /\ SockCloses(1)
    <3>1. 1 \in Inst /\ 2 \in Inst \ {1}
      BY DEF Inst
    <3>2. sock' \in [Inst -> Socket] /\ sock'[1].state = "closed" /\ sock'[2] = sock[2]
      BY <2>2, <3>1, SockClosesInst
    <3> QED BY <1>1, <2>2, <3>1, <3>2 DEF SprayType, Stage
  <2> QED BY <2>1, <2>2 DEF ForkSecond
<1>4. SprayType'
  BY <1>1, <1>2, <1>3 DEF SprayType
<1>5. InstInv(2)'
  <2>1. ~Open(2)'
    BY <1>1, <1>3 DEF InstInv, Accounts, NoSock, Open
  <2> QED BY <1>1, <1>2, <1>3, <2>1 DEF InstInv, Accounts, FrameNumber, Off, NoSock
<1>6. InstInv(1)'
  <2>1. Accounts(inst[1], tx[1], rx[1], child[1], sock[1], 1 \in broke)'
    BY <1>1, <1>2, <1>3 DEF InstInv, Accounts, FrameNumber, Off, NoSock
  <2>2. opt.echo' /\ Open(1)' => Echoes(tx[1], rx[1], child[1], sock[1])'
    <3>1. opt.echo' /\ Open(1)' => sock'[1] = sock[1] /\ Echoes(tx[1], rx[1], child[1], sock[1])
      BY <1>1, <1>2, <1>3 DEF InstInv, Open
    <3> QED BY <1>2, <3>1 DEF Echoes, Follow
  <2> QED BY <2>1, <2>2 DEF InstInv
<1> QED BY <1>4, <1>5, <1>6 DEF SprayInv, Inst

(* An instance forks its transmitter, or cannot. *)
LEMMA ForkTransmitterInv ==
  ASSUME SprayInv, NEW k \in Inst, ForkTransmitter(k)
  PROVE  SprayInv'
<1>1. SprayType /\ InstInv(k) /\ inst[k] = "connected"
  BY DEF SprayInv, ForkTransmitter
<1>2. UNCHANGED <<opt, child, sock, broke>>
  BY DEF ForkTransmitter
<1>3. tx[k] = Off /\ rx[k] = Off /\ (sock[k].state = "open" \/ k \in broke)
  BY <1>1 DEF InstInv, Accounts
<1>4. inst'[k] = "running" /\ inst' \in [Inst -> Stage] /\ \A m \in Inst \ {k} : inst'[m] = inst[m]
  BY <1>1 DEF ForkTransmitter, SprayType, Stage
<1>5. /\ rx' \in [Inst -> Half] /\ rx'[k].pc \in {"run", "off"} /\ rx'[k].i = 0 /\ rx'[k].total = 0
      /\ \A m \in Inst \ {k} : rx'[m] = rx[m]
  <2>1. PICK r : r = [rx[k] EXCEPT !.pc = IF opt.echo THEN "run" ELSE "off"]
    OBVIOUS
  <2>2. rx' = [rx EXCEPT ![k] = r]
    BY <2>1 DEF ForkTransmitter
  <2>3. r \in Half /\ r.pc \in {"run", "off"} /\ r.i = 0 /\ r.total = 0
    BY <1>3, <2>1 DEF Off, Half
  <2> QED BY <1>1, <2>2, <2>3 DEF SprayType
<1>6. /\ tx' \in [Inst -> Half] /\ tx'[k].i = 0 /\ \A m \in Inst \ {k} : tx'[m] = tx[m]
  <2>1. CASE tx' = [tx EXCEPT ![k].pc = "run"]
    <3>1. PICK t : t = [tx[k] EXCEPT !.pc = "run"]
      OBVIOUS
    <3>2. tx' = [tx EXCEPT ![k] = t]
      BY <2>1, <3>1
    <3>3. t \in Half /\ t.i = 0
      BY <1>3, <3>1 DEF Off, Half
    <3> QED BY <1>1, <3>2, <3>3 DEF SprayType
  <2>2. CASE UNCHANGED tx
    BY <1>1, <1>3, <2>2 DEF SprayType, Off
  <2> QED BY <2>1, <2>2 DEF ForkTransmitter
<1>7. Accounts(inst[k], tx[k], rx[k], child[k], sock[k], k \in broke)'
  <2>1. 0 = 0 * FrameSize
    BY SprayAssumption
  <2> QED BY <1>1, <1>2, <1>3, <1>4, <1>5, <2>1 DEF InstInv, Accounts, FrameNumber
<1>8. opt.echo' /\ Open(k)' => Echoes(tx[k], rx[k], child[k], sock[k])'
  <2>1. opt.echo' /\ Open(k)' => Echoes(tx[k], rx[k], child[k], sock[k])
    BY <1>1, <1>2 DEF InstInv, Open
  <2>2. Off.i = 0
    BY DEF Off
  <2>3. opt.echo' /\ Open(k)' => Echoes(tx'[k], rx'[k], child[k], sock[k])
    BY <1>3, <1>5, <1>6, <2>1, <2>2, EchoSame
  <2> QED BY <1>2, <2>3 DEF Echoes, Follow
<1>9. InstInv(k)'
  BY <1>7, <1>8 DEF InstInv
<1> QED BY <1>1, <1>2, <1>4, <1>5, <1>6, <1>9, AtInstance DEF SprayType

(* A frame is sent, or the send fails. *)
LEMMA TransmitInv ==
  ASSUME SprayInv, NEW k \in Inst, Transmit(k)
  PROVE  SprayInv'
<1>1. SprayType /\ InstInv(k) /\ tx[k].pc = "run" /\ tx[k] \in Half /\ sock[k] \in Socket
  BY DEF SprayInv, SprayType, Transmit
<1>2. UNCHANGED <<opt, inst, rx, child, broke>> /\ inst[k] = "running"
  BY <1>1 DEF Transmit, InstInv, Accounts, Off
<1>3. ASSUME NEW t \in Half, tx' = [tx EXCEPT ![k] = t],
             NEW s \in Socket, sock' = [sock EXCEPT ![k] = s], s.state = sock[k].state,
             Open(k) => t.i = tx[k].i + 1 /\ s.up = Append(sock[k].up, tx[k].i + 1) /\ s.down = sock[k].down
      PROVE  SprayInv'
  <2>1. tx'[k] = t /\ sock'[k] = s /\ tx' \in [Inst -> Half] /\ sock' \in [Inst -> Socket]
    BY <1>1, <1>3 DEF SprayType
  <2>2. Accounts(inst[k], tx[k], rx[k], child[k], sock[k], k \in broke)'
    BY <1>1, <1>2, <1>3, <2>1 DEF InstInv, Accounts, FrameNumber, Off, NoSock
  <2>3. opt.echo' /\ Open(k)' => Echoes(tx[k], rx[k], child[k], sock[k])'
    <3>1. rx[k] \in Half /\ child[k] \in Child
      BY <1>1, Fields
    <3>2. opt.echo' /\ Open(k)' => opt.echo /\ Open(k)
      BY <1>2, <1>3, <2>1 DEF Open
    <3>3. opt.echo' /\ Open(k)' => Echoes(t, rx[k], child[k], s)
      BY <1>1, <1>3, <3>1, <3>2, EchoTransmit DEF InstInv
    <3> QED BY <1>2, <2>1, <3>3 DEF Echoes, Follow
  <2>4. InstInv(k)'
    BY <2>2, <2>3 DEF InstInv
  <2>5. \A m \in Inst \ {k} : tx'[m] = tx[m] /\ sock'[m] = sock[m]
    BY <1>1, <1>3 DEF SprayType
  <2> QED BY <1>1, <1>2, <2>1, <2>4, <2>5, AtInstance DEF SprayType
<1>4. CASE Open(k) /\ sock' = [sock EXCEPT ![k].up = Append(@, tx[k].i + 1)]
           /\ tx' = [tx EXCEPT ![k].i = @ + 1, ![k].total = @ + FrameSize]
  <2>1. PICK t, s : /\ t = [tx[k] EXCEPT !.i = @ + 1, !.total = @ + FrameSize]
                    /\ s = [sock[k] EXCEPT !.up = Append(@, tx[k].i + 1)]
    OBVIOUS
  <2>2. tx' = [tx EXCEPT ![k] = t] /\ sock' = [sock EXCEPT ![k] = s]
    BY <1>1, <1>4, <2>1 DEF SprayType
  <2>3. t \in Half /\ t.i = tx[k].i + 1
    <3>1. PICK n \in Int : n = FrameSize
      BY SprayAssumption
    <3>2. t = [tx[k] EXCEPT !.i = @ + 1, !.total = @ + n]
      BY <2>1, <3>1
    <3> QED BY <1>1, <3>2, Counted
  <2>4. s \in Socket /\ s.state = sock[k].state /\ s.up = Append(sock[k].up, tx[k].i + 1)
        /\ s.down = sock[k].down
    <3>1. Append(sock[k].up, tx[k].i + 1) \in Seq(Nat)
      BY <1>1 DEF Half, Socket
    <3> QED BY <1>1, <2>1, <3>1 DEF Socket
  <2> QED BY <1>3, <2>2, <2>3, <2>4
<1>5. CASE ~Open(k) /\ UNCHANGED sock
  <2>1. sock' = [sock EXCEPT ![k] = sock[k]]
    BY <1>1, <1>5 DEF SprayType
  <2>2. \E t \in Half : tx' = [tx EXCEPT ![k] = t]
    <3>1. CASE tx' = [tx EXCEPT ![k].i = @ + 1, ![k].total = @ - 1]
      <4>1. PICK n \in Int : n = -1
        OBVIOUS
      <4>2. tx[k].total - 1 = tx[k].total + n
        BY <1>1, <4>1 DEF Half
      <4>3. [tx[k] EXCEPT !.i = @ + 1, !.total = @ - 1] \in Half
        <5>1. [tx[k] EXCEPT !.i = @ + 1, !.total = @ + n] \in Half
          BY <1>1, Counted
        <5> QED BY <4>2, <5>1
      <4> QED BY <1>1, <3>1, <4>3 DEF SprayType
    <3>2. CASE tx' = [tx EXCEPT ![k].pc = "done"]
      <4>1. [tx[k] EXCEPT !.pc = "done"] \in Half
        BY <1>1 DEF Half
      <4> QED BY <1>1, <3>2, <4>1 DEF SprayType
    <3> QED BY <1>5, <3>1, <3>2 DEF Transmit
  <2> QED BY <1>1, <1>3, <1>5, <2>1, <2>2
<1> QED BY <1>4, <1>5 DEF Transmit

(* A process of an instance ends, and the connection with the last one. *)
LEMMA HalfEnds ==
  ASSUME SprayInv, NEW k \in Inst, inst[k] = "running", Exits(k),
         UNCHANGED <<opt, inst, child, broke>>,
         NEW t \in Half, tx' = [tx EXCEPT ![k] = t], t.i = tx[k].i,
         NEW r \in Half, rx' = [rx EXCEPT ![k] = r], r.i = rx[k].i, r.total = rx[k].total,
         r.pc = rx[k].pc \/ (r.pc = "done" /\ r.i = FrameNumber)
  PROVE  SprayInv'
<1>1. SprayType /\ InstInv(k)
  BY DEF SprayInv
<1>2. /\ tx'[k] = t /\ rx'[k] = r /\ tx' \in [Inst -> Half] /\ rx' \in [Inst -> Half]
      /\ \A m \in Inst \ {k} : tx'[m] = tx[m] /\ rx'[m] = rx[m]
  BY <1>1 DEF SprayType
<1>3. /\ sock' \in [Inst -> Socket] /\ \A m \in Inst \ {k} : sock'[m] = sock[m]
      /\ sock'[k] = sock[k] \/ (sock'[k].state = "closed" /\ r.pc # "run")
  <2>1. CASE Open(k) /\ InstanceGone(k)
    BY <1>2, <2>1, SockClosesInst DEF Exits, InstanceGone
  <2>2. CASE UNCHANGED sock
    BY <1>1, <2>2 DEF SprayType
  <2> QED BY <2>1, <2>2 DEF Exits
<1>4. Accounts(inst[k], tx[k], rx[k], child[k], sock[k], k \in broke)'
  BY <1>1, <1>2, <1>3 DEF InstInv, Accounts, FrameNumber
<1>5. opt.echo' /\ Open(k)' => Echoes(tx[k], rx[k], child[k], sock[k])'
  <2>1. opt.echo' /\ Open(k)' => sock'[k] = sock[k] /\ Echoes(tx[k], rx[k], child[k], sock[k])
    BY <1>1, <1>3 DEF InstInv, Open
  <2>2. opt.echo' /\ Open(k)' => Echoes(t, r, child[k], sock'[k])
    BY <2>1, EchoSame
  <2> QED BY <1>2, <2>2 DEF Echoes, Follow
<1>6. InstInv(k)'
  BY <1>4, <1>5 DEF InstInv
<1> QED BY <1>1, <1>2, <1>3, <1>6, AtInstance DEF SprayType

(* A transmitter or a receiver has done its frames. *)
LEMMA EndInv ==
  ASSUME SprayInv, NEW k \in Inst, TransmitEnd(k) \/ ReceiveEnd(k)
  PROVE  SprayInv'
<1>1. SprayType /\ InstInv(k) /\ tx[k] \in Half /\ rx[k] \in Half
  BY DEF SprayInv, SprayType
<1>2. inst[k] = "running" /\ Exits(k) /\ UNCHANGED <<opt, inst, child, broke>>
  BY <1>1 DEF TransmitEnd, ReceiveEnd, InstInv, Accounts, Off
<1>3. CASE TransmitEnd(k)
  <2>1. PICK t : t = [tx[k] EXCEPT !.pc = "done"]
    OBVIOUS
  <2>2. t \in Half /\ t.i = tx[k].i
    BY <1>1, <2>1 DEF Half
  <2>3. tx' = [tx EXCEPT ![k] = t] /\ rx' = [rx EXCEPT ![k] = rx[k]]
    BY <1>1, <1>3, <2>1 DEF TransmitEnd, SprayType
  <2> QED BY <1>1, <1>2, <2>2, <2>3, HalfEnds
<1>4. CASE ReceiveEnd(k)
  <2>1. PICK r : r = [rx[k] EXCEPT !.pc = "done"]
    OBVIOUS
  <2>2. r \in Half /\ r.i = rx[k].i /\ r.total = rx[k].total /\ r.pc = "done" /\ r.i = FrameNumber
    BY <1>1, <1>4, <2>1 DEF Half, ReceiveEnd
  <2>3. rx' = [rx EXCEPT ![k] = r] /\ tx' = [tx EXCEPT ![k] = tx[k]]
    BY <1>1, <1>4, <2>1 DEF ReceiveEnd, SprayType
  <2> QED BY <1>1, <1>2, <2>2, <2>3, HalfEnds
<1> QED BY <1>3, <1>4

(* A frame is received, or the receive fails. *)
LEMMA ReceiveInv ==
  ASSUME SprayInv, NEW k \in Inst, Receive(k)
  PROVE  SprayInv'
<1>1. SprayType /\ InstInv(k) /\ rx[k].pc = "run" /\ rx[k] \in Half /\ sock[k] \in Socket
  BY DEF SprayInv, SprayType, Receive
<1>2. UNCHANGED <<opt, inst, tx, child, broke>> /\ inst[k] = "running"
  BY <1>1 DEF Receive, InstInv, Accounts, Off
<1>3. ASSUME NEW n \in Int, NEW r, r = [rx[k] EXCEPT !.i = @ + 1, !.total = @ + n],
             rx' = [rx EXCEPT ![k] = r],
             NEW s \in Socket, sock' = [sock EXCEPT ![k] = s], s.state = sock[k].state,
             n = FrameSize \/ k \in broke,
             Open(k) => sock[k].down # <<>> /\ s.down = Tail(sock[k].down) /\ s.up = sock[k].up
      PROVE  SprayInv'
  <2>1. r \in Half /\ r.pc = "run" /\ r.i = rx[k].i + 1 /\ r.total = rx[k].total + n
    BY <1>1, <1>3, Counted
  <2>2. rx'[k] = r /\ sock'[k] = s /\ rx' \in [Inst -> Half] /\ sock' \in [Inst -> Socket]
    BY <1>1, <1>3, <2>1 DEF SprayType
  <2>3. k \in broke \/ r.total = r.i * FrameSize
    <3>1. PICK i \in Nat, f \in Nat : i = rx[k].i /\ f = FrameSize
      BY <1>1, SprayAssumption DEF Half
    <3>2. i * f + f = (i + 1) * f
      OBVIOUS
    <3>3. k \in broke \/ rx[k].total = i * f
      BY <1>1, <3>1 DEF InstInv, Accounts
    <3> QED BY <1>3, <2>1, <3>1, <3>2, <3>3
  <2>4. Accounts(inst[k], tx[k], rx[k], child[k], sock[k], k \in broke)'
    BY <1>1, <1>2, <1>3, <2>1, <2>2, <2>3 DEF InstInv, Accounts, FrameNumber
  <2>5. opt.echo' /\ Open(k)' => Echoes(tx[k], rx[k], child[k], sock[k])'
    <3>1. tx[k] \in Half /\ child[k] \in Child
      BY <1>1, Fields
    <3>2. opt.echo' /\ Open(k)' => opt.echo /\ Open(k)
      BY <1>2, <1>3, <2>2 DEF Open
    <3>3. opt.echo' /\ Open(k)' => Echoes(tx[k], r, child[k], s)
      BY <1>1, <1>3, <2>1, <3>1, <3>2, EchoReceive DEF InstInv
    <3> QED BY <1>2, <2>2, <3>3 DEF Echoes, Follow
  <2>6. InstInv(k)'
    BY <2>4, <2>5 DEF InstInv
  <2>7. \A m \in Inst \ {k} : rx'[m] = rx[m] /\ sock'[m] = sock[m]
    BY <1>1, <1>3 DEF SprayType
  <2> QED BY <1>1, <1>2, <2>2, <2>6, <2>7, AtInstance DEF SprayType
<1>4. CASE sock[k].down # <<>> /\ sock' = [sock EXCEPT ![k].down = Tail(@)]
           /\ rx' = [rx EXCEPT ![k].i = @ + 1, ![k].total = @ + FrameSize]
  <2>1. PICK s : s = [sock[k] EXCEPT !.down = Tail(@)]
    OBVIOUS
  <2>2. s \in Socket /\ s.state = sock[k].state /\ s.down = Tail(sock[k].down) /\ s.up = sock[k].up
    <3>1. Tail(sock[k].down) \in Seq(Nat)
      BY <1>1, <1>4, HeadTailProperties DEF Socket
    <3> QED BY <1>1, <2>1, <3>1 DEF Socket
  <2>3. sock' = [sock EXCEPT ![k] = s]
    BY <1>1, <1>4, <2>1 DEF SprayType
  <2>4. PICK n \in Int : n = FrameSize
    BY SprayAssumption
  <2>5. PICK r : r = [rx[k] EXCEPT !.i = @ + 1, !.total = @ + n]
    OBVIOUS
  <2>6. rx' = [rx EXCEPT ![k] = r]
    BY <1>1, <1>4, <2>4, <2>5 DEF SprayType
  <2> QED BY <1>3, <1>4, <2>2, <2>3, <2>4, <2>5, <2>6
<1>5. CASE ~Open(k) /\ UNCHANGED sock
           /\ \E actual \in {0, -1} : rx' = [rx EXCEPT ![k].i = @ + 1, ![k].total = @ + actual]
  <2>1. sock' = [sock EXCEPT ![k] = sock[k]]
    BY <1>1, <1>5 DEF SprayType
  <2>2. k \in broke
    BY <1>1, <1>5 DEF InstInv, Accounts, Open
  <2>3. PICK actual \in {0, -1} : rx' = [rx EXCEPT ![k].i = @ + 1, ![k].total = @ + actual]
    BY <1>5
  <2>4. PICK n \in Int : n = actual
    BY <2>3
  <2>5. PICK r : r = [rx[k] EXCEPT !.i = @ + 1, !.total = @ + n]
    OBVIOUS
  <2>6. rx' = [rx EXCEPT ![k] = r]
    BY <1>1, <2>3, <2>4, <2>5 DEF SprayType
  <2> QED BY <1>1, <1>3, <1>5, <2>1, <2>2, <2>5, <2>6
<1> QED BY <1>4, <1>5 DEF Receive
-----------------------------------------------------------------------------
(* The server: a child has a connection only once it was accepted. *)
LEMMA ServerAcceptInv ==
  ASSUME SprayInv, ServerAccept
  PROVE  SprayInv'
<1>1. SprayType /\ UNCHANGED <<opt, inst, tx, rx, sock, broke>>
  BY DEF SprayInv, ServerAccept
<1>2. CASE UNCHANGED child
  <2>1. UNCHANGED <<opt, inst, tx, rx, child, sock, broke>>
    BY <1>1, <1>2
  <2> QED BY <2>1 DEF SprayInv, SprayType, InstInv, Accounts, Echoes, Follow, Open, FrameNumber, Off, NoSock
<1>3. ASSUME NEW k \in Inst, Open(k), child[k].pc = "none",
             NEW pc \in {"recv", "unforked"}, child' = [child EXCEPT ![k].pc = pc]
      PROVE  SprayInv'
  <2>1. PICK c : c = [child[k] EXCEPT !.pc = pc]
    OBVIOUS
  <2>2. child[k] \in Child /\ InstInv(k)
    BY <1>1, <1>3, Fields DEF SprayInv
  <2>3. c \in Child /\ c.pc = pc /\ c.frame = child[k].frame
    BY <2>1, <2>2 DEF Child
  <2>4. /\ child'[k] = c /\ child' \in [Inst -> Child] /\ \A m \in Inst \ {k} : child'[m] = child[m]
    BY <1>1, <1>3, <2>1, <2>3 DEF SprayType
  <2>5. Accounts(inst[k], tx[k], rx[k], child[k], sock[k], k \in broke)'
    BY <1>1, <1>3, <2>2, <2>3, <2>4 DEF InstInv, Accounts, FrameNumber, NoSock, Open
  <2>6. opt.echo' /\ Open(k)' => Echoes(tx[k], rx[k], child[k], sock[k])'
    <3>1. opt.echo' /\ Open(k)' => Echoes(tx[k], rx[k], child[k], sock[k])
      BY <1>1, <2>2 DEF InstInv, Open
    <3>2. opt.echo' /\ Open(k)' => Echoes(tx[k], rx[k], c, sock[k])
      BY <2>3, <3>1, EchoSame
    <3> QED BY <1>1, <2>4, <3>2 DEF Echoes, Follow
  <2>7. InstInv(k)'
    BY <2>5, <2>6 DEF InstInv
  <2> QED BY <1>1, <1>3, <2>4, <2>7, AtInstance DEF SprayType
<1> QED BY <1>2, <1>3 DEF ServerAccept

(* A child of the server at work; the frames go through its hands. *)
LEMMA ChildWorks ==
  ASSUME SprayInv, NEW k \in Inst, child[k].pc \in {"recv", "send"},
         UNCHANGED <<opt, inst, tx, rx, broke>>,
         NEW c \in Child, child' = [child EXCEPT ![k] = c], c.pc # "send" => c.frame = <<>>,
         NEW s \in Socket, sock' = [sock EXCEPT ![k] = s], s.state = sock[k].state,
         opt.echo /\ Open(k) /\ Echoes(tx[k], rx[k], child[k], sock[k])
           => Echoes(tx[k], rx[k], c, s)
  PROVE  SprayInv'
<1>1. SprayType /\ InstInv(k)
  BY DEF SprayInv
<1>2. /\ child'[k] = c /\ sock'[k] = s /\ child' \in [Inst -> Child] /\ sock' \in [Inst -> Socket]
      /\ \A m \in Inst \ {k} : child'[m] = child[m] /\ sock'[m] = sock[m]
  BY <1>1 DEF SprayType
<1>3. Accounts(inst[k], tx[k], rx[k], child[k], sock[k], k \in broke)'
  BY <1>1, <1>2 DEF InstInv, Accounts, FrameNumber
<1>4. opt.echo' /\ Open(k)' => Echoes(tx[k], rx[k], child[k], sock[k])'
  <2>1. opt.echo' /\ Open(k)' => Echoes(tx[k], rx[k], c, s)
    BY <1>1, <1>2 DEF InstInv, Open
  <2> QED BY <1>2, <2>1 DEF Echoes, Follow
<1>5. InstInv(k)'
  BY <1>3, <1>4 DEF InstInv
<1> QED BY <1>1, <1>2, <1>5, AtInstance DEF SprayType

(* The child of the server receives a frame, or the end. *)
LEMMA ServerRecvInv ==
  ASSUME SprayInv, NEW k \in Inst, ServerRecv(k)
  PROVE  SprayInv'
<1>1. SprayType /\ InstInv(k) /\ child[k].pc = "recv" /\ child[k].frame = <<>>
  BY DEF SprayInv, ServerRecv, InstInv, Accounts
<1>2. tx[k] \in Half /\ rx[k] \in Half /\ child[k] \in Child /\ sock[k] \in Socket
  BY <1>1, Fields
<1>3. UNCHANGED <<opt, inst, tx, rx, broke>>
  BY DEF ServerRecv
<1>4. CASE /\ sock[k].up # <<>> /\ sock' = [sock EXCEPT ![k].up = Tail(@)]
           /\ child' = [child EXCEPT ![k] = IF opt.echo
                          THEN [pc |-> "send", frame |-> <<Head(sock[k].up)>>] ELSE @]
  <2>1. PICK s : s = [sock[k] EXCEPT !.up = Tail(@)]
    OBVIOUS
  <2>2. s \in Socket /\ s.state = sock[k].state /\ s.up = Tail(sock[k].up) /\ s.down = sock[k].down
    <3>1. Tail(sock[k].up) \in Seq(Nat)
      BY <1>2, <1>4, HeadTailProperties DEF Socket
    <3> QED BY <1>2, <2>1, <3>1 DEF Socket
  <2>3. sock' = [sock EXCEPT ![k] = s]
    BY <1>1, <1>4, <2>1 DEF SprayType
  <2>4. CASE opt.echo
    <3>1. PICK c : c = [pc |-> "send", frame |-> <<Head(sock[k].up)>>]
      OBVIOUS
    <3>2. c \in Child /\ c.pc = "send" /\ c.frame = <<Head(sock[k].up)>>
      <4>1. Head(sock[k].up) \in Nat
        BY <1>2, <1>4, HeadTailProperties DEF Socket
      <4>2. <<Head(sock[k].up)>> \in Seq(Nat)
        BY <4>1
      <4> QED BY <3>1, <4>2 DEF Child
    <3>3. child' = [child EXCEPT ![k] = c]
      BY <1>4, <2>4, <3>1
    <3>4. Echoes(tx[k], rx[k], child[k], sock[k]) => Echoes(tx[k], rx[k], c, s)
      BY <1>1, <1>2, <1>4, <2>2, <3>2, EchoServerRecv
    <3> QED BY <1>1, <1>3, <2>2, <2>3, <3>2, <3>3, <3>4, ChildWorks
  <2>5. CASE ~opt.echo
    <3>1. child' = [child EXCEPT ![k] = child[k]]
      BY <1>1, <1>4, <2>5 DEF SprayType
    <3> QED BY <1>1, <1>2, <1>3, <2>2, <2>3, <2>5, <3>1, ChildWorks
  <2> QED BY <2>4, <2>5
<1>5. CASE ~Open(k) /\ UNCHANGED sock /\ child' = [child EXCEPT ![k].pc = "done"]
  <2>1. PICK c : c = [child[k] EXCEPT !.pc = "done"]
    OBVIOUS
  <2>2. c \in Child /\ c.frame = <<>>
    BY <1>1, <1>2, <2>1 DEF Child
  <2>3. child' = [child EXCEPT ![k] = c] /\ sock' = [sock EXCEPT ![k] = sock[k]]
    BY <1>1, <1>5, <2>1 DEF SprayType
  <2> QED BY <1>1, <1>2, <1>3, <1>5, <2>2, <2>3, ChildWorks
<1> QED BY <1>4, <1>5 DEF ServerRecv

(* The child of the server sends a frame back, or cannot. *)
LEMMA ServerSendInv ==
  ASSUME SprayInv, NEW k \in Inst, ServerSend(k)
  PROVE  SprayInv'
<1>1. SprayType /\ InstInv(k) /\ child[k].pc = "send"
  BY DEF SprayInv, ServerSend
<1>2. tx[k] \in Half /\ rx[k] \in Half /\ child[k] \in Child /\ sock[k] \in Socket
  BY <1>1, Fields
<1>3. UNCHANGED <<opt, inst, tx, rx, broke>>
  BY DEF ServerSend
<1>4. ASSUME NEW pc \in {"recv", "done"} PROVE [pc |-> pc, frame |-> <<>>] \in Child
  <2>1. <<>> \in Seq(Nat)
    OBVIOUS
  <2> QED BY <2>1 DEF Child
<1>5. CASE /\ sock' = [sock EXCEPT ![k].down = @ \o child[k].frame]
           /\ child' = [child EXCEPT ![k] = [pc |-> "recv", frame |-> <<>>]]
  <2>1. PICK s : s = [sock[k] EXCEPT !.down = @ \o child[k].frame]
    OBVIOUS
  <2>2. /\ s \in Socket /\ s.state = sock[k].state /\ s.up = sock[k].up
        /\ s.down = sock[k].down \o child[k].frame
    <3>1. sock[k].down \o child[k].frame \in Seq(Nat)
      BY <1>2 DEF Socket, Child
    <3> QED BY <1>2, <2>1, <3>1 DEF Socket
  <2>3. sock' = [sock EXCEPT ![k] = s]
    BY <1>1, <1>5, <2>1 DEF SprayType
  <2>4. PICK c : c = [pc |-> "recv", frame |-> <<>>]
    OBVIOUS
  <2>5. c \in Child /\ c.frame = <<>> /\ child' = [child EXCEPT ![k] = c]
    BY <1>4, <1>5, <2>4
  <2>6. Echoes(tx[k], rx[k], child[k], sock[k]) => Echoes(tx[k], rx[k], c, s)
    BY <1>2, <2>2, <2>5, EchoServerSend
  <2> QED BY <1>1, <1>3, <2>2, <2>3, <2>5, <2>6, ChildWorks
<1>6. CASE ~Open(k) /\ UNCHANGED sock /\ child' = [child EXCEPT ![k] = [pc |-> "done", frame |-> <<>>]]
  <2>1. PICK c : c = [pc |-> "done", frame |-> <<>>]
    OBVIOUS
  <2>2. c \in Child /\ c.frame = <<>> /\ child' = [child EXCEPT ![k] = c]
    BY <1>4, <1>6, <2>1
  <2>3. sock' = [sock EXCEPT ![k] = sock[k]]
    BY <1>1, <1>6 DEF SprayType
  <2> QED BY <1>1, <1>2, <1>3, <1>6, <2>2, <2>3, ChildWorks, ZenonT(60)
<1> QED BY <1>5, <1>6 DEF ServerSend

(* A connection goes down under its users. *)
LEMMA BreaksInv ==
  ASSUME SprayInv, NEW k \in Inst, Breaks(k)
  PROVE  SprayInv'
<1>1. SprayType /\ InstInv(k) /\ Open(k) /\ UNCHANGED <<opt, inst, tx, rx, child>>
  BY DEF SprayInv, Breaks
<1>2. /\ sock' \in [Inst -> Socket] /\ sock'[k].state = "closed"
      /\ \A m \in Inst \ {k} : sock'[m] = sock[m]
  BY SockClosesInst DEF Breaks
<1>3. broke \subseteq broke' /\ broke' \subseteq broke \cup {k} /\ k \in broke'
  BY DEF Breaks
<1>4. inst[k] \notin {"none", "wait", "auto", "ask"}
  BY <1>1 DEF InstInv, Accounts, Open, NoSock
<1>5. Accounts(inst[k], tx[k], rx[k], child[k], sock[k], k \in broke)'
  BY <1>1, <1>3, <1>4 DEF InstInv, Accounts, FrameNumber, Off
<1>6. InstInv(k)'
  BY <1>2, <1>5 DEF InstInv, Open
<1> QED BY <1>1, <1>2, <1>3, <1>6, AtInstance DEF SprayType

(* Every step keeps the invariant. *)
LEMMA SprayStep == SprayInv /\ [SprayNext]_spVars => SprayInv'
<1> SUFFICES ASSUME SprayInv, [SprayNext]_spVars PROVE SprayInv'
  OBVIOUS
<1>1. CASE UNCHANGED spVars
  BY <1>1 DEF spVars, SprayInv, SprayType, InstInv, Accounts, Echoes, Follow, Open, FrameNumber, Off, NoSock
<1>2. CASE ForkSecond \/ ServerAccept
  BY <1>2, ForkSecondInv, ServerAcceptInv
<1>3. ASSUME NEW k \in Inst, InstanceStep(k) \/ TransmitterStep(k) PROVE SprayInv'
  BY <1>3, ConnectInv, ForkTransmitterInv, ReceiveInv, TransmitInv, EndInv DEF InstanceStep, TransmitterStep
<1>4. ASSUME NEW k \in Inst, ChildStep(k) \/ Breaks(k) PROVE SprayInv'
  BY <1>4, ServerRecvInv, ServerSendInv, BreaksInv DEF ChildStep, Unaccepted
<1> QED BY <1>1, <1>2, <1>3, <1>4 DEF SprayNext

(* The invariant of irdaspray always holds. *)
LEMMA SprayInvariant == SpraySpec => []SprayInv
<1> QED BY SprayInitInv, SprayStep, PTL DEF SpraySpec
-----------------------------------------------------------------------------
(* However long the frames and the sockets are, whenever which process     *)
(* runs: while a connection of the echo service is up, no frame that       *)
(* irdaspray_transmit sent is lost, doubled or overtaken on its way through*)
(* the server and back to irdaspray_receive.                               *)
THEOREM SprayEchoConserved == SpraySpec => []EchoConserved
<1>1. SprayInv => EchoConserved
  <2> SUFFICES ASSUME SprayInv, NEW k \in Inst, opt.echo, Open(k)
               PROVE  Upto(rx[k].i) \o sock[k].down \o child[k].frame \o sock[k].up = Upto(tx[k].i)
    BY DEF EchoConserved
  <2>1. SprayType /\ Echoes(tx[k], rx[k], child[k], sock[k])
    BY DEF SprayInv, InstInv
  <2>2. PICK a \in Nat, d \in Seq(Nat), f \in Seq(Nat), u \in Seq(Nat) :
          a = rx[k].i /\ d = sock[k].down /\ f = child[k].frame /\ u = sock[k].up
    BY <2>1, Fields DEF Half, Child, Socket
  <2>3. /\ Follow(d, a) /\ Follow(f, a + Len(d)) /\ Follow(u, a + Len(d) + Len(f))
        /\ a + Len(d) + Len(f) + Len(u) = tx[k].i
    BY <2>1, <2>2, Zenon DEF Echoes
  <2>4. a + Len(d) \in Nat /\ a + Len(d) + Len(f) \in Nat
    OBVIOUS
  <2>5. Upto(a) \o d = Upto(a + Len(d))
    BY <2>3, FollowUpto
  <2>6. Upto(a + Len(d)) \o f = Upto(a + Len(d) + Len(f))
    BY <2>3, <2>4, FollowUpto
  <2>7. Upto(a + Len(d) + Len(f)) \o u = Upto(a + Len(d) + Len(f) + Len(u))
    BY <2>3, <2>4, FollowUpto
  <2> QED BY <2>2, <2>3, <2>5, <2>6, <2>7, Zenon
<1> QED BY <1>1, SprayInvariant, PTL

(* An instance whose connection did not break reports, when it is done,    *)
(* every byte it was to send as received: the count of irdaspray_receive   *)
(* is frame_number times frame_size, though its transmitter may have ended *)
(* long before, in a process of its own that shared the socket.            *)
THEOREM SprayReceivedTotal == SpraySpec => []ReceivedTotal
<1>1. SprayInv => ReceivedTotal
  BY DEF SprayInv, InstInv, Accounts, ReceivedTotal
<1> QED BY <1>1, SprayInvariant, PTL
===============================================================================
