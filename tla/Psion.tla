-------------------------------- MODULE Psion --------------------------------
(***************************************************************************)
(* psion/irpsion5.c on both ends of a link: irpsion5 -s f1 f2 ... sends    *)
(* files, irpsion5 -r or -b receives them.  A file is announced with its   *)
(* size, acknowledged, and then streamed; the receiver closes when it has  *)
(* as much as was announced, and the sender waits for that.                *)
(*                                                                         *)
(* The transport (external) is a stream with flow control: what is written *)
(* arrives in order, in pieces of any size, or not at all once the         *)
(* connection is broken.  Unit i of file n is <<n, i>>.  Not modelled: the *)
(* date of a file, its attributes, progress output.                        *)
(***************************************************************************)
EXTENDS Integers, Sequences, FiniteSets, SequencesExt

CONSTANTS Files,      \* number of files on the command line
          MaxSize,    \* bound on the size of a file
          MaxChange,  \* bound on what its size changes by while it is sent
          BufLen,     \* what one read or write moves at most (2044 bytes)
          Cap,        \* what the transport takes before a writer blocks
          Batch       \* the receiver was started with -b

ASSUME PsionAssumption ==
  /\ Files \in Nat /\ MaxSize \in Nat /\ MaxChange \in Nat /\ BufLen \in Nat \ {0} /\ Cap \in Nat
  /\ BufLen =< Cap /\ Batch \in BOOLEAN

VARIABLES disk,    \* the size of every file at present
          ann,     \* the size announced for every file
          snd,     \* the sender: [pc, n, pos, try], n the file
          rcv,     \* the receiver: [pc, n, size], n the connection it has accepted
          conn,    \* the connection made for every file: [state, up, down]
          out,     \* what the receiver has written, per file
          told,    \* the files the sender has reported as "Sent"
          faulty   \* the files whose connection or receiver has failed

psVars == <<disk, ann, snd, rcv, conn, out, told, faulty>>

File == 1 .. Files
Tries == 5
Units(n, from, to) == [i \in 1 .. to - from |-> <<n, from + i>>]
NoConn == [state |-> "none", up |-> <<>>, down |-> <<>>]
Sender(n) == [pc |-> IF n =< Files THEN "discover" ELSE "done", n |-> n, pos |-> 0, try |-> 0]

PsionInit ==
  /\ disk \in [File -> 0 .. MaxSize] /\ ann = disk
  /\ snd = Sender(1)
  /\ rcv = [pc |-> "accept", n |-> 0, size |-> 0]
  /\ conn = [n \in File |-> NoConn]
  /\ out = [n \in File |-> <<>>] /\ told = {} /\ faulty = {}

Alive(n) == conn[n].state \in {"pending", "open"}
Running(r) == r.pc \notin {"exit", "done"}

(* A connection ends; of what has not been read of it a part may be lost.  *)
(* The one that closes it reads no more.                                   *)
Closed(n, ups, downs) ==
  \E u \in ups, d \in downs : conn' = [conn EXCEPT ![n] = [state |-> "closed", up |-> u, down |-> d]]
ClosedBySender(n) == Closed(n, Prefixes(conn[n].up), {<<>>})
ClosedByReceiver(n) == Closed(n, {<<>>}, Prefixes(conn[n].down))
ClosedByLink(n) == Closed(n, Prefixes(conn[n].up), Prefixes(conn[n].down))

(* exit(): the kernel closes the connection of the process. *)
SenderExits ==
  /\ snd' = [snd EXCEPT !.pc = "exit"]
  /\ IF Alive(snd.n) THEN ClosedBySender(snd.n) ELSE UNCHANGED conn
  /\ UNCHANGED <<disk, ann, rcv, out, told, faulty>>
ReceiverExits ==
  /\ rcv' = [rcv EXCEPT !.pc = "exit"]
  /\ ClosedByReceiver(rcv.n)
  /\ faulty' = faulty \cup {rcv.n}
  /\ UNCHANGED <<disk, ann, snd, out, told>>
-----------------------------------------------------------------------------
(* discover_devices: the devices are asked for up to five times, while the *)
(* answer is EAGAIN or the first one is empty.  After five such answers    *)
(* the list that is used was never filled in.                              *)
SendDiscover ==
  /\ snd.pc = "discover"
  /\ \/ /\ snd.try < Tries
        /\ snd' = [snd EXCEPT !.try = @ + 1]
        /\ UNCHANGED <<disk, ann, rcv, conn, out, told, faulty>>
     \/ /\ snd' = [snd EXCEPT !.pc = "connect"]
        /\ UNCHANGED <<disk, ann, rcv, conn, out, told, faulty>>
     \/ SenderExits

(* sendfile: the service of the device is connected to. *)
SendConnect ==
  /\ snd.pc = "connect"
  /\ \/ SenderExits
     \/ /\ Running(rcv)
        /\ conn' = [conn EXCEPT ![snd.n] = [NoConn EXCEPT !.state = "pending"]]
        /\ snd' = [snd EXCEPT !.pc = "header"]
        /\ UNCHANGED <<disk, ann, rcv, out, told, faulty>>

(* The file is opened, its size is looked up and announced. *)
SendHeader ==
  /\ snd.pc = "header"
  /\ \/ SenderExits
     \/ /\ Alive(snd.n)
        /\ snd' = [snd EXCEPT !.pc = "ack"]
        /\ ann' = [ann EXCEPT ![snd.n] = disk[snd.n]]
        /\ conn' = [conn EXCEPT ![snd.n].up = <<[name |-> snd.n, size |-> disk[snd.n]]>>]
        /\ UNCHANGED <<disk, rcv, out, told, faulty>>

SendAwaitAck ==
  /\ snd.pc = "ack"
  /\ \/ /\ conn[snd.n].down = <<"ACK Y">>
        /\ snd' = [snd EXCEPT !.pc = "data"]
        /\ conn' = [conn EXCEPT ![snd.n].down = <<>>]
        /\ UNCHANGED <<disk, ann, rcv, out, told, faulty>>
     \/ conn[snd.n].down = <<>> /\ ~Alive(snd.n) /\ SenderExits

(* fread fills the buffer unless the file ends. *)
FRead ==
  IF disk[snd.n] < snd.pos THEN 0
  ELSE IF disk[snd.n] - snd.pos < BufLen THEN disk[snd.n] - snd.pos ELSE BufLen

(* Mutant: after a short write the whole buffer is written again. *)
SendDataRepeats ==
  /\ snd.pc = "data"
  /\ FRead > 0 => Alive(snd.n) /\ Len(conn[snd.n].up) + FRead =< Cap
  /\ \E k \in {FRead, FRead \div 2} :
       /\ conn' = [conn EXCEPT ![snd.n].up = @ \o Units(snd.n, snd.pos, snd.pos + k)]
       /\ snd' = IF k < FRead THEN snd
                 ELSE [snd EXCEPT !.pos = @ + k, !.pc = IF k < BufLen THEN "last" ELSE "data"]
  /\ UNCHANGED <<disk, ann, rcv, out, told, faulty>>

(* write takes all that was read, and waits until there is room, or fails. *)
SendData ==
  /\ snd.pc = "data"
  /\ \/ /\ FRead > 0 => Alive(snd.n) /\ Len(conn[snd.n].up) + FRead =< Cap
        /\ conn' = [conn EXCEPT ![snd.n].up = @ \o Units(snd.n, snd.pos, snd.pos + FRead)]
        /\ snd' = [snd EXCEPT !.pos = @ + FRead, !.pc = IF FRead < BufLen THEN "last" ELSE "data"]
        /\ UNCHANGED <<disk, ann, rcv, out, told, faulty>>
     \/ ~Alive(snd.n) /\ SenderExits

(* Mutant: the sender does not wait for the other side to close. *)
SendLastHasty ==
  /\ snd.pc = "last"
  /\ told' = told \cup {snd.n}
  /\ snd' = Sender(snd.n + 1)
  /\ IF Alive(snd.n) THEN ClosedBySender(snd.n) ELSE UNCHANGED conn
  /\ UNCHANGED <<disk, ann, rcv, out, faulty>>

(* The other side has closed: "Sent".  A broken connection may look the    *)
(* same.  Then the next file of the command line (main).                   *)
SendLast ==
  /\ snd.pc = "last" /\ ~Alive(snd.n)
  /\ \/ /\ told' = told \cup {snd.n}
        /\ snd' = Sender(snd.n + 1)
        /\ UNCHANGED <<disk, ann, rcv, conn, out, faulty>>
     \/ snd.n \in faulty /\ SenderExits
-----------------------------------------------------------------------------
(* receivefile: listen, accept. *)
ReceiveAccept ==
  /\ rcv.pc = "accept"
  /\ \E n \in File :
       /\ conn[n].state = "pending"
       /\ conn' = [conn EXCEPT ![n].state = "open"]
       /\ rcv' = [pc |-> "header", n |-> n, size |-> 0]
  /\ UNCHANGED <<disk, ann, snd, out, told, faulty>>

(* handle_client: the header is read and the file is created. *)
ReceiveHeader ==
  /\ rcv.pc = "header"
  /\ \/ /\ conn[rcv.n].up # <<>>
        /\ rcv' = [rcv EXCEPT !.pc = "ack", !.size = Head(conn[rcv.n].up).size]
        /\ out' = [out EXCEPT ![rcv.n] = <<>>]
        /\ conn' = [conn EXCEPT ![rcv.n].up = Tail(@)]
        /\ UNCHANGED <<disk, ann, snd, told, faulty>>
     \/ (conn[rcv.n].up # <<>> \/ ~Alive(rcv.n)) /\ ReceiverExits

ReceiveAck ==
  /\ rcv.pc = "ack"
  /\ \/ /\ Alive(rcv.n)
        /\ conn' = [conn EXCEPT ![rcv.n].down = <<"ACK Y">>]
        /\ rcv' = [rcv EXCEPT !.pc = "data"]
        /\ UNCHANGED <<disk, ann, snd, out, told, faulty>>
     \/ ~Alive(rcv.n) /\ ReceiverExits

(* A read gives what there is, as far as the buffer takes it; the loop is  *)
(* over when there is as much as announced, or more.  fwrite may fail.     *)
ReceiveData ==
  /\ rcv.pc = "data"
  /\ Len(out[rcv.n]) < rcv.size
  /\ \/ \E k \in 1 .. BufLen :
          /\ k =< Len(conn[rcv.n].up)
          /\ out' = [out EXCEPT ![rcv.n] = @ \o SubSeq(conn[rcv.n].up, 1, k)]
          /\ conn' = [conn EXCEPT ![rcv.n].up = SubSeq(@, k + 1, Len(@))]
          /\ UNCHANGED <<disk, ann, snd, rcv, told, faulty>>
     \/ (conn[rcv.n].up # <<>> \/ ~Alive(rcv.n)) /\ ReceiverExits

(* Mutant: the end is a file of exactly the size announced. *)
ReceiveDoneExact ==
  /\ rcv.pc = "data"
  /\ Len(out[rcv.n]) = rcv.size
  /\ rcv' = [pc |-> IF Batch THEN "accept" ELSE "done", n |-> 0, size |-> 0]
  /\ ClosedByReceiver(rcv.n)
  /\ UNCHANGED <<disk, ann, snd, out, told, faulty>>

(* "Received": the file and the connection are closed, what is still on    *)
(* its way is dropped; with -b the next client is awaited.                 *)
ReceiveDone ==
  /\ rcv.pc = "data"
  /\ Len(out[rcv.n]) >= rcv.size
  /\ \/ /\ rcv' = [pc |-> IF Batch THEN "accept" ELSE "done", n |-> 0, size |-> 0]
        /\ ClosedByReceiver(rcv.n)
        /\ UNCHANGED <<disk, ann, snd, out, told, faulty>>
     \/ ReceiverExits
-----------------------------------------------------------------------------
(* The environment: the link breaks, a connection no one will accept is    *)
(* refused, the file that is being sent changes.                           *)
LinkBreaks ==
  \E n \in File :
    /\ Alive(n)
    /\ ClosedByLink(n) /\ faulty' = faulty \cup {n}
    /\ UNCHANGED <<disk, ann, snd, rcv, out, told>>

Refused ==
  \E n \in File :
    /\ conn[n].state = "pending" /\ ~Running(rcv)
    /\ ClosedByLink(n) /\ faulty' = faulty \cup {n}
    /\ UNCHANGED <<disk, ann, snd, rcv, out, told>>

FileChanges ==
  /\ snd.pc \in {"ack", "data"}
  /\ \E size \in 0 .. MaxSize :
       /\ size \in ann[snd.n] - MaxChange .. ann[snd.n] + MaxChange
       /\ disk' = [disk EXCEPT ![snd.n] = size]
  /\ UNCHANGED <<ann, snd, rcv, conn, out, told, faulty>>

SenderStep == SendDiscover \/ SendConnect \/ SendHeader \/ SendAwaitAck \/ SendData \/ SendLast
ReceiverStep == ReceiveAccept \/ ReceiveHeader \/ ReceiveAck \/ ReceiveData \/ ReceiveDone
PsionNext == SenderStep \/ ReceiverStep \/ LinkBreaks \/ Refused \/ FileChanges
-----------------------------------------------------------------------------
(* What the receiver has of a file are the first units of that file, in    *)
(* order and without a gap, whatever breaks, in whatever pieces it comes   *)
(* (the loops of sendfile and handle_client).                              *)
ReceivedPrefix ==
  \A n \in File : out[n] = Units(n, 0, Len(out[n])) /\ Len(out[n]) =< MaxSize

(* Of a file the sender reports as "Sent" all that was announced is        *)
(* stored, unless its connection broke or the receiver gave up.  (Then it  *)
(* need not be: sendfile takes end of file and EPERM for a success.)       *)
SentIsStored == \A n \in told \ faulty : Len(out[n]) >= ann[n]

(* The two do not wait for each other for ever: the sender comes to an     *)
(* end, unless a file shrinks after it was announced (then the receiver    *)
(* waits for data and the sender for the end of the connection).           *)
SenderEnds == <>(~Running(snd) \/ \E n \in File : disk[n] < ann[n])
=============================================================================
