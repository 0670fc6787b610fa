-------------------------------- MODULE Spray --------------------------------
(***************************************************************************)
(* irsockets/irdaspray.c: the client, one or two instances of it (-t), and *)
(* the server they send frames to.  The server gives every connection to a *)
(* child of its own.  With the echo service an instance is two processes,  *)
(* one that transmits and one that receives; with the discard service it   *)
(* is one.                                                                 *)
(*                                                                         *)
(* Sockets (external) are SEQPACKET over a flow-controlled link: send      *)
(* waits while SockCap frames are under way, recv waits for a frame, both  *)
(* fail once the connection is gone.  Frame i of an instance is i.         *)
(***************************************************************************)
EXTENDS Naturals, Integers, Sequences, FiniteSets, SequencesExt

CONSTANTS Options,       \* command lines of the client: [echo, two, frames]
          FrameSize,     \* -b
          SockCap,       \* frames a socket takes in one direction
          MaxFds         \* connections the listening process can hold open

ASSUME SprayAssumption ==
  /\ Options \subseteq [echo : BOOLEAN, two : BOOLEAN, frames : Nat] /\ FrameSize \in Nat \ {0}
  /\ SockCap \in Nat \ {0} /\ MaxFds \in Nat

VARIABLES opt,     \* the options the client was started with
          inst,    \* where every instance is in irdaspray_connect_request
          tx,      \* the transmitter of every instance: [pc, i, total]
          rx,      \* the receiver of every instance: [pc, i, total]
          child,   \* the server's child for every connection: [pc, frame]
          sock,    \* every connection: [state, up, down]
          listen,  \* the listening process runs
          fds,     \* the descriptors it has open for connections
          broke,   \* connections that went down before the client was done
          nofork   \* some fork() has failed

spVars == <<opt, inst, tx, rx, child, sock, listen, fds, broke, nofork>>

Inst == {1, 2}
NoSock == [state |-> "none", up |-> <<>>, down |-> <<>>]
FrameNumber == opt.frames
Off == [pc |-> "off", i |-> 0, total |-> 0]

SprayInit ==
  /\ opt \in Options
  /\ inst = [k \in Inst |-> IF k = 1 THEN "wait" ELSE "none"]
  /\ tx = [k \in Inst |-> Off] /\ rx = [k \in Inst |-> Off]
  /\ child = [k \in Inst |-> [pc |-> "none", frame |-> <<>>]]
  /\ sock = [k \in Inst |-> NoSock]
  /\ listen = TRUE /\ fds \in 0 .. MaxFds
  /\ broke = {} /\ nofork = FALSE

Open(k) == sock[k].state = "open"

(* A connection ends; what has not been read of it may be lost. *)
SockCloses(k) ==
  \E u \in Prefixes(sock[k].up), d \in Prefixes(sock[k].down) :
    sock' = [sock EXCEPT ![k] = [state |-> "closed", up |-> u, down |-> d]]

(* The last process of an instance is gone, and its socket with it. *)
InstanceGone(k) == tx'[k].pc # "run" /\ rx'[k].pc \in {"off", "done"}
Exits(k) == IF Open(k) /\ InstanceGone(k) THEN SockCloses(k) ELSE UNCHANGED sock
-----------------------------------------------------------------------------
(* irdaspray_connect_request.  waitfor_device: a device is there, or one   *)
(* comes, or nothing does for 30 seconds.                                  *)
WaitDevice(k) ==
  /\ inst[k] = "wait"
  /\ \E pc \in {"auto", "failed"} : inst' = [inst EXCEPT ![k] = pc]
  /\ UNCHANGED <<opt, tx, rx, child, sock, listen, fds, broke, nofork>>

Connected(k) ==
  /\ listen
  /\ inst' = [inst EXCEPT ![k] = "connected"]
  /\ sock' = [sock EXCEPT ![k].state = "open"]
ConnectFails(k) == inst' = [inst EXCEPT ![k] = "failed"] /\ UNCHANGED sock

(* Auto-connect works when exactly one device has the service. *)
AutoConnect(k) ==
  /\ inst[k] = "auto"
  /\ \/ Connected(k)
     \/ ConnectFails(k)
     \/ inst' = [inst EXCEPT ![k] = "ask"] /\ UNCHANGED sock
  /\ UNCHANGED <<opt, tx, rx, child, listen, fds, broke, nofork>>

(* discover_devices, and the device the user names is connected to. *)
AskUser(k) ==
  /\ inst[k] = "ask"
  /\ Connected(k) \/ ConnectFails(k)
  /\ UNCHANGED <<opt, tx, rx, child, listen, fds, broke, nofork>>

(* -t: the child keeps the first connection, the parent closes its side of *)
(* it and makes a second one.  A fork that fails leaves only the parent.   *)
ForkSecond ==
  /\ inst[1] = "connected" /\ opt.two /\ inst[2] = "none"
  /\ \/ inst' = [inst EXCEPT ![2] = "wait"] /\ UNCHANGED <<sock, nofork>>
     \/ /\ inst' = [inst EXCEPT ![1] = "failed", ![2] = "wait"]
        /\ SockCloses(1) /\ nofork' = TRUE
  /\ UNCHANGED <<opt, tx, rx, child, listen, fds, broke>>

(* ir_client: the transmitter of the echo client is a child; the receiver  *)
(* is the parent, and does its part also when there is no child.           *)
ForkTransmitter(k) ==
  /\ inst[k] = "connected" /\ (k = 1 /\ opt.two => inst[2] # "none")
  /\ inst' = [inst EXCEPT ![k] = "running"]
  /\ rx' = [rx EXCEPT ![k].pc = IF opt.echo THEN "run" ELSE "off"]
  /\ \/ tx' = [tx EXCEPT ![k].pc = "run"] /\ UNCHANGED nofork
     \/ opt.echo /\ nofork' = TRUE /\ UNCHANGED tx
  /\ UNCHANGED <<opt, child, sock, listen, fds, broke>>

(* irdaspray_transmit.  On a connection that is gone send returns -1, which *)
(* is added to the total, or raises SIGPIPE.                               *)
Transmit(k) ==
  /\ tx[k].pc = "run" /\ tx[k].i < FrameNumber
  /\ \/ /\ Open(k) /\ Len(sock[k].up) < SockCap
        /\ sock' = [sock EXCEPT ![k].up = Append(@, tx[k].i + 1)]
        /\ tx' = [tx EXCEPT ![k].i = @ + 1, ![k].total = @ + FrameSize]
     \/ ~Open(k) /\ UNCHANGED sock /\ tx' = [tx EXCEPT ![k].i = @ + 1, ![k].total = @ - 1]
     \/ ~Open(k) /\ UNCHANGED sock /\ tx' = [tx EXCEPT ![k].pc = "done"]
  /\ UNCHANGED <<opt, inst, rx, child, listen, fds, broke, nofork>>

(* Mutant: the transmitter's exit takes the connection down. *)
TransmitEndCloses(k) ==
  /\ tx[k].pc = "run" /\ tx[k].i = FrameNumber
  /\ tx' = [tx EXCEPT ![k].pc = "done"]
  /\ IF Open(k) THEN SockCloses(k) ELSE UNCHANGED sock
  /\ UNCHANGED <<opt, inst, rx, child, listen, fds, broke, nofork>>

(* "Transmitted" *)
TransmitEnd(k) ==
  /\ tx[k].pc = "run" /\ tx[k].i = FrameNumber
  /\ tx' = [tx EXCEPT ![k].pc = "done"]
  /\ UNCHANGED rx
  /\ Exits(k)
  /\ UNCHANGED <<opt, inst, child, listen, fds, broke, nofork>>

(* Mutant: one process, which transmits and then receives. *)
ReceiveAfter(k) ==
  /\ rx[k].pc = "run" /\ rx[k].i < FrameNumber /\ tx[k].pc = "done"
  /\ \/ /\ sock[k].down # <<>>
        /\ sock' = [sock EXCEPT ![k].down = Tail(@)]
        /\ rx' = [rx EXCEPT ![k].i = @ + 1, ![k].total = @ + FrameSize]
     \/ /\ sock[k].down = <<>> /\ ~Open(k) /\ UNCHANGED sock
        /\ rx' = [rx EXCEPT ![k].i = @ + 1]
  /\ UNCHANGED <<opt, inst, tx, child, listen, fds, broke, nofork>>

(* irdaspray_receive *)
Receive(k) ==
  /\ rx[k].pc = "run" /\ rx[k].i < FrameNumber
  /\ \/ /\ sock[k].down # <<>>
        /\ sock' = [sock EXCEPT ![k].down = Tail(@)]
        /\ rx' = [rx EXCEPT ![k].i = @ + 1, ![k].total = @ + FrameSize]
     \/ /\ sock[k].down = <<>> /\ ~Open(k) /\ UNCHANGED sock
        /\ \E actual \in {0, -1} : rx' = [rx EXCEPT ![k].i = @ + 1, ![k].total = @ + actual]
  /\ UNCHANGED <<opt, inst, tx, child, listen, fds, broke, nofork>>

(* wait(), for the transmitter; for the parent of two instances the other  *)
(* one will do as well.  Then "Received".                                  *)
InstanceEnded(k) ==
  inst[k] = "failed" \/ (inst[k] = "running" /\ (IF opt.echo THEN rx ELSE tx)[k].pc = "done")
ReceiveEnd(k) ==
  /\ rx[k].pc = "run" /\ rx[k].i = FrameNumber
  /\ tx[k].pc # "run" \/ (k = 2 /\ InstanceEnded(1))
  /\ rx' = [rx EXCEPT ![k].pc = "done"] /\ UNCHANGED tx
  /\ Exits(k)
  /\ UNCHANGED <<opt, inst, child, listen, fds, broke, nofork>>
-----------------------------------------------------------------------------
(* ir_server.  The listening process never closes what it has accepted; at *)
(* its limit accept fails, and it returns.                                 *)
ServerAccept ==
  /\ listen
  /\ \E k \in Inst :
       /\ Open(k) /\ child[k].pc = "none"
       /\ \/ /\ fds < MaxFds /\ fds' = fds + 1 /\ UNCHANGED listen
             /\ \/ child' = [child EXCEPT ![k].pc = "recv"] /\ UNCHANGED nofork
                \/ child' = [child EXCEPT ![k].pc = "unforked"] /\ nofork' = TRUE
          \/ fds = MaxFds /\ listen' = FALSE /\ UNCHANGED <<child, fds, nofork>>
  /\ UNCHANGED <<opt, inst, tx, rx, sock, broke>>

ServerRecv(k) ==
  /\ child[k].pc = "recv"
  /\ \/ /\ sock[k].up # <<>>
        /\ sock' = [sock EXCEPT ![k].up = Tail(@)]
        /\ child' = [child EXCEPT ![k] = IF opt.echo
                       THEN [pc |-> "send", frame |-> <<Head(sock[k].up)>>] ELSE @]
     \/ /\ sock[k].up = <<>> /\ ~Open(k) /\ UNCHANGED sock
        /\ child' = [child EXCEPT ![k].pc = "done"]
  /\ UNCHANGED <<opt, inst, tx, rx, listen, fds, broke, nofork>>

(* Mutant: a frame there is no room for is dropped. *)
ServerSendDrops(k) ==
  /\ child[k].pc = "send"
  /\ sock' = [sock EXCEPT ![k].down = IF Len(@) < SockCap THEN @ \o child[k].frame ELSE @]
  /\ child' = [child EXCEPT ![k] = [pc |-> IF Open(k) THEN "recv" ELSE "done", frame |-> <<>>]]
  /\ UNCHANGED <<opt, inst, tx, rx, listen, fds, broke, nofork>>

ServerSend(k) ==
  /\ child[k].pc = "send"
  /\ \/ /\ Open(k) /\ Len(sock[k].down) < SockCap
        /\ sock' = [sock EXCEPT ![k].down = @ \o child[k].frame]
        /\ child' = [child EXCEPT ![k] = [pc |-> "recv", frame |-> <<>>]]
     \/ /\ ~Open(k) /\ UNCHANGED sock
        /\ child' = [child EXCEPT ![k] = [pc |-> "done", frame |-> <<>>]]
  /\ UNCHANGED <<opt, inst, tx, rx, listen, fds, broke, nofork>>

(* The environment: a connection goes down, or has no one to accept it. *)
Breaks(k) ==
  /\ Open(k) /\ SockCloses(k) /\ broke' = broke \cup {k}
  /\ UNCHANGED <<opt, inst, tx, rx, child, listen, fds, nofork>>
Unaccepted(k) == ~listen /\ child[k].pc = "none" /\ Breaks(k)

InstanceStep(k) ==
  \/ WaitDevice(k) \/ AutoConnect(k) \/ AskUser(k) \/ ForkTransmitter(k)
  \/ Receive(k) \/ ReceiveEnd(k)
TransmitterStep(k) == Transmit(k) \/ TransmitEnd(k)
ChildStep(k) == ServerRecv(k) \/ ServerSend(k) \/ Unaccepted(k)
SprayNext ==
  \/ ForkSecond \/ ServerAccept
  \/ \E k \in Inst : InstanceStep(k) \/ TransmitterStep(k) \/ ChildStep(k) \/ Breaks(k)
-----------------------------------------------------------------------------
(* With the echo service no frame is lost, doubled or overtaken while the  *)
(* connection is up: what came back, what is coming back, what the child   *)
(* of the server holds and what is on its way to it are together the       *)
(* frames sent, in order (irdaspray_transmit, ir_server,                   *)
(* irdaspray_receive).                                                     *)
Upto(n) == [i \in 1 .. n |-> i]
EchoConserved ==
  \A k \in Inst :
    opt.echo /\ Open(k) =>
      Upto(rx[k].i) \o sock[k].down \o child[k].frame \o sock[k].up = Upto(tx[k].i)

(* An instance that reports "Received" after a connection that stayed up   *)
(* reports all it was to send, though the transmitter is long gone.        *)
ReceivedTotal ==
  \A k \in Inst : rx[k].pc = "done" /\ k \notin broke => rx[k].total = FrameNumber * FrameSize

(* Transmitter, server and receiver do not block each other for ever with  *)
(* full sockets, whatever goes down, and a child of the server does not    *)
(* outlive the connection it serves: all of them end, unless a process     *)
(* could not be forked (a client whose transmitter is missing waits for    *)
(* frames no one sends).                                                   *)
ClientEnded == InstanceEnded(1) /\ (inst[2] = "none" \/ InstanceEnded(2))
ChildrenEnded == \A k \in Inst : child[k].pc \in {"none", "unforked", "done"}
AllEnd == <>(nofork \/ (ClientEnded /\ ChildrenEnded))
=============================================================================
