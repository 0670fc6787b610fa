---------------------------- MODULE IrcardTxInv ----------------------------
(***************************************************************************)
(* The inductive invariant of IrcardTx, under the hypothesis the code      *)
(* needs and does not test: IrLAP's window plus one poll fits in the slots *)
(* and in the shared memory.                                               *)
(***************************************************************************)
EXTENDS IrcardTx

CONSTANT MaxLen           \* the longest frame

ASSUME Capacity ==
  /\ MaxLen \in Nat
  /\ \A l \in FrameLen : l <= MaxLen
  /\ Window + 1 <= MAX_WINDOW
  /\ (Window + 1) * MaxLen <= ShmSize

(* 1 while a frame is between the transmit lock and its slot. *)
Entering == IF xmit.at = "locked" THEN 1 ELSE 0

(* Slots used, frames on their way to a slot and frames still allowed. *)
Load == free + Len(devq) + Entering + credit

(* Frames queue from ptr to free; each lies in the used memory and the     *)
(* chip works on the first one, or has finished it and says so.  Nothing   *)
(* is pending for the transmitter at SIR speeds.                           *)
QueueInv ==
  IF ~HighSpeed THEN "TX" \notin pend ELSE
    /\ len >= 0 /\ ptr + len = free
    /\ \A i \in ptr .. free - 1 :
         queue[i].len > 0 /\ queue[i].start + queue[i].len <= tail
    /\ len > 0 <=> dma # NoDma \/ "TX" \in pend
    /\ ~(dma # NoDma /\ "TX" \in pend)
    /\ dma # NoDma => dma = queue[ptr]
    /\ "RX" \in reg.en => len = 0
    /\ len = 0 /\ devq = <<>> /\ Entering = 0 => free = 0

(* Why the slots suffice: an answer gives IrLAP a new window only when at  *)
(* most one frame, the poll it overtook, is on its way.                    *)
LoadInv ==
  /\ free + Entering <= Window + 1
  /\ HighSpeed => Load <= Window + 1
  /\ HighSpeed /\ "RX" \in pend /\ rx = "answer" => Load <= 1
  /\ lap = "theirs" => credit = 0
  /\ tail <= free * MaxLen
  /\ xmit.at = "locked" => xmit.size \in FrameLen

(* While IrLAP waits nothing new is queued. *)
WaitInv ==
  lap \in {"wait", "waited"} => devq = <<>> /\ xmit = NoFrame /\ credit = 0

(* The interrupt loop runs at high speed only, on a cause that is pending, *)
(* in bank 0.                                                              *)
IrqInv ==
  /\ InIrq => HighSpeed
  /\ msr \in {"TX", "RX"} => msr \in pend /\ reg.bank = 0
  /\ ~({"TX", "RX"} \subseteq reg.en)

(***************************************************************************)
(* The inductive invariant: the wait before a speed change and the         *)
(* interrupt loop at any time, and the transmit queue with the load that   *)
(* bounds it until a speed change cuts a completion off.                   *)
(***************************************************************************)
IInv == TypeOK /\ WaitInv /\ IrqInv /\ (Intact => QueueInv /\ LoadInv)
=============================================================================
