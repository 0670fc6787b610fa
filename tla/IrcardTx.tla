------------------------------ MODULE IrcardTx ------------------------------
(***************************************************************************)
(* The data path of the IBM 31T1502 PCMCIA driver (pcmcia/ircard_cs.c):    *)
(* the shared-memory transmit queue tx_q, the transmit lock tbusy, the     *)
(* interrupt loop, the turnaround between sending and receiving and the    *)
(* speed changes, with the chip's banked registers underneath.             *)
(*                                                                         *)
(* Processes: the network layer (one frame at a time in hard_start_xmit),  *)
(* the interrupt handler, IrLAP, the chip, and card resets reported by     *)
(* Card Services.  idev->lock is modelled by atomicity: what runs under it *)
(* is one action, and none runs while the interrupt loop is inside.        *)
(* IrLAP, irport and the chip are outside the repository; they are         *)
(* modelled from how the driver uses them.                                 *)
(*                                                                         *)
(* Frames are numbered in the order IrLAP makes them; MaxFrames bounds     *)
(* their number.                                                           *)
(***************************************************************************)
EXTENDS Integers, Sequences

CONSTANTS MAX_WINDOW,     \* slots of tx_q.queue
          Window,         \* frames IrLAP may send in one turn
          FrameLen,       \* lengths of frames
          ShmSize,        \* size of the transmit part of shared memory
          BogusLimit,     \* bound of the interrupt loop (10 in the code)
          WithReset,      \* whether the card may be reset
          MaxFrames       \* bound on the frames IrLAP makes

ASSUME TxAssumption ==
  /\ MAX_WINDOW \in Nat /\ Window \in Nat /\ ShmSize \in Nat
  /\ BogusLimit \in Nat /\ MaxFrames \in Nat
  /\ FrameLen \subseteq Nat \ {0}
  /\ WithReset \in BOOLEAN

VARIABLES
  ptr, len, free, tail,   \* tx_q; tail is an offset from SHMEM_TX_START
  queue,                  \* tx_q.queue: [start, len] per slot
  shm,                    \* the frame each unit of shared memory holds
  tbusy,                  \* dev->tbusy
  baud,                   \* io.baudrate: "SIR" (<= 115200), "MIR" or "FIR"
  xmit,                   \* the frame inside ircard_hard_xmit and how far it is
  reg,                    \* the chip's MCR, and the accesses in a wrong bank
  dma,                    \* the transfer the chip works on
  pend,                   \* interrupt causes the chip reports: "TX", "RX"
  rx,                     \* what the frame in the receive ring is
  msr, bogus, saved,      \* locals of ircard_interrupt
  devq,                   \* the device's transmit queue
  lap, credit,            \* IrLAP: whose turn, frames it may still send
  cut,                    \* history: what a speed change or reset has cut off
  made, aired             \* number of the last frame made / put on the air

txq  == <<ptr, len, free, tail, queue, shm>>
irqv == <<msr, bogus, saved>>
lapv == <<devq, lap, credit, cut, made>>
vars == <<txq, tbusy, baud, xmit, reg, dma, pend, rx, irqv, lapv, aired>>

NoDma == [start |-> 0, len |-> 0]
NoFrame == [id |-> 0, size |-> 0, at |-> "none"]

Speeds == {"SIR", "MIR", "FIR"}
HighSpeed == baud # "SIR"
InIrq == msr # "none"

(***************************************************************************)
(* What ircard_receive_complete can find: an overrun frame; something it   *)
(* drops or IrLAP ignores (nothing in the ring, an aborted, damaged or too *)
(* short frame, no skb free, another station's frame); or the answer IrLAP *)
(* waits for.                                                              *)
(***************************************************************************)
RxStat == {"dropped", "overrun", "answer"}
-----------------------------------------------------------------------------
(* The banked registers.  Every register but MCR lives in one bank. *)
Registers ==
  {"MSR", "MISC", "TX_CTRL1", "TX_CTRL2", "TX_STAT", "RX_CTRL", "RESET",
   "TX_BYTE_COUNT", "RX_RING_FRM_PTR", "IR_CONF", "IR_TRANS_CTRL",
   "SH_MEM_PAGE", "TX_DMA_ADDR"}

Reg == [bank : 0 .. 3, en : SUBSET {"INTR", "TX", "RX"},
        wrong : SUBSET Registers]

BankOf(r) ==
  CASE r \in {"TX_BYTE_COUNT", "RX_RING_FRM_PTR"} -> 1
    [] r \in {"IR_CONF", "IR_TRANS_CTRL"}         -> 2
    [] r \in {"SH_MEM_PAGE", "TX_DMA_ADDR"}       -> 3
    [] OTHER -> 0   \* MSR, MISC, TX_CTRL1, TX_CTRL2, TX_STAT, RX_CTRL, RESET

Access(m, R) == [m EXCEPT !.wrong = @ \cup {r \in R : BankOf(r) # m.bank}]

set_mcr(m, itr, b) == [m EXCEPT !.en = itr, !.bank = b]

(* __switch_bank clears the enable bits, switch_bank keeps them. *)
raw_switch_bank(m, b) == set_mcr(m, {}, b)
switch_bank(m, b) == set_mcr(m, m.en, b)

(* Mutants: the receiver stays enabled; RTS is set in the bank of the DMA  *)
(* address.                                                                *)
DmaWriteRegsKeepRx(m) ==
  LET m1 == Access(switch_bank(m, 0), {"MISC"})
      m2 == Access(set_mcr(m1, m1.en \cup {"INTR", "TX"}, 0), {"TX_CTRL2"})
      m3 == Access(switch_bank(m2, 1), {"TX_BYTE_COUNT"})
      m4 == Access(switch_bank(m3, 3), {"SH_MEM_PAGE", "TX_DMA_ADDR"})
  IN  Access(switch_bank(m4, 0), {"MISC", "TX_CTRL1"})
DmaWriteRegsStayInBank3(m) ==
  LET m1 == Access(switch_bank(m, 0), {"MISC"})
      m2 == Access(set_mcr(m1, {"INTR", "TX"}, 0), {"TX_CTRL2"})
      m3 == Access(switch_bank(m2, 1), {"TX_BYTE_COUNT"})
      m4 == Access(switch_bank(m3, 3), {"SH_MEM_PAGE", "TX_DMA_ADDR"})
  IN  Access(m4, {"MISC", "TX_CTRL1"})

(* The register traffic of ircard_dma_write. *)
DmaWriteRegs(m) ==
  LET m1 == Access(switch_bank(m, 0), {"MISC"})
      m2 == Access(set_mcr(m1, {"INTR", "TX"}, 0), {"TX_CTRL2"})
      m3 == Access(switch_bank(m2, 1), {"TX_BYTE_COUNT"})
      m4 == Access(switch_bank(m3, 3), {"SH_MEM_PAGE", "TX_DMA_ADDR"})
  IN  Access(switch_bank(m4, 0), {"MISC", "TX_CTRL1"})

(* The register traffic of ircard_receive: RESET is written in the bank    *)
(* that was selected when the function was called.                         *)
ReceiveRegs(m) ==
  LET m1 == Access(set_mcr(switch_bank(m, 0), {"INTR"}, m.bank), {"RESET"})
      m2 == switch_bank(set_mcr(m1, {"RX", "INTR"}, m.bank), 0)
  IN  Access(m2, {"RX_CTRL", "MISC"})

(* The first half of ircard_xmit_complete. *)
XmitCompleteRegs(m) ==
  LET m1 == Access(switch_bank(m, 0), {"TX_STAT"})
  IN  Access(set_mcr(m1, {"INTR"}, m.bank), {"MISC", "RESET"})

(* ircard_change_speed up to the choice of the receive mode; the command   *)
(* written to RESET, 0x07, is not RESET_HARDWARE and clears nothing.       *)
ChangeSpeedRegs(m, speed) ==
  LET m1 == IF (baud = "FIR") # (speed = "FIR")
            THEN Access(raw_switch_bank(m, 2), {"IR_TRANS_CTRL"}) ELSE m
      m2 == Access(raw_switch_bank(m1, 0), {"RESET"})
  IN  Access(raw_switch_bank(m2, 2), {"IR_CONF"})
-----------------------------------------------------------------------------
(* Mutants: one counter is forgotten. *)
ResetTxqKeepFree ==
  /\ ptr' = 0 /\ len' = 0 /\ free' = free /\ tail' = 0
  /\ UNCHANGED <<queue, shm>>
ResetTxqKeepPtr ==
  /\ ptr' = ptr /\ len' = 0 /\ free' = 0 /\ tail' = 0
  /\ UNCHANGED <<queue, shm>>

(* "Reset Tx queue info" of ircard_receive. *)
ResetTxq ==
  /\ ptr' = 0 /\ len' = 0 /\ free' = 0 /\ tail' = 0
  /\ UNCHANGED <<queue, shm>>

Slots == 0 .. MAX_WINDOW - 1

(* The transfer ircard_dma_write programs for slot p. *)
Transfer(p) == IF p \in Slots THEN queue[p] ELSE NoDma

(* The card after ircard_config and ircard_net_open, IrLAP at 9600. *)
Init ==
  /\ ptr = 0 /\ len = 0 /\ free = 0 /\ tail = 0
  /\ queue = [i \in Slots |-> NoDma]
  /\ shm = [a \in 0 .. ShmSize - 1 |-> 0]
  /\ tbusy = FALSE
  /\ baud = "SIR"
  /\ xmit = NoFrame
  /\ reg = [bank |-> 3, en |-> {}, wrong |-> {}]
  /\ dma = NoDma
  /\ pend = {}
  /\ rx = "dropped"
  /\ msr = "none" /\ bogus = 0 /\ saved = 0
  /\ devq = <<>>
  /\ lap = "theirs" /\ credit = 0 /\ cut = {}
  /\ made = 0 /\ aired = 0
-----------------------------------------------------------------------------
(***************************************************************************)
(* ircard_hard_xmit.  XmitEnter takes the transmit lock (it returns -EBUSY *)
(* and the frame stays queued when tbusy is set), XmitBody is the part     *)
(* under idev->lock, XmitLeave clears tbusy after the lock is released.    *)
(* That only one frame is inside (xmit = NoFrame) is the network layer's   *)
(* doing: it calls a device from one bottom half.  tbusy does not ensure   *)
(* it, since ircard_xmit_complete clears it under a running hard_xmit.     *)
(***************************************************************************)
XmitEnter ==
  /\ HighSpeed
  /\ devq # <<>>
  /\ xmit = NoFrame
  /\ ~tbusy
  /\ tbusy' = TRUE
  /\ xmit' = [Head(devq) EXCEPT !.at = "locked"]
  /\ devq' = Tail(devq)
  /\ UNCHANGED <<txq, baud, reg, dma, pend, rx, irqv, lap, credit, cut,
                 made, aired>>

(* Mutant: the tail of the used shared memory does not move. *)
RegisterFrameNoTail ==
  /\ queue' = [queue EXCEPT ![free] = [start |-> tail, len |-> xmit.size]]
  /\ shm' = [a \in DOMAIN shm |->
               IF tail <= a /\ a < tail + xmit.size THEN xmit.id ELSE shm[a]]
  /\ tail' = tail
  /\ len' = len + 1
  /\ free' = free + 1
  /\ ptr' = ptr

(* Register the frame in slot free and copy it to shared memory. *)
RegisterFrame ==
  /\ queue' = [queue EXCEPT ![free] = [start |-> tail, len |-> xmit.size]]
  /\ shm' = [a \in DOMAIN shm |->
               IF tail <= a /\ a < tail + xmit.size THEN xmit.id ELSE shm[a]]
  /\ tail' = tail + xmit.size
  /\ len' = len + 1
  /\ free' = free + 1
  /\ ptr' = ptr

(* Mutant: the transmitter is started for the first slot only. *)
XmitBodyFirstSlotOnly ==
  /\ xmit.at = "locked"
  /\ ~InIrq
  /\ RegisterFrame
  /\ IF free = 0
     THEN /\ reg' = DmaWriteRegs(switch_bank(reg, 0))
          /\ dma' = Transfer(ptr)'
     ELSE /\ reg' = switch_bank(reg, 0)
          /\ UNCHANGED dma
  /\ xmit' = [xmit EXCEPT !.at = "unlocked"]
  /\ UNCHANGED <<tbusy, baud, pend, rx, irqv, lapv, aired>>

XmitBody ==
  /\ xmit.at = "locked"
  /\ ~InIrq
  /\ RegisterFrame
  /\ IF len + 1 = 1
     THEN /\ reg' = DmaWriteRegs(switch_bank(reg, 0))
          /\ dma' = Transfer(ptr)'
     ELSE /\ reg' = switch_bank(reg, 0)
          /\ UNCHANGED dma
  /\ xmit' = [xmit EXCEPT !.at = "unlocked"]
  /\ UNCHANGED <<tbusy, baud, pend, rx, irqv, lapv, aired>>

XmitLeave ==
  /\ xmit.at = "unlocked"
  /\ tbusy' = FALSE
  /\ xmit' = NoFrame
  /\ UNCHANGED <<txq, baud, reg, dma, pend, rx, irqv, lapv, aired>>
-----------------------------------------------------------------------------
(***************************************************************************)
(* ircard_interrupt: entered for a cause the chip reports while its        *)
(* interrupts are enabled; at SIR speeds it belongs to irport.  The loop   *)
(* serves one cause, then reads MSR again.                                 *)
(***************************************************************************)
IrqEnter ==
  /\ HighSpeed
  /\ ~InIrq
  /\ "INTR" \in reg.en
  /\ pend # {}
  /\ saved' = reg.bank
  /\ reg' = Access(switch_bank(reg, 0), {"MSR"})
  /\ msr' \in pend
  /\ bogus' = 0
  /\ UNCHANGED <<txq, tbusy, baud, xmit, dma, pend, rx, lapv, aired>>

(* Mutant: the card does not turn around to receiving. *)
AfterCompleteNoTurnaround ==
  LET m == XmitCompleteRegs(reg) IN
  /\ ptr' = ptr + 1 /\ len' = len - 1
  /\ UNCHANGED <<free, tail, queue, shm>>
  /\ IF len - 1 # 0 THEN dma' = Transfer(ptr + 1) /\ reg' = DmaWriteRegs(m)
                    ELSE UNCHANGED dma /\ reg' = m
  /\ pend' = pend \ {"TX"}

(* The next frame back to back, or the turnaround, or neither. *)
AfterComplete ==
  LET m == XmitCompleteRegs(reg) IN
  \/ /\ len - 1 # 0
     /\ ptr' = ptr + 1 /\ len' = len - 1
     /\ UNCHANGED <<free, tail, queue, shm>>
     /\ dma' = Transfer(ptr + 1)
     /\ reg' = DmaWriteRegs(m)
     /\ pend' = IF reg.bank = 0 THEN pend \ {"TX"} ELSE pend
  \/ /\ len - 1 = 0
     /\ devq = <<>>
     /\ ResetTxq
     /\ reg' = ReceiveRegs(Access(m, {"TX_CTRL1"}))
     /\ pend' = IF reg.bank = 0 THEN {} ELSE pend
     /\ UNCHANGED dma
  \/ /\ len - 1 = 0
     /\ devq # <<>>
     /\ ptr' = ptr + 1 /\ len' = 0
     /\ UNCHANGED <<free, tail, queue, shm>>
     /\ reg' = m
     /\ pend' = IF reg.bank = 0 THEN pend \ {"TX"} ELSE pend
     /\ UNCHANGED dma

ServeTx ==
  /\ msr = "TX"
  /\ msr' = "served"
  /\ AfterComplete
  /\ tbusy' = FALSE
  /\ UNCHANGED <<baud, xmit, rx, bogus, saved, lapv, aired>>

(* netif_rx hands an answer to IrLAP, which then has the turn. *)
Deliver ==
  IF rx = "answer" /\ lap \in {"fresh", "mine", "theirs"}
  THEN lap' = "fresh" /\ credit' = Window
  ELSE UNCHANGED <<lap, credit>>

ServeRx ==
  /\ msr = "RX"
  /\ msr' = "served"
  /\ LET m == Access(switch_bank(reg, 1), {"RX_RING_FRM_PTR"})
     IN  reg' = IF rx = "overrun" THEN Access(switch_bank(m, 0), {"RESET"})
                ELSE m
  /\ Deliver
  /\ pend' = pend \ {"RX"}
  /\ rx' = "dropped"
  /\ UNCHANGED <<txq, tbusy, baud, xmit, dma, bogus, saved, devq, cut,
                 made, aired>>

(***************************************************************************)
(* The end of an iteration.  MSR is read in the bank the served cause left *)
(* selected; outside bank 0 the read returns FRAME_ADDR, whose value the   *)
(* driver never sets: it is taken to have no cause bits.                   *)
(***************************************************************************)
IrqPoll ==
  /\ msr = "served"
  /\ IF bogus > BogusLimit
     THEN /\ msr' = "none"
          /\ reg' = switch_bank(reg, saved)
          /\ bogus' = 0
     ELSE LET m == Access(reg, {"MSR"}) IN
          \/ /\ reg.bank = 0
             /\ msr' \in pend
             /\ reg' = m
             /\ bogus' = bogus + 1
          \/ /\ reg.bank # 0 \/ pend = {}
             /\ msr' = "none"
             /\ reg' = switch_bank(m, saved)
             /\ bogus' = 0
  /\ UNCHANGED <<txq, tbusy, baud, xmit, dma, pend, rx, saved, lapv, aired>>
-----------------------------------------------------------------------------
(* ircard_change_speed(speed) from register state m. *)
ChangeSpeed(speed, m) ==
  /\ baud' = speed
  /\ tbusy' = FALSE
  /\ dma' = NoDma
  /\ IF speed # "SIR"
     THEN reg' = ReceiveRegs(ChangeSpeedRegs(m, speed)) /\ ResetTxq
     ELSE reg' = ChangeSpeedRegs(m, speed) /\ UNCHANGED txq

(***************************************************************************)
(* IrLAP is done waiting and changes the speed; the peer speaks next.      *)
(* Nothing is made certain before: the frames that are still queued are    *)
(* cut off, and so is a completion that was reported and not yet served,   *)
(* which the chip goes on to report.                                       *)
(***************************************************************************)
LapChangeSpeed ==
  /\ lap = "waited"
  /\ ~InIrq
  /\ \E speed \in Speeds : ChangeSpeed(speed, reg)
  /\ lap' = "theirs"
  /\ cut' = cut \cup (IF HighSpeed /\ len > 0 THEN {"frames"} ELSE {})
                 \cup (pend \cap {"TX"})
  /\ UNCHANGED <<xmit, pend, rx, irqv, devq, credit, made, aired>>

(***************************************************************************)
(* CS_EVENT_CARD_RESET: the chip comes out of reset in bank 0 with nothing *)
(* enabled or pending, ircard_event restarts irport and calls              *)
(* ircard_change_speed(9600).                                              *)
(***************************************************************************)
CardReset ==
  /\ WithReset
  /\ ~InIrq
  /\ ChangeSpeed("SIR", set_mcr(reg, {}, 0))
  /\ pend' = {}
  /\ rx' = "dropped"
  /\ cut' = IF (HighSpeed /\ len > 0) \/ xmit.at = "locked"
            THEN cut \cup {"frames"} ELSE cut
  /\ UNCHANGED <<xmit, irqv, devq, lap, credit, made, aired>>
-----------------------------------------------------------------------------
(* IrLAP, the chip and irport (external). *)

(* Everything IrLAP sent has left the card. *)
AllSent == devq = <<>> /\ xmit = NoFrame /\ (HighSpeed => len = 0 /\ ~InIrq)

LapSend ==
  /\ lap \in {"fresh", "mine"}
  /\ credit > 0
  /\ made < MaxFrames
  /\ \E size \in FrameLen :
       devq' = Append(devq, [id |-> made + 1, size |-> size, at |-> "queued"])
  /\ made' = made + 1
  /\ credit' = credit - 1
  /\ lap' = "mine"
  /\ UNCHANGED <<txq, tbusy, baud, xmit, reg, dma, pend, rx, irqv, cut, aired>>

(* The frame with the final bit was the last one of the turn. *)
LapPassTurn ==
  /\ lap = "mine"
  /\ lap' = "theirs"
  /\ credit' = 0
  /\ UNCHANGED <<txq, tbusy, baud, xmit, reg, dma, pend, rx, irqv, devq,
                 cut, made, aired>>

(* The final timer: no answer came, one frame may be sent to poll again. *)
LapTimeout ==
  /\ lap = "theirs"
  /\ AllSent
  /\ lap' = "fresh"
  /\ credit' = 1
  /\ UNCHANGED <<txq, tbusy, baud, xmit, reg, dma, pend, rx, irqv, devq,
                 cut, made, aired>>

(* ircard_wait_until_sent begins, after the last frame went to the driver. *)
LapWait ==
  /\ lap \in {"fresh", "mine", "theirs"}
  /\ devq = <<>>
  /\ xmit = NoFrame
  /\ lap' = "wait"
  /\ credit' = 0
  /\ UNCHANGED <<txq, tbusy, baud, xmit, reg, dma, pend, rx, irqv, devq,
                 cut, made, aired>>

(* ... and returns after 60 ms, or earlier when a signal comes: it looks   *)
(* neither at the queue nor at the chip.                                   *)
WaitUntilSentReturns ==
  /\ lap = "wait"
  /\ lap' = "waited"
  /\ UNCHANGED <<txq, tbusy, baud, xmit, reg, dma, pend, rx, irqv, devq,
                 credit, cut, made, aired>>

(* At SIR speeds irport_hard_xmit sends the frame. *)
SirXmit ==
  /\ ~HighSpeed
  /\ devq # <<>>
  /\ xmit = NoFrame
  /\ devq' = Tail(devq)
  /\ aired' = Head(devq).id
  /\ UNCHANGED <<txq, tbusy, baud, xmit, reg, dma, pend, rx, irqv, lap,
                 credit, cut, made>>

(* The frame the chip reads from shared memory for transfer t, 0 if the    *)
(* bytes there are not those of one frame.                                 *)
FrameAt(t) ==
  LET ids == {shm[a] : a \in (t.start .. t.start + t.len - 1) \cap DOMAIN shm}
  IN  IF \E f \in ids : ids = {f} THEN CHOOSE f \in ids : TRUE ELSE 0

ChipTxDone ==
  /\ HighSpeed
  /\ dma # NoDma
  /\ "TX" \in reg.en
  /\ aired' = FrameAt(dma)
  /\ dma' = NoDma
  /\ pend' = pend \cup {"TX"}
  /\ UNCHANGED <<txq, tbusy, baud, xmit, reg, rx, irqv, lapv>>

(* A frame arrives; the peer answers only what was sent completely. *)
ChipRx ==
  /\ HighSpeed
  /\ "RX" \in reg.en
  /\ pend = {}
  /\ \E s \in RxStat :
       /\ s = "answer" => lap = "theirs" /\ AllSent
       /\ rx' = s
  /\ pend' = {"RX"}
  /\ UNCHANGED <<txq, tbusy, baud, xmit, reg, dma, irqv, lapv, aired>>
-----------------------------------------------------------------------------
Driver == XmitEnter \/ XmitBody \/ XmitLeave \/ IrqEnter \/ ServeTx \/ ServeRx
            \/ IrqPoll \/ LapChangeSpeed \/ CardReset

Environment == LapSend \/ LapPassTurn \/ LapTimeout \/ LapWait
                 \/ WaitUntilSentReturns \/ SirXmit \/ ChipTxDone \/ ChipRx

Next == Driver \/ Environment

Spec == Init /\ [][Next]_vars

(* Interrupts are delivered, the network layer's bottom half runs (every   *)
(* completion marks it), and the chip finishes what it transmits.  Strong  *)
(* fairness for XmitBody: received frames may interrupt over and over, but *)
(* the interrupted processor gets the lock between two interrupts.         *)
Fairness ==
  /\ WF_vars(XmitEnter) /\ SF_vars(XmitBody) /\ WF_vars(XmitLeave)
  /\ WF_vars(IrqEnter) /\ WF_vars(ServeTx) /\ WF_vars(ServeRx) /\ WF_vars(IrqPoll)
  /\ WF_vars(ChipTxDone) /\ WF_vars(SirXmit)

FairSpec == Spec /\ Fairness
-----------------------------------------------------------------------------
TypeOK ==
  /\ ptr \in Nat /\ len \in Int /\ free \in Nat /\ tail \in Nat
  /\ queue \in [Slots -> [start : Nat, len : Nat]]
  /\ shm \in [0 .. ShmSize - 1 -> Nat]
  /\ tbusy \in BOOLEAN
  /\ baud \in Speeds
  /\ xmit \in [id : Nat, size : Nat, at : {"none", "locked", "unlocked"}]
  /\ reg \in Reg
  /\ dma \in [start : Nat, len : Nat]
  /\ pend \in SUBSET {"TX", "RX"}
  /\ rx \in RxStat
  /\ msr \in {"none", "TX", "RX", "served"}
  /\ bogus \in 0 .. BogusLimit + 1 /\ saved \in 0 .. 3
  /\ devq \in Seq([id : Nat, size : FrameLen, at : {"queued"}])
  /\ lap \in {"fresh", "mine", "theirs", "wait", "waited"}
  /\ credit \in Nat /\ cut \subseteq {"frames", "TX"} /\ made \in Nat /\ aired \in Nat

(* No speed change has come between a completion and its interrupt. *)
Intact == "TX" \notin cut

(***************************************************************************)
(* ircard_hard_xmit stores at queue[free] and at tail without looking at   *)
(* their limits: the slots and the memory suffice because IrLAP's window,  *)
(* plus one poll that a late answer overtakes, fits, and every turnaround  *)
(* resets the queue, frames that a speed change cuts off included.         *)
(***************************************************************************)
RingFits == Intact => free <= MAX_WINDOW /\ tail <= ShmSize

(***************************************************************************)
(* At MIR and FIR speeds the counters agree: len frames wait between ptr   *)
(* and free, and len never goes below zero (ircard_xmit_complete does not  *)
(* test it before it decrements).  A queue that is reset with frames in it *)
(* does no harm; a completion that is older than the reset does            *)
(* (SafeToChangeSpeed).                                                    *)
(***************************************************************************)
CountsAgree == Intact /\ HighSpeed => len >= 0 /\ ptr + len = free

(***************************************************************************)
(* At MIR and FIR speeds the transmitter works on slot ptr exactly while   *)
(* frames are queued, up to the completion interrupt: a frame left in the  *)
(* queue by ircard_hard_xmit always has somebody who will send it.         *)
(***************************************************************************)
Transmitting ==
  Intact /\ HighSpeed => (len > 0 <=> dma # NoDma \/ "TX" \in pend)
                         /\ (dma # NoDma => dma = Transfer(ptr))

(***************************************************************************)
(* Half duplex: the chip never has transmitter and receiver enabled, and   *)
(* at MIR and FIR speeds it listens only while no frame is queued.         *)
(***************************************************************************)
HalfDuplex ==
  /\ ~({"TX", "RX"} \subseteq reg.en)
  /\ Intact /\ HighSpeed /\ "RX" \in reg.en => len = 0 /\ dma = NoDma

(***************************************************************************)
(* The frames leave in the order IrLAP made them, each once and none       *)
(* skipped, across back-to-back sending and turnarounds.  A speed change   *)
(* or a card reset may lose frames, never reorder or repeat them.          *)
(***************************************************************************)
InOrder ==
  [][Intact /\ aired' # aired =>
       IF "frames" \in cut THEN aired' > aired ELSE aired' = aired + 1]_aired

(***************************************************************************)
(* The registers that drive the transmitter are only accessed while their  *)
(* bank is selected, whatever interrupted what.                            *)
(***************************************************************************)
TxRegisters ==
  reg.wrong \cap {"MISC", "TX_CTRL1", "TX_CTRL2", "TX_STAT", "TX_BYTE_COUNT",
                  "SH_MEM_PAGE", "TX_DMA_ADDR"} = {}

(***************************************************************************)
(* "sleep until all data have been sent, so it is safe to change the       *)
(* speed" (ircard_wait_until_sent): the completion of a frame that was     *)
(* queued before a speed change is not counted against the new queue.      *)
(***************************************************************************)
SafeToChangeSpeed == HighSpeed => len >= 0

(***************************************************************************)
(* Every frame IrLAP makes eventually leaves the card, or was cut off by a *)
(* speed change: tbusy, the queue test of ircard_xmit_complete, the        *)
(* turnaround and the interrupt loop's early exit never strand it (without *)
(* card resets).                                                           *)
(***************************************************************************)
Drains == \A f \in 1 .. MaxFrames : made >= f ~> (aired >= f \/ cut # {})

(***************************************************************************)
(* Once IrLAP has passed the turn, the card eventually listens for the     *)
(* answer, or the turn ends otherwise, unless a completion was cut off.    *)
(***************************************************************************)
ListensAgain ==
  lap = "theirs" ~> (lap # "theirs" \/ ~HighSpeed \/ "RX" \in reg.en \/ ~Intact)
=============================================================================
