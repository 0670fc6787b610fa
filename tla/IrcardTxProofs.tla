--------------------------- MODULE IrcardTxProofs ---------------------------
(***************************************************************************)
(* The transmit queue of ircard_cs.c for every window, every number of     *)
(* slots and every frame length, with card resets, from the hypothesis     *)
(* Capacity of IrcardTxInv.                                                *)
(***************************************************************************)
EXTENDS IrcardTxInv, SequenceTheorems, TLAPS

(* Accessing registers changes neither the bank nor the enable bits. *)
LEMMA AccessFacts ==
  ASSUME NEW m \in Reg, NEW R \in SUBSET Registers
  PROVE  /\ Access(m, R) \in Reg
         /\ Access(m, R).bank = m.bank
         /\ Access(m, R).en = m.en
BY DEF Access, Reg

(* Writing MCR sets the bank and the enable bits. *)
LEMMA SetMcrFacts ==
  ASSUME NEW m \in Reg, NEW b \in 0 .. 3,
         NEW itr \in SUBSET {"INTR", "TX", "RX"}
  PROVE  /\ set_mcr(m, itr, b) \in Reg
         /\ set_mcr(m, itr, b).bank = b
         /\ set_mcr(m, itr, b).en = itr
BY DEF set_mcr, Reg

(* switch_bank keeps the enable bits, __switch_bank clears them. *)
LEMMA SwitchFacts ==
  ASSUME NEW m \in Reg, NEW b \in 0 .. 3
  PROVE  /\ switch_bank(m, b) \in Reg
         /\ switch_bank(m, b).bank = b
         /\ switch_bank(m, b).en = m.en
         /\ raw_switch_bank(m, b) \in Reg
         /\ raw_switch_bank(m, b).bank = b
         /\ raw_switch_bank(m, b).en = {}
BY SetMcrFacts DEF switch_bank, raw_switch_bank, Reg

(* ircard_dma_write leaves the transmitter enabled and bank 0 selected. *)
LEMMA DmaWriteFacts ==
  ASSUME NEW m \in Reg
  PROVE  /\ DmaWriteRegs(m) \in Reg
         /\ DmaWriteRegs(m).bank = 0
         /\ DmaWriteRegs(m).en = {"INTR", "TX"}
<1> DEFINE m1 == Access(switch_bank(m, 0), {"MISC"})
           m2 == Access(set_mcr(m1, {"INTR", "TX"}, 0), {"TX_CTRL2"})
           m3 == Access(switch_bank(m2, 1), {"TX_BYTE_COUNT"})
           m4 == Access(switch_bank(m3, 3), {"SH_MEM_PAGE", "TX_DMA_ADDR"})
           m5 == Access(switch_bank(m4, 0), {"MISC", "TX_CTRL1"})
<1>1. m1 \in Reg
  BY SwitchFacts, AccessFacts DEF Registers
<1> HIDE DEF m1
<1>2. m2 \in Reg /\ m2.en = {"INTR", "TX"}
  BY <1>1, SetMcrFacts, AccessFacts DEF Registers
<1> HIDE DEF m2
<1>3. m3 \in Reg /\ m3.en = {"INTR", "TX"}
  BY <1>2, SwitchFacts, AccessFacts DEF Registers
<1> HIDE DEF m3
<1>4. m4 \in Reg /\ m4.en = {"INTR", "TX"}
  BY <1>3, SwitchFacts, AccessFacts DEF Registers
<1> HIDE DEF m4
<1>5. m5 \in Reg /\ m5.en = {"INTR", "TX"} /\ m5.bank = 0
  BY <1>4, SwitchFacts, AccessFacts DEF Registers
<1> HIDE DEF m5
<1>6. DmaWriteRegs(m) = m5
  BY DEF DmaWriteRegs, m1, m2, m3, m4, m5
<1> QED
  BY <1>5, <1>6

(* ircard_receive leaves the receiver enabled and bank 0 selected. *)
LEMMA ReceiveFacts ==
  ASSUME NEW m \in Reg
  PROVE  /\ ReceiveRegs(m) \in Reg
         /\ ReceiveRegs(m).bank = 0
         /\ ReceiveRegs(m).en = {"RX", "INTR"}
<1> DEFINE a == switch_bank(m, 0)
           m1 == Access(set_mcr(a, {"INTR"}, m.bank), {"RESET"})
           m2 == switch_bank(set_mcr(m1, {"RX", "INTR"}, m.bank), 0)
           m3 == Access(m2, {"RX_CTRL", "MISC"})
<1> m.bank \in 0 .. 3
  BY DEF Reg
<1>1. a \in Reg
  BY SwitchFacts
<1> HIDE DEF a
<1>2. m1 \in Reg
  BY <1>1, SetMcrFacts, AccessFacts DEF Registers
<1> HIDE DEF m1
<1>3. m2 \in Reg /\ m2.en = {"RX", "INTR"} /\ m2.bank = 0
  BY <1>2, SetMcrFacts, SwitchFacts
<1> HIDE DEF m2
<1>4. m3 \in Reg /\ m3.en = {"RX", "INTR"} /\ m3.bank = 0
  BY <1>3, AccessFacts DEF Registers
<1> HIDE DEF m3
<1>5. ReceiveRegs(m) = m3
  BY DEF ReceiveRegs, a, m1, m2, m3
<1> QED
  BY <1>4, <1>5

(* The first half of ircard_xmit_complete disables both directions. *)
LEMMA XmitCompleteFacts ==
  ASSUME NEW m \in Reg
  PROVE  /\ XmitCompleteRegs(m) \in Reg
         /\ XmitCompleteRegs(m).bank = m.bank
         /\ XmitCompleteRegs(m).en = {"INTR"}
<1> DEFINE m1 == Access(switch_bank(m, 0), {"TX_STAT"})
           m2 == Access(set_mcr(m1, {"INTR"}, m.bank), {"MISC", "RESET"})
<1> m.bank \in 0 .. 3
  BY DEF Reg
<1>1. m1 \in Reg
  BY SwitchFacts, AccessFacts DEF Registers
<1> HIDE DEF m1
<1>2. m2 \in Reg /\ m2.en = {"INTR"} /\ m2.bank = m.bank
  BY <1>1, SetMcrFacts, AccessFacts DEF Registers
<1> HIDE DEF m2
<1>3. XmitCompleteRegs(m) = m2
  BY DEF XmitCompleteRegs, m1, m2
<1> QED
  BY <1>2, <1>3

(* ircard_change_speed disables both directions before it listens. *)
LEMMA ChangeSpeedFacts ==
  ASSUME NEW m \in Reg, NEW speed
  PROVE  /\ ChangeSpeedRegs(m, speed) \in Reg
         /\ ChangeSpeedRegs(m, speed).en = {}
<1> DEFINE m1 == IF (baud = "FIR") # (speed = "FIR")
                 THEN Access(raw_switch_bank(m, 2), {"IR_TRANS_CTRL"}) ELSE m
           m2 == Access(raw_switch_bank(m1, 0), {"RESET"})
           m3 == Access(raw_switch_bank(m2, 2), {"IR_CONF"})
<1>1. m1 \in Reg
  BY SwitchFacts, AccessFacts DEF Registers
<1> HIDE DEF m1
<1>2. m2 \in Reg
  BY <1>1, SwitchFacts, AccessFacts DEF Registers
<1> HIDE DEF m2
<1>3. m3 \in Reg /\ m3.en = {}
  BY <1>2, SwitchFacts, AccessFacts DEF Registers
<1> HIDE DEF m3
<1>4. ChangeSpeedRegs(m, speed) = m3
  BY DEF ChangeSpeedRegs, m1, m2, m3
<1> QED
  BY <1>3, <1>4
-----------------------------------------------------------------------------
(* What holds at any time, and what holds until a speed change cuts a      *)
(* completion off.                                                         *)
BaseInv == TypeOK /\ WaitInv /\ IrqInv
FullInv == BaseInv /\ QueueInv /\ LoadInv

(* The invariant holds when the interface has been opened. *)
LEMMA InitInv == Init => FullInv
<1> SUFFICES ASSUME Init
             PROVE  FullInv
  OBVIOUS
<1> USE TxAssumption, Capacity
<1>1. TypeOK
  <2>1. tbusy \in BOOLEAN
    BY Zenon DEF Init
  <2>2. devq \in Seq([id : Nat, size : FrameLen, at : {"queued"}])
    BY DEF Init
  <2> QED
    BY <2>1, <2>2 DEF Init, TypeOK, NoDma, NoFrame, Speeds, Reg, RxStat
<1>2. QueueInv /\ WaitInv /\ IrqInv
  BY DEF Init, QueueInv, WaitInv, IrqInv, HighSpeed, InIrq
<1>3. LoadInv
  BY DEF Init, LoadInv, HighSpeed, NoFrame, Entering, Load
<1> QED
  BY <1>1, <1>2, <1>3 DEF FullInv, BaseInv

(* What the chip sends is the number of a frame, or 0. *)
LEMMA FrameAtType ==
  ASSUME TypeOK
  PROVE  FrameAt(dma) \in Nat
<1> DEFINE ids == {shm[a] : a \in (dma.start .. dma.start + dma.len - 1) \cap DOMAIN shm}
<1>1. ids \subseteq Nat
  BY TxAssumption DEF TypeOK
<1>2. FrameAt(dma) = IF \E f \in ids : ids = {f} THEN CHOOSE f \in ids : TRUE ELSE 0
  BY DEF FrameAt
<1> HIDE DEF ids
<1>3. (\E f \in ids : TRUE) => (CHOOSE f \in ids : TRUE) \in ids
  BY Zenon
<1> QED
  BY <1>1, <1>2, <1>3

Queued == [id : Nat, size : FrameLen, at : {"queued"}]

(* The transmit path at any time: the lock, the slot and the memory. *)
LEMMA XmitBase ==
  ASSUME BaseInv, XmitEnter \/ XmitBody \/ XmitLeave
  PROVE  BaseInv'
<1> USE TxAssumption DEF BaseInv
<1>1. CASE XmitEnter
  <2>1. devq \in Seq(Queued) /\ devq # <<>> /\ devq' = Tail(devq)
    BY <1>1 DEF TypeOK, XmitEnter, Queued
  <2>2. devq' \in Seq(Queued) /\ Head(devq) \in Queued
    BY <2>1, HeadTailProperties
  <2>3. xmit' \in [id : Nat, size : Nat, at : {"none", "locked", "unlocked"}]
    BY <1>1, <2>2 DEF XmitEnter, Queued
  <2>4. tbusy' \in BOOLEAN
    BY <1>1, Zenon DEF XmitEnter
  <2>5. TypeOK'
    BY <1>1, <2>2, <2>3, <2>4 DEF TypeOK, XmitEnter, txq, irqv, Queued
  <2> QED
    BY <1>1, <2>5 DEF XmitEnter, txq, irqv, WaitInv, IrqInv, InIrq, HighSpeed
<1>2. CASE XmitBody
  <2>1. /\ xmit.at = "locked" /\ msr = "none"
        /\ xmit' = [xmit EXCEPT !.at = "unlocked"]
        /\ UNCHANGED <<tbusy, baud, pend, rx, msr, bogus, saved>>
        /\ UNCHANGED <<devq, lap, credit, cut, made, aired>>
    BY <1>2 DEF XmitBody, InIrq, irqv, lapv
  <2>2. xmit' \in [id : Nat, size : Nat, at : {"none", "locked", "unlocked"}]
    BY <2>1 DEF TypeOK
  <2>3. /\ queue' \in [Slots -> [start : Nat, len : Nat]]
        /\ shm' \in [0 .. ShmSize - 1 -> Nat]
        /\ tail' \in Nat /\ len' \in Int /\ free' \in Nat /\ ptr' \in Nat
    <3>1. [start |-> tail, len |-> xmit.size] \in [start : Nat, len : Nat]
      BY DEF TypeOK
    <3>2. queue' \in [Slots -> [start : Nat, len : Nat]]
      BY <1>2, <3>1 DEF XmitBody, RegisterFrame, TypeOK
    <3>3. shm' \in [0 .. ShmSize - 1 -> Nat]
      BY <1>2 DEF XmitBody, RegisterFrame, TypeOK
    <3>4. tail' = tail + xmit.size /\ len' = len + 1 /\ free' = free + 1 /\ ptr' = ptr
      BY <1>2 DEF XmitBody, RegisterFrame
    <3>5. tail' \in Nat /\ len' \in Int /\ free' \in Nat /\ ptr' \in Nat
      BY <3>4 DEF TypeOK
    <3> QED
      BY <3>2, <3>3, <3>5
  <2>4. dma' \in [start : Nat, len : Nat]
    <3>1. Transfer(ptr)' \in [start : Nat, len : Nat]
      BY <2>3 DEF Transfer, NoDma
    <3> QED
      BY <1>2, <3>1 DEF XmitBody, TypeOK
  <2>5. reg' \in Reg /\ reg'.en \in {{"INTR", "TX"}, reg.en}
    <3>1. switch_bank(reg, 0) \in Reg /\ switch_bank(reg, 0).en = reg.en
      BY SwitchFacts DEF TypeOK
    <3> QED
      BY <1>2, <3>1, DmaWriteFacts DEF XmitBody
  <2>6. TypeOK'
    BY <2>1, <2>2, <2>3, <2>4, <2>5 DEF TypeOK
  <2>7. xmit # NoFrame
    BY <2>1 DEF NoFrame
  <2> QED
    BY <2>1, <2>5, <2>6, <2>7 DEF WaitInv, IrqInv, InIrq, HighSpeed
<1>3. CASE XmitLeave
  <2>1. tbusy' \in BOOLEAN
    BY <1>3, Zenon DEF XmitLeave
  <2>2. TypeOK'
    BY <1>3, <2>1 DEF TypeOK, NoFrame, XmitLeave, txq, irqv, lapv
  <2> QED
    BY <1>3, <2>2 DEF XmitLeave, txq, irqv, lapv, WaitInv, IrqInv, InIrq, HighSpeed
<1> QED
  BY <1>1, <1>2, <1>3

(* The interrupt loop at any time: what it serves is pending, in bank 0. *)
LEMMA IrqBase ==
  ASSUME BaseInv, IrqEnter \/ ServeTx \/ ServeRx \/ IrqPoll
  PROVE  BaseInv'
<1> USE TxAssumption DEF BaseInv
<1>0. reg \in Reg /\ reg.bank \in 0 .. 3 /\ saved \in 0 .. 3
  BY DEF TypeOK, Reg
<1>1. CASE IrqEnter
  <2>1. /\ baud # "SIR" /\ msr' \in pend /\ saved' = reg.bank /\ bogus' = 0
        /\ UNCHANGED <<ptr, len, free, tail, queue, shm>>
        /\ UNCHANGED <<tbusy, baud, xmit, dma, pend, rx, aired>>
        /\ UNCHANGED <<devq, lap, credit, cut, made>>
    BY <1>1 DEF IrqEnter, HighSpeed, txq, lapv
  <2>2. switch_bank(reg, 0) \in Reg /\ switch_bank(reg, 0).en = reg.en
        /\ switch_bank(reg, 0).bank = 0
    BY <1>0, SwitchFacts
  <2>3. reg' \in Reg /\ reg'.bank = 0 /\ reg'.en = reg.en
    BY <1>1, <2>2, AccessFacts DEF IrqEnter, Registers
  <2>4. TypeOK'
    BY <1>0, <2>1, <2>3 DEF TypeOK
  <2> QED
    BY <2>1, <2>3, <2>4 DEF WaitInv, IrqInv, HighSpeed, InIrq
<1>2. CASE ServeTx
  <2>1. /\ msr = "TX" /\ msr' = "served" /\ AfterComplete /\ tbusy' = FALSE
        /\ UNCHANGED <<baud, xmit, rx, bogus, saved, devq, lap, credit, cut, made, aired>>
    BY <1>2 DEF ServeTx, lapv
  <2>2. tbusy' \in BOOLEAN
    BY <2>1, Zenon
  <2> DEFINE m == XmitCompleteRegs(reg)
  <2>3. m \in Reg /\ m.en = {"INTR"} /\ Access(m, {"TX_CTRL1"}) \in Reg
    <3>1. m \in Reg /\ m.en = {"INTR"}
      BY <1>0, XmitCompleteFacts
    <3> QED
      BY <3>1, AccessFacts DEF Registers
  <2>4. Transfer(ptr + 1) \in [start : Nat, len : Nat]
    BY DEF Transfer, TypeOK, NoDma
  <2>5. /\ reg' \in {DmaWriteRegs(m), ReceiveRegs(Access(m, {"TX_CTRL1"})), m}
        /\ dma' \in {Transfer(ptr + 1), dma}
        /\ ptr' \in {ptr + 1, 0} /\ len' \in {len - 1, 0}
        /\ free' \in {free, 0} /\ tail' \in {tail, 0}
        /\ UNCHANGED <<queue, shm>>
        /\ pend' \subseteq pend
    BY <2>1 DEF AfterComplete, ResetTxq
  <2> HIDE DEF m
  <2>6. reg' \in Reg /\ ~({"TX", "RX"} \subseteq reg'.en)
    BY <2>3, <2>5, DmaWriteFacts, ReceiveFacts
  <2>7. ptr' \in Nat /\ len' \in Int /\ free' \in Nat /\ tail' \in Nat
    BY <2>5 DEF TypeOK
  <2>8. TypeOK'
    BY <2>1, <2>2, <2>4, <2>5, <2>6, <2>7 DEF TypeOK
  <2> QED
    BY <2>1, <2>6, <2>8 DEF WaitInv, IrqInv, HighSpeed, InIrq
<1>3. CASE ServeRx
  <2>1. /\ msr = "RX" /\ msr' = "served" /\ Deliver
        /\ pend' = pend \ {"RX"} /\ rx' = "dropped"
        /\ UNCHANGED <<ptr, len, free, tail, queue, shm>>
        /\ UNCHANGED <<tbusy, baud, xmit, dma, bogus, saved, devq, cut, made, aired>>
    BY <1>3 DEF ServeRx, txq
  <2> DEFINE m == Access(switch_bank(reg, 1), {"RX_RING_FRM_PTR"})
  <2>2. switch_bank(reg, 1) \in Reg /\ switch_bank(reg, 1).en = reg.en
    BY <1>0, SwitchFacts
  <2>3. m \in Reg /\ m.en = reg.en
    BY <2>2, AccessFacts DEF Registers
  <2>4. reg' = IF rx = "overrun" THEN Access(switch_bank(m, 0), {"RESET"}) ELSE m
    BY <1>3 DEF ServeRx
  <2> HIDE DEF m
  <2>5. switch_bank(m, 0) \in Reg /\ switch_bank(m, 0).en = m.en
    BY <2>3, SwitchFacts
  <2>6. reg' \in Reg /\ reg'.en = reg.en
    BY <2>3, <2>4, <2>5, AccessFacts DEF Registers
  <2>7. \/ lap' = "fresh" /\ credit' = Window /\ lap \in {"fresh", "mine", "theirs"}
        \/ lap' = lap /\ credit' = credit
    BY <2>1 DEF Deliver
  <2>8. TypeOK'
    BY <2>1, <2>6, <2>7 DEF TypeOK, RxStat
  <2> QED
    BY <2>1, <2>6, <2>7, <2>8 DEF WaitInv, IrqInv, HighSpeed, InIrq
<1>4. CASE IrqPoll
  <2>1. /\ msr = "served" /\ baud # "SIR"
        /\ UNCHANGED <<ptr, len, free, tail, queue, shm>>
        /\ UNCHANGED <<tbusy, baud, xmit, dma, pend, rx, saved, aired>>
        /\ UNCHANGED <<devq, lap, credit, cut, made>>
    BY <1>4 DEF IrqPoll, HighSpeed, txq, lapv, IrqInv, InIrq
  <2> DEFINE m == Access(reg, {"MSR"})
  <2>2. m \in Reg /\ m.bank = reg.bank /\ m.en = reg.en
    BY <1>0, AccessFacts DEF Registers
  <2>3. \/ /\ msr' = "none" /\ bogus' = 0
           /\ reg' = switch_bank(reg, saved) \/ reg' = switch_bank(m, saved)
        \/ /\ msr' \in pend /\ reg.bank = 0 /\ reg' = m
           /\ bogus <= BogusLimit /\ bogus' = bogus + 1
    BY <1>4 DEF IrqPoll, TypeOK
  <2> HIDE DEF m
  <2>4. reg' \in Reg /\ reg'.en = reg.en
    BY <1>0, <2>2, <2>3, SwitchFacts
  <2>5. bogus' \in 0 .. BogusLimit + 1
    <3>1. bogus \in Nat /\ BogusLimit \in Nat
      BY DEF TypeOK
    <3> QED
      BY <2>3, <3>1
  <2>6. pend \subseteq {"TX", "RX"} /\ msr' \in {"none", "TX", "RX", "served"}
    BY <2>3 DEF TypeOK
  <2>7. TypeOK'
    BY <2>1, <2>4, <2>5, <2>6 DEF TypeOK
  <2> QED
    BY <2>1, <2>2, <2>3, <2>4, <2>7 DEF WaitInv, IrqInv, HighSpeed, InIrq
<1> QED
  BY <1>1, <1>2, <1>3, <1>4

(* A change of speed at any time leaves nothing enabled, or the receiver. *)
LEMMA SpeedBase ==
  ASSUME BaseInv, LapChangeSpeed \/ CardReset
  PROVE  BaseInv'
<1> USE TxAssumption DEF BaseInv
<1>1. PICK speed \in Speeds, r \in {reg, set_mcr(reg, {}, 0)} :
        /\ ChangeSpeed(speed, r) /\ msr = "none"
        /\ UNCHANGED <<xmit, msr, bogus, saved, devq, credit, made, aired>>
        /\ pend' \in {pend, {}} /\ rx' \in {rx, "dropped"}
        /\ lap' \in {lap, "theirs"}
  BY DEF LapChangeSpeed, CardReset, InIrq, irqv, Speeds
<1>2. cut' \subseteq {"frames", "TX"}
  BY DEF LapChangeSpeed, CardReset, TypeOK
<1>3. r \in Reg
  BY SetMcrFacts DEF TypeOK
<1> DEFINE m == ChangeSpeedRegs(r, speed)
<1>4. m \in Reg /\ m.en = {}
  BY <1>3, ChangeSpeedFacts
<1>5. /\ baud' = speed /\ dma' = NoDma /\ queue' = queue /\ shm' = shm
      /\ \/ ptr' = 0 /\ len' = 0 /\ free' = 0 /\ tail' = 0 /\ reg' = ReceiveRegs(m)
         \/ UNCHANGED <<ptr, len, free, tail>> /\ reg' = m
  BY <1>1 DEF ChangeSpeed, ResetTxq, txq
<1> HIDE DEF m
<1>6. reg' \in Reg /\ ~({"TX", "RX"} \subseteq reg'.en)
  BY <1>4, <1>5, ReceiveFacts
<1>7. tbusy' \in BOOLEAN
  <2>1. tbusy' = FALSE
    BY <1>1 DEF ChangeSpeed
  <2> QED
    BY <2>1, Zenon
<1>8. ptr' \in Nat /\ len' \in Int /\ free' \in Nat /\ tail' \in Nat
  BY <1>5 DEF TypeOK
<1>9. TypeOK'
  BY <1>1, <1>2, <1>5, <1>6, <1>7, <1>8 DEF TypeOK, NoDma, RxStat
<1> QED
  BY <1>1, <1>6, <1>9 DEF WaitInv, IrqInv, HighSpeed, InIrq

(* IrLAP, irport and the chip at any time. *)
LEMMA EnvironmentBase ==
  ASSUME BaseInv, Environment
  PROVE  BaseInv'
<1> USE TxAssumption DEF BaseInv
<1>1. CASE LapSend
  <2>1. PICK size \in FrameLen :
          /\ lap \in {"fresh", "mine"} /\ credit > 0 /\ lap' = "mine"
          /\ devq' = Append(devq, [id |-> made + 1, size |-> size, at |-> "queued"])
          /\ made' = made + 1 /\ credit' = credit - 1
          /\ UNCHANGED <<ptr, len, free, tail, queue, shm>>
          /\ UNCHANGED <<tbusy, baud, xmit, reg, dma, pend, rx>>
          /\ UNCHANGED <<msr, bogus, saved, cut, aired>>
    BY <1>1 DEF LapSend, txq, irqv
  <2>2. [id |-> made + 1, size |-> size, at |-> "queued"] \in Queued /\ devq \in Seq(Queued)
    BY DEF TypeOK, Queued
  <2>3. devq' \in Seq(Queued)
    BY <2>1, <2>2, AppendProperties
  <2>4. credit' \in Nat /\ made' \in Nat
    BY <2>1 DEF TypeOK
  <2>5. TypeOK'
    BY <2>1, <2>3, <2>4 DEF TypeOK, Queued
  <2> QED
    BY <2>1, <2>5 DEF WaitInv, IrqInv, HighSpeed, InIrq
<1>2. CASE LapPassTurn \/ LapTimeout \/ LapWait \/ WaitUntilSentReturns
  <2>1. /\ UNCHANGED <<ptr, len, free, tail, queue, shm>>
        /\ UNCHANGED <<tbusy, baud, xmit, reg, dma, pend, rx>>
        /\ UNCHANGED <<msr, bogus, saved, devq, cut, made, aired>>
        /\ credit' \in {credit, 0, 1}
        /\ lap' \in {"fresh", "theirs", "wait", "waited"}
        /\ lap' \in {"wait", "waited"} => devq = <<>> /\ xmit = NoFrame /\ credit' = 0
    BY <1>2 DEF LapPassTurn, LapTimeout, LapWait, WaitUntilSentReturns, txq, irqv, WaitInv
  <2>2. TypeOK'
    BY <2>1 DEF TypeOK
  <2> QED
    BY <2>1, <2>2 DEF WaitInv, IrqInv, HighSpeed, InIrq
<1>3. CASE SirXmit
  <2>1. /\ devq # <<>> /\ devq' = Tail(devq) /\ aired' = Head(devq).id
        /\ UNCHANGED <<ptr, len, free, tail, queue, shm>>
        /\ UNCHANGED <<tbusy, baud, xmit, reg, dma, pend, rx>>
        /\ UNCHANGED <<msr, bogus, saved, lap, credit, cut, made>>
    BY <1>3 DEF SirXmit, txq, irqv
  <2>2. devq \in Seq(Queued)
    BY DEF TypeOK, Queued
  <2>3. devq' \in Seq(Queued) /\ Head(devq) \in Queued
    BY <2>1, <2>2, HeadTailProperties
  <2>4. TypeOK'
    BY <2>1, <2>3 DEF TypeOK, Queued
  <2> QED
    BY <2>1, <2>4 DEF WaitInv, IrqInv, HighSpeed, InIrq
<1>4. CASE ChipTxDone
  <2>1. /\ HighSpeed /\ dma' = NoDma /\ pend' = pend \cup {"TX"}
        /\ aired' = FrameAt(dma)
        /\ UNCHANGED <<ptr, len, free, tail, queue, shm>>
        /\ UNCHANGED <<tbusy, baud, xmit, reg, rx, msr, bogus, saved>>
        /\ UNCHANGED <<devq, lap, credit, cut, made>>
    BY <1>4 DEF ChipTxDone, txq, irqv, lapv
  <2>2. TypeOK'
    BY <2>1, FrameAtType DEF TypeOK, NoDma
  <2> QED
    BY <2>1, <2>2 DEF WaitInv, IrqInv, HighSpeed, InIrq
<1>5. CASE ChipRx
  <2>1. /\ HighSpeed /\ pend = {} /\ pend' = {"RX"} /\ rx' \in RxStat
        /\ UNCHANGED <<ptr, len, free, tail, queue, shm>>
        /\ UNCHANGED <<tbusy, baud, xmit, reg, dma, msr, bogus, saved, aired>>
        /\ UNCHANGED <<devq, lap, credit, cut, made>>
    BY <1>5 DEF ChipRx, txq, irqv, lapv
  <2>2. TypeOK'
    BY <2>1 DEF TypeOK
  <2> QED
    BY <2>1, <2>2 DEF WaitInv, IrqInv, HighSpeed, InIrq
<1> QED
  BY <1>1, <1>2, <1>3, <1>4, <1>5 DEF Environment

(* The part of the invariant that no step ever breaks. *)
LEMMA BaseStep ==
  ASSUME BaseInv, [Next]_vars
  PROVE  BaseInv'
<1>1. CASE Driver
  BY <1>1, XmitBase, IrqBase, SpeedBase DEF Driver
<1>2. CASE Environment
  BY <1>2, EnvironmentBase
<1>3. CASE UNCHANGED vars
  BY <1>3 DEF vars, txq, irqv, lapv, BaseInv, TypeOK, WaitInv, IrqInv, HighSpeed, InIrq
<1> QED
  BY <1>1, <1>2, <1>3 DEF Next
-----------------------------------------------------------------------------
(* Taking the transmit lock: a frame moves from devq to the entrance. *)
LEMMA XmitEnterInv ==
  ASSUME FullInv, XmitEnter
  PROVE  QueueInv' /\ LoadInv'
<1> USE TxAssumption, Capacity DEF XmitEnter, txq, irqv, FullInv, BaseInv, HighSpeed
<1> DEFINE Frame == [id : Nat, size : FrameLen, at : {"queued"}]
<1>0. devq \in Seq(Frame) /\ devq # <<>> /\ devq' = Tail(devq)
  BY DEF TypeOK
<1>1. /\ devq' \in Seq(Frame)
      /\ Len(devq) \in Nat /\ Len(devq') = Len(devq) - 1
      /\ Head(devq) \in Frame
  <2> HIDE DEF Frame, XmitEnter
  <2> QED
    BY <1>0, HeadTailProperties, LenProperties
<1>2. /\ xmit' \in [id : Nat, size : Nat, at : {"none", "locked", "unlocked"}]
      /\ xmit'.at = "locked"
      /\ xmit'.size \in FrameLen
  BY <1>1
<1>5. Entering = 0 /\ Entering' = 1
  BY <1>2 DEF TypeOK, Entering, NoFrame
<1>6. QueueInv'
  BY <1>1, <1>5 DEF TypeOK, QueueInv
<1>7. LoadInv'
  <2>0. /\ free \in Nat /\ credit \in Nat /\ Window \in Nat
        /\ free' = free /\ credit' = credit
        /\ Load <= Window + 1
    BY DEF TypeOK, LoadInv
  <2>1. Load' = Load
    <3> HIDE DEF FullInv, BaseInv, XmitEnter
    <3> QED
      BY <1>1, <1>5, <2>0 DEF Load
  <2>2. free + 1 <= Window + 1
    <3> HIDE DEF FullInv, BaseInv, XmitEnter
    <3>1. Len(devq) >= 1
      BY <1>0, EmptySeq
    <3> QED
      BY <1>1, <1>5, <2>0, <3>1 DEF Load
  <2> QED
    BY <1>2, <1>5, <2>1, <2>2 DEF LoadInv
<1> QED
  BY <1>6, <1>7

(* Releasing the transmit lock changes nothing else. *)
LEMMA XmitLeaveInv ==
  ASSUME FullInv, XmitLeave
  PROVE  QueueInv' /\ LoadInv'
<1> USE TxAssumption, Capacity DEF XmitLeave, txq, irqv, lapv, FullInv, BaseInv, HighSpeed
<1>2. Entering = 0 /\ Entering' = 0
  BY DEF TypeOK, Entering, NoFrame
<1>3. QueueInv'
  BY <1>2 DEF TypeOK, QueueInv
<1>4. LoadInv'
  BY <1>2 DEF TypeOK, LoadInv, Load, NoFrame
<1> QED
  BY <1>3, <1>4

(* The terms of Load are natural numbers. *)
LEMMA LoadTypes ==
  ASSUME TypeOK
  PROVE  /\ free \in Nat /\ credit \in Nat /\ Entering \in {0, 1}
         /\ Len(devq) \in Nat /\ Load \in Nat
<1>1. free \in Nat /\ credit \in Nat
  BY DEF TypeOK
<1>2. Entering \in {0, 1}
  BY DEF Entering
<1>3. Len(devq) \in Nat
  BY LenProperties DEF TypeOK
<1> QED
  BY <1>1, <1>2, <1>3 DEF Load

(* Storing a frame: the load is the same, one slot more is used. *)
LEMMA XmitBodyInv ==
  ASSUME FullInv, XmitBody
  PROVE  QueueInv' /\ LoadInv'
<1> USE TxAssumption, Capacity DEF FullInv, BaseInv
<1>0. /\ xmit.at = "locked" /\ msr = "none" /\ RegisterFrame
      /\ xmit' = [xmit EXCEPT !.at = "unlocked"]
      /\ UNCHANGED <<tbusy, baud, pend, rx, msr, bogus, saved>>
      /\ UNCHANGED <<devq, lap, credit, cut, made, aired>>
  BY DEF XmitBody, InIrq, irqv, lapv
<1>1. Entering = 1 /\ Entering' = 0 /\ xmit'.size = xmit.size
      /\ xmit' \in [id : Nat, size : Nat, at : {"none", "locked", "unlocked"}]
  BY <1>0 DEF TypeOK, Entering
<1>2. /\ free \in Nat /\ free < MAX_WINDOW /\ free + 1 <= Window + 1
      /\ xmit.size \in Nat \ {0} /\ xmit.size <= MaxLen
      /\ free' = free + 1 /\ len' = len + 1 /\ ptr' = ptr
      /\ tail' = tail + xmit.size
  <2>1. free \in Nat /\ free + Entering <= Window + 1
    BY DEF TypeOK, LoadInv
  <2>2. free + 1 <= Window + 1 /\ free < MAX_WINDOW
    BY <1>1, <2>1
  <2>3. xmit.size \in FrameLen
    BY <1>0 DEF LoadInv
  <2>4. /\ free' = free + 1 /\ len' = len + 1 /\ ptr' = ptr
        /\ tail' = tail + xmit.size
    BY <1>0 DEF RegisterFrame
  <2> QED
    BY <2>1, <2>2, <2>3, <2>4
<1>3. queue' = [queue EXCEPT ![free] = [start |-> tail, len |-> xmit.size]]
  BY <1>0 DEF RegisterFrame
<1>4. queue' \in [Slots -> [start : Nat, len : Nat]]
  BY <1>2, <1>3 DEF TypeOK
<1>6. reg' \in Reg /\ reg'.bank = 0
      /\ reg'.en = IF len = 0 THEN {"INTR", "TX"} ELSE reg.en
  <2>1. switch_bank(reg, 0) \in Reg /\ switch_bank(reg, 0).en = reg.en
        /\ switch_bank(reg, 0).bank = 0
    BY SwitchFacts DEF TypeOK
  <2>2. len \in Int /\ (len + 1 = 1 <=> len = 0)
    BY DEF TypeOK
  <2> QED
    BY <2>1, <2>2, DmaWriteFacts DEF XmitBody
<1>7. dma' = IF len = 0 THEN Transfer(ptr)' ELSE dma
  <2>1. len \in Int /\ (len + 1 = 1 <=> len = 0)
    BY DEF TypeOK
  <2> QED
    BY <2>1 DEF XmitBody
<1>10. ASSUME baud # "SIR", len = 0
       PROVE  dma' # NoDma /\ dma' = queue'[ptr] /\ ptr = free
  <2>1. ptr = free
    BY <1>10 DEF QueueInv, HighSpeed, TypeOK
  <2>2. queue'[ptr] = [start |-> tail, len |-> xmit.size]
    BY <1>2, <1>3, <2>1 DEF TypeOK, Slots
  <2>3. dma' = queue'[ptr]
    BY <1>2, <1>7, <1>10, <2>1 DEF Transfer, Slots
  <2> QED
    BY <1>2, <2>1, <2>2, <2>3 DEF NoDma
<1>11. QueueInv'
  <2> SUFFICES ASSUME baud # "SIR"
               PROVE  QueueInv'
    BY <1>0 DEF QueueInv, HighSpeed
  <2>1. len \in Int /\ ptr \in Nat /\ len >= 0 /\ ptr + len = free
    BY DEF QueueInv, HighSpeed, TypeOK
  <2>2. \A i \in ptr .. free :
          queue'[i].len > 0 /\ queue'[i].start + queue'[i].len <= tail'
    <3> TAKE i \in ptr .. free
    <3>1. CASE i = free
      BY <1>2, <1>3, <3>1 DEF TypeOK, Slots
    <3>2. CASE i # free
      <4>1. i \in ptr .. free - 1
        BY <1>2, <2>1, <3>2
      <4>2. queue'[i] = queue[i]
        BY <1>2, <1>3, <2>1, <4>1 DEF TypeOK, Slots
      <4>3. queue[i] \in [start : Nat, len : Nat]
        BY <1>2, <2>1, <4>1 DEF TypeOK, Slots
      <4> QED
        BY <1>2, <4>1, <4>2, <4>3 DEF QueueInv, HighSpeed, TypeOK
    <3> QED
      BY <3>1, <3>2
  <2>3. len' >= 0 /\ len' > 0 /\ ptr' + len' = free' /\ free' - 1 = free
    BY <1>2, <2>1
  <2>4. /\ dma' # NoDma \/ "TX" \in pend'
        /\ ~(dma' # NoDma /\ "TX" \in pend')
        /\ dma' # NoDma => dma' = queue'[ptr']
        /\ "RX" \notin reg'.en
    <3>1. CASE len = 0
      BY <1>0, <1>2, <1>6, <1>10, <3>1 DEF QueueInv, HighSpeed
    <3>2. CASE len # 0
      <4>1. len > 0 /\ dma' = dma /\ pend' = pend /\ reg'.en = reg.en /\ ptr' = ptr
        BY <1>0, <1>2, <1>6, <1>7, <2>1, <3>2
      <4>2. queue'[ptr] = queue[ptr]
        BY <1>2, <1>3, <2>1, <3>2 DEF TypeOK, Slots
      <4> QED
        BY <4>1, <4>2 DEF QueueInv, HighSpeed
    <3> QED
      BY <3>1, <3>2
  <2>5. baud' # "SIR"
    BY <1>0
  <2>6. \A i \in ptr' .. free' - 1 :
          queue'[i].len > 0 /\ queue'[i].start + queue'[i].len <= tail'
    BY <1>2, <2>2, <2>3
  <2> QED
    BY <2>3, <2>4, <2>5, <2>6 DEF QueueInv, HighSpeed
<1>12. LoadInv'
  <2>1. Load' = Load
    BY <1>0, <1>1, <1>2, LoadTypes, SMTT(60) DEF Load
  <2>2. tail' <= free' * MaxLen
    <3>1. tail <= free * MaxLen /\ tail \in Nat
      BY DEF LoadInv, TypeOK
    <3>2. (free + 1) * MaxLen = free * MaxLen + MaxLen
      BY <1>2
    <3>3. free * MaxLen \in Nat
      BY <1>2
    <3> QED
      BY <1>2, <3>1, <3>2, <3>3
  <2>3. xmit'.at # "locked"
    BY <1>0 DEF TypeOK
  <2> QED
    BY <1>0, <1>1, <1>2, <2>1, <2>2, <2>3 DEF LoadInv, HighSpeed
<1> QED
  BY <1>11, <1>12

(* Entering the loop: the cause read from MSR is pending, bank 0 is on. *)
LEMMA IrqEnterInv ==
  ASSUME FullInv, IrqEnter
  PROVE  QueueInv' /\ LoadInv'
<1> USE TxAssumption, Capacity DEF FullInv, BaseInv
<1>0. /\ baud # "SIR" /\ msr' \in pend /\ saved' = reg.bank /\ bogus' = 0
      /\ UNCHANGED <<ptr, len, free, tail, queue, shm>>
      /\ UNCHANGED <<tbusy, baud, xmit, dma, pend, rx, aired>>
      /\ UNCHANGED <<devq, lap, credit, cut, made>>
  BY DEF IrqEnter, HighSpeed, txq, lapv
<1>1. reg' \in Reg /\ reg'.bank = 0 /\ reg'.en = reg.en
  <2>1. switch_bank(reg, 0) \in Reg /\ switch_bank(reg, 0).en = reg.en
        /\ switch_bank(reg, 0).bank = 0
    BY SwitchFacts DEF TypeOK
  <2> QED
    BY <2>1, AccessFacts DEF IrqEnter, Registers
<1>3. QueueInv' /\ LoadInv'
  BY <1>0, <1>1 DEF QueueInv, LoadInv, WaitInv, HighSpeed, Entering, Load
<1> QED
  BY <1>3

(* Reading MSR again: another pending cause in bank 0, or out. *)
LEMMA IrqPollInv ==
  ASSUME FullInv, IrqPoll
  PROVE  QueueInv' /\ LoadInv'
<1> USE TxAssumption, Capacity DEF FullInv, BaseInv
<1>0. /\ msr = "served" /\ baud # "SIR"
      /\ UNCHANGED <<ptr, len, free, tail, queue, shm>>
      /\ UNCHANGED <<tbusy, baud, xmit, dma, pend, rx, saved, aired>>
      /\ UNCHANGED <<devq, lap, credit, cut, made>>
  BY DEF IrqPoll, HighSpeed, txq, lapv, IrqInv, InIrq
<1> DEFINE m == Access(reg, {"MSR"})
<1>1. reg \in Reg /\ saved \in 0 .. 3
      /\ m \in Reg /\ m.bank = reg.bank /\ m.en = reg.en
  BY AccessFacts DEF TypeOK, Registers
<1>2. \/ /\ msr' = "none" /\ bogus' = 0
         /\ reg' = switch_bank(reg, saved) \/ reg' = switch_bank(m, saved)
      \/ /\ msr' \in pend /\ reg.bank = 0 /\ reg' = m
         /\ bogus <= BogusLimit /\ bogus' = bogus + 1
  BY DEF IrqPoll, TypeOK
<1> HIDE DEF m
<1>3. reg' \in Reg /\ reg'.en = reg.en
  BY <1>1, <1>2, SwitchFacts
<1>5. QueueInv' /\ LoadInv'
  BY <1>0, <1>3 DEF QueueInv, LoadInv, WaitInv, HighSpeed, Entering, Load
<1> QED
  BY <1>5

(* A frame is complete: the next one, or the turnaround, or neither. *)
LEMMA ServeTxInv ==
  ASSUME FullInv, ServeTx
  PROVE  QueueInv' /\ LoadInv'
<1> USE TxAssumption, Capacity DEF FullInv, BaseInv
<1>0. /\ msr = "TX" /\ msr' = "served" /\ AfterComplete /\ tbusy' = FALSE
      /\ UNCHANGED <<baud, xmit, rx, bogus, saved, devq, lap, credit, cut, made, aired>>
  BY DEF ServeTx, lapv
<1>1. baud # "SIR" /\ "TX" \in pend /\ reg.bank = 0 /\ dma = NoDma
      /\ len \in Nat \ {0} /\ ptr \in Nat /\ free \in Nat /\ ptr + len = free
  BY <1>0 DEF IrqInv, InIrq, QueueInv, HighSpeed, TypeOK
<1> DEFINE m == XmitCompleteRegs(reg)
<1>2. m \in Reg /\ m.bank = 0 /\ m.en = {"INTR"}
  BY <1>1, XmitCompleteFacts DEF TypeOK
<1>3. Access(m, {"TX_CTRL1"}) \in Reg
  BY <1>2, AccessFacts DEF Registers
<1>5. free <= MAX_WINDOW /\ Entering' = Entering
  BY <1>0, <1>1, LoadTypes DEF LoadInv, Entering
<1>6. CASE len - 1 # 0
  <2>1. /\ ptr' = ptr + 1 /\ len' = len - 1 /\ dma' = Transfer(ptr + 1)
        /\ UNCHANGED <<free, tail, queue, shm>>
        /\ reg' = DmaWriteRegs(m) /\ pend' = pend \ {"TX"}
    BY <1>0, <1>1, <1>6 DEF AfterComplete
  <2>2. reg' \in Reg /\ reg'.en = {"INTR", "TX"}
    BY <1>2, <2>1, DmaWriteFacts
  <2>3. ptr + 1 \in Slots /\ ptr + 1 \in ptr .. free - 1 /\ len' > 0
    BY <1>1, <1>5, <1>6, <2>1 DEF Slots
  <2>4. dma' = queue[ptr + 1] /\ queue[ptr + 1].len > 0
    BY <1>1, <2>1, <2>3 DEF Transfer, QueueInv, HighSpeed
  <2>5. dma' # NoDma /\ dma' \in [start : Nat, len : Nat]
    BY <2>3, <2>4 DEF NoDma, TypeOK
  <2>7. \A i \in ptr' .. free' - 1 :
          queue'[i].len > 0 /\ queue'[i].start + queue'[i].len <= tail'
    BY <1>1, <2>1 DEF QueueInv, HighSpeed
  <2>8. QueueInv'
    BY <1>0, <1>1, <2>1, <2>2, <2>3, <2>4, <2>5, <2>7 DEF QueueInv, HighSpeed
  <2>9. LoadInv'
    BY <1>0, <1>5, <2>1 DEF LoadInv, HighSpeed, Load
  <2> QED
    BY <2>8, <2>9
<1>7. CASE len - 1 = 0 /\ devq = <<>>
  <2>1. /\ ptr' = 0 /\ len' = 0 /\ free' = 0 /\ tail' = 0
        /\ UNCHANGED <<queue, shm, dma>>
        /\ reg' = ReceiveRegs(Access(m, {"TX_CTRL1"})) /\ pend' = {}
    BY <1>0, <1>1, <1>7 DEF AfterComplete, ResetTxq
  <2>2. reg' \in Reg /\ reg'.en = {"RX", "INTR"}
    BY <1>3, <2>1, ReceiveFacts
  <2>4. QueueInv'
    BY <1>0, <1>1, <2>1, <2>2 DEF QueueInv, HighSpeed
  <2>5. LoadInv'
    <3>1. free + Entering <= Window + 1 /\ Load <= Window + 1
      BY <1>1 DEF LoadInv, HighSpeed
    <3>2. 0 + Entering' <= Window + 1 /\ Load' <= Window + 1
      BY <1>0, <1>5, <2>1, <3>1, LoadTypes DEF Load
    <3> QED
      BY <1>0, <2>1, <3>2 DEF LoadInv
  <2> QED
    BY <2>4, <2>5
<1>8. CASE len - 1 = 0 /\ devq # <<>>
  <2>1. /\ ptr' = ptr + 1 /\ len' = 0 /\ UNCHANGED <<free, tail, queue, shm, dma>>
        /\ reg' = m /\ pend' = pend \ {"TX"}
    BY <1>0, <1>1, <1>8 DEF AfterComplete
  <2>3. QueueInv'
    BY <1>0, <1>1, <1>2, <1>8, <2>1 DEF QueueInv, HighSpeed
  <2>4. LoadInv'
    BY <1>0, <1>5, <2>1 DEF LoadInv, HighSpeed, Load
  <2> QED
    BY <2>3, <2>4
<1> QED
  BY <1>6, <1>7, <1>8

(* A frame was received: an answer gives IrLAP a new window. *)
LEMMA ServeRxInv ==
  ASSUME FullInv, ServeRx
  PROVE  QueueInv' /\ LoadInv'
<1> USE TxAssumption, Capacity DEF FullInv, BaseInv
<1>0. /\ msr = "RX" /\ msr' = "served" /\ Deliver
      /\ pend' = pend \ {"RX"} /\ rx' = "dropped"
      /\ UNCHANGED <<ptr, len, free, tail, queue, shm>>
      /\ UNCHANGED <<tbusy, baud, xmit, dma, bogus, saved, devq, cut, made, aired>>
  BY DEF ServeRx, txq
<1>1. baud # "SIR" /\ "RX" \in pend
  BY <1>0 DEF IrqInv, InIrq, HighSpeed
<1> DEFINE m == Access(switch_bank(reg, 1), {"RX_RING_FRM_PTR"})
<1>2. m \in Reg /\ m.en = reg.en
  <2>1. switch_bank(reg, 1) \in Reg /\ switch_bank(reg, 1).en = reg.en
    <3>1. reg \in Reg /\ 1 \in 0 .. 3
      BY DEF TypeOK
    <3> QED
      BY <3>1, SwitchFacts
  <2> QED
    BY <2>1, AccessFacts DEF Registers
<1>3. reg' = IF rx = "overrun" THEN Access(switch_bank(m, 0), {"RESET"}) ELSE m
  BY DEF ServeRx
<1> HIDE DEF m
<1>4. reg' \in Reg /\ reg'.en = reg.en
  <2>1. switch_bank(m, 0) \in Reg /\ switch_bank(m, 0).en = m.en
    BY <1>2, SwitchFacts
  <2> QED
    BY <1>2, <1>3, <2>1, AccessFacts DEF Registers
<1>5. \/ lap' = "fresh" /\ credit' = Window /\ rx = "answer"
         /\ lap \in {"fresh", "mine", "theirs"}
      \/ lap' = lap /\ credit' = credit
  BY <1>0 DEF Deliver
<1>7. Entering' = Entering
  BY <1>0 DEF Entering
<1>8. QueueInv'
  BY <1>0, <1>4, <1>7 DEF QueueInv, HighSpeed
<1>9. LoadInv'
  <2>1. free' + Entering' <= Window + 1 /\ tail' <= free' * MaxLen
        /\ (xmit'.at = "locked" => xmit'.size \in FrameLen)
    BY <1>0, <1>7 DEF LoadInv
  <2>2. CASE lap' = lap /\ credit' = credit
    BY <1>0, <1>7, <2>1, <2>2 DEF LoadInv, Load, HighSpeed
  <2>3. CASE lap' = "fresh" /\ credit' = Window /\ rx = "answer"
    <3>1. Load <= 1
      BY <1>1, <2>3 DEF LoadInv, HighSpeed
    <3>2. Load' <= Window + 1
      BY <1>0, <1>7, <2>3, <3>1, LoadTypes DEF Load
    <3> QED
      BY <1>0, <2>1, <2>3, <3>2 DEF LoadInv
  <2> QED
    BY <1>5, <2>2, <2>3
<1> QED
  BY <1>8, <1>9
-----------------------------------------------------------------------------
(* A speed change resets the queue or goes where nothing of it is          *)
(* promised, unless it cuts a completion off.                              *)
LEMMA LapChangeSpeedInv ==
  ASSUME FullInv, LapChangeSpeed, Intact'
  PROVE  QueueInv' /\ LoadInv'
<1> USE TxAssumption, Capacity DEF FullInv, BaseInv
<1>0. PICK speed \in Speeds :
        /\ lap = "waited" /\ msr = "none" /\ lap' = "theirs"
        /\ ChangeSpeed(speed, reg)
        /\ UNCHANGED <<xmit, pend, rx, msr, bogus, saved>>
        /\ UNCHANGED <<devq, credit, made, aired>>
  BY DEF LapChangeSpeed, InIrq, irqv
<1>1. devq = <<>> /\ xmit = NoFrame /\ credit = 0 /\ Entering = 0
  BY <1>0 DEF WaitInv, Entering, NoFrame
<1>2. Len(devq) = 0
  BY <1>1
<1>3. baud' = speed /\ dma' = NoDma /\ queue' = queue /\ shm' = shm
  BY <1>0 DEF ChangeSpeed, ResetTxq, txq
<1>5. "TX" \notin pend
  BY DEF LapChangeSpeed, Intact
<1> DEFINE m == ChangeSpeedRegs(reg, speed)
<1>6. m \in Reg /\ m.en = {}
  BY ChangeSpeedFacts DEF TypeOK
<1>7. \/ speed # "SIR" /\ ptr' = 0 /\ len' = 0 /\ free' = 0 /\ tail' = 0
         /\ reg' = ReceiveRegs(m)
      \/ speed = "SIR" /\ UNCHANGED <<ptr, len, free, tail>> /\ reg' = m
  BY <1>0 DEF ChangeSpeed, ResetTxq, txq
<1> HIDE DEF m
<1>10. Entering' = 0 /\ Len(devq') = 0 /\ credit' = 0
  BY <1>0, <1>1, <1>2 DEF Entering
<1>11. QueueInv'
  BY <1>0, <1>3, <1>5, <1>7 DEF QueueInv, HighSpeed
<1>12. LoadInv'
  <2>1. free + 0 <= Window + 1 /\ tail <= free * MaxLen
    BY <1>1 DEF LoadInv
  <2>2. free' + 0 <= Window + 1 /\ tail' <= free' * MaxLen
    BY <1>7, <2>1
  <2>3. speed # "SIR" => Load' = 0
    BY <1>7, <1>10 DEF Load
  <2>4. xmit'.at # "locked"
    BY <1>0, <1>1 DEF NoFrame
  <2> QED
    BY <1>0, <1>3, <1>10, <2>2, <2>3, <2>4 DEF LoadInv, HighSpeed
<1> QED
  BY <1>11, <1>12

(* A card reset goes to SIR, where nothing of the queue is promised. *)
LEMMA CardResetInv ==
  ASSUME FullInv, CardReset
  PROVE  QueueInv' /\ LoadInv'
<1>1. /\ pend' = {} /\ baud' = "SIR"
      /\ UNCHANGED <<free, tail, xmit, lap, credit>>
  BY DEF CardReset, ChangeSpeed, txq
<1> QED
  BY <1>1 DEF FullInv, QueueInv, LoadInv, HighSpeed, Entering

(* A new frame: one more in the device queue, one credit less. *)
LEMMA LapSendInv ==
  ASSUME FullInv, LapSend
  PROVE  QueueInv' /\ LoadInv'
<1> USE TxAssumption, Capacity DEF FullInv, BaseInv
<1> DEFINE Frame == [id : Nat, size : FrameLen, at : {"queued"}]
<1>0. PICK size \in FrameLen :
        /\ lap \in {"fresh", "mine"} /\ credit > 0 /\ lap' = "mine"
        /\ devq' = Append(devq, [id |-> made + 1, size |-> size, at |-> "queued"])
        /\ made' = made + 1 /\ credit' = credit - 1
        /\ UNCHANGED <<ptr, len, free, tail, queue, shm>>
        /\ UNCHANGED <<tbusy, baud, xmit, reg, dma, pend, rx>>
        /\ UNCHANGED <<msr, bogus, saved, cut, aired>>
  BY DEF LapSend, txq, irqv
<1> DEFINE f == [id |-> made + 1, size |-> size, at |-> "queued"]
<1>1. f \in Frame /\ devq \in Seq(Frame)
  BY DEF TypeOK
<1>2. devq' = Append(devq, f)
  BY <1>0
<1> HIDE DEF Frame, f
<1>3. devq' \in Seq(Frame) /\ Len(devq') = Len(devq) + 1 /\ devq' # <<>>
  <2>1. devq' \in Seq(Frame) /\ Len(devq') = Len(devq) + 1
    BY <1>1, <1>2, AppendProperties
  <2>2. Len(devq) \in Nat
    BY <1>1, LenProperties
  <2> QED
    BY <2>1, <2>2, EmptySeq
<1>6. Entering' = Entering
  BY <1>0 DEF Entering
<1>7. Load' = Load
  BY <1>0, <1>3, <1>6, LoadTypes DEF Load
<1>8. QueueInv'
  BY <1>0, <1>3, <1>6 DEF QueueInv, HighSpeed
<1>9. LoadInv'
  BY <1>0, <1>6, <1>7 DEF LoadInv, HighSpeed
<1> QED
  BY <1>8, <1>9

(* The turn passes to the peer: the credit left is given up. *)
LEMMA LapPassTurnInv ==
  ASSUME FullInv, LapPassTurn
  PROVE  QueueInv' /\ LoadInv'
<1> USE TxAssumption, Capacity DEF FullInv, BaseInv
<1>0. /\ lap = "mine" /\ lap' = "theirs" /\ credit' = 0
      /\ UNCHANGED <<ptr, len, free, tail, queue, shm>>
      /\ UNCHANGED <<tbusy, baud, xmit, reg, dma, pend, rx>>
      /\ UNCHANGED <<msr, bogus, saved, devq, cut, made, aired>>
  BY DEF LapPassTurn, txq, irqv
<1>2. Entering' = Entering /\ Load' <= Load
  BY <1>0, LoadTypes DEF Load, Entering
<1>3. Load' \in Nat
  BY <1>0, <1>2, LoadTypes DEF Load
<1>4. QueueInv'
  BY <1>0, <1>2 DEF QueueInv, HighSpeed
<1>5. LoadInv'
  BY <1>0, <1>2, <1>3, LoadTypes DEF LoadInv, HighSpeed
<1> QED
  BY <1>4, <1>5

(* A poll: everything was sent, so the load is the one frame. *)
LEMMA LapTimeoutInv ==
  ASSUME FullInv, LapTimeout
  PROVE  QueueInv' /\ LoadInv'
<1> USE TxAssumption, Capacity DEF FullInv, BaseInv
<1>0. /\ lap = "theirs" /\ AllSent /\ lap' = "fresh" /\ credit' = 1
      /\ UNCHANGED <<ptr, len, free, tail, queue, shm>>
      /\ UNCHANGED <<tbusy, baud, xmit, reg, dma, pend, rx>>
      /\ UNCHANGED <<msr, bogus, saved, devq, cut, made, aired>>
  BY DEF LapTimeout, txq, irqv
<1>2. Entering = 0 /\ Entering' = 0 /\ devq = <<>>
  BY <1>0 DEF AllSent, Entering, NoFrame
<1>3. HighSpeed => free = 0
  BY <1>0, <1>2 DEF AllSent, QueueInv
<1>4. HighSpeed => Load' = 1
  BY <1>0, <1>2, <1>3 DEF Load
<1>5. QueueInv'
  BY <1>0, <1>2 DEF QueueInv, HighSpeed
<1>6. LoadInv'
  BY <1>0, <1>2, <1>4 DEF LoadInv, HighSpeed
<1> QED
  BY <1>5, <1>6

(* IrLAP waits: the frames in the card are at most the slots. *)
LEMMA LapWaitInv ==
  ASSUME FullInv, LapWait
  PROVE  QueueInv' /\ LoadInv'
<1> USE TxAssumption, Capacity DEF FullInv, BaseInv
<1>0. /\ devq = <<>> /\ xmit = NoFrame
      /\ lap' = "wait" /\ credit' = 0
      /\ UNCHANGED <<ptr, len, free, tail, queue, shm>>
      /\ UNCHANGED <<tbusy, baud, xmit, reg, dma, pend, rx>>
      /\ UNCHANGED <<msr, bogus, saved, devq, cut, made, aired>>
  BY DEF LapWait, txq, irqv
<1>2. Entering = 0 /\ Entering' = Entering /\ Load' <= Load /\ Load' \in Nat
  BY <1>0, LoadTypes DEF Load, Entering, NoFrame
<1>3. QueueInv'
  BY <1>0, <1>2 DEF QueueInv, HighSpeed
<1>4. LoadInv'
  BY <1>0, <1>2, LoadTypes DEF LoadInv, HighSpeed
<1> QED
  BY <1>3, <1>4

(* The wait is over: as many frames completed as there can have been. *)
LEMMA WaitReturnsInv ==
  ASSUME FullInv, WaitUntilSentReturns
  PROVE  QueueInv' /\ LoadInv'
<1> USE TxAssumption, Capacity DEF FullInv, BaseInv
<1>0. /\ lap = "wait" /\ lap' = "waited"
      /\ UNCHANGED <<ptr, len, free, tail, queue, shm>>
      /\ UNCHANGED <<tbusy, baud, xmit, reg, dma, pend, rx>>
      /\ UNCHANGED <<msr, bogus, saved, devq, credit, cut, made, aired>>
  BY DEF WaitUntilSentReturns, txq, irqv
<1>2. QueueInv' /\ LoadInv'
  BY <1>0 DEF QueueInv, LoadInv, IrqInv, HighSpeed, InIrq, Entering, Load
<1> QED
  BY <1>2

(* irport sends: only the device queue and the air change. *)
LEMMA SirXmitInv ==
  ASSUME FullInv, SirXmit
  PROVE  QueueInv' /\ LoadInv'
<1> USE TxAssumption, Capacity DEF FullInv, BaseInv
<1> DEFINE Frame == [id : Nat, size : FrameLen, at : {"queued"}]
<1>0. /\ baud = "SIR" /\ devq # <<>>
      /\ devq' = Tail(devq) /\ aired' = Head(devq).id
      /\ UNCHANGED <<ptr, len, free, tail, queue, shm>>
      /\ UNCHANGED <<tbusy, baud, xmit, reg, dma, pend, rx>>
      /\ UNCHANGED <<msr, bogus, saved, lap, credit, cut, made>>
  BY DEF SirXmit, HighSpeed, txq, irqv
<1>4. QueueInv' /\ LoadInv'
  BY <1>0 DEF QueueInv, LoadInv, IrqInv, HighSpeed, InIrq, Entering
<1> QED
  BY <1>4

(* The chip has sent a frame: the completion becomes pending. *)
LEMMA ChipTxDoneInv ==
  ASSUME FullInv, ChipTxDone
  PROVE  QueueInv' /\ LoadInv'
<1> USE TxAssumption, Capacity DEF FullInv, BaseInv
<1>0. /\ HighSpeed /\ dma # NoDma /\ dma' = NoDma /\ pend' = pend \cup {"TX"}
      /\ aired' = FrameAt(dma)
      /\ UNCHANGED <<ptr, len, free, tail, queue, shm>>
      /\ UNCHANGED <<tbusy, baud, xmit, reg, rx, msr, bogus, saved>>
      /\ UNCHANGED <<devq, lap, credit, cut, made>>
  BY DEF ChipTxDone, txq, irqv, lapv
<1>3. QueueInv'
  BY <1>0 DEF QueueInv, HighSpeed, Entering
<1>4. LoadInv'
  BY <1>0 DEF LoadInv, WaitInv, HighSpeed, Entering, Load
<1> QED
  BY <1>3, <1>4

(* A frame arrives: an answer means that everything was sent. *)
LEMMA ChipRxInv ==
  ASSUME FullInv, ChipRx
  PROVE  QueueInv' /\ LoadInv'
<1> USE TxAssumption, Capacity DEF FullInv, BaseInv
<1>0. /\ HighSpeed /\ "RX" \in reg.en /\ pend = {} /\ pend' = {"RX"}
      /\ rx' \in RxStat /\ (rx' = "answer" => lap = "theirs" /\ AllSent)
      /\ UNCHANGED <<ptr, len, free, tail, queue, shm>>
      /\ UNCHANGED <<tbusy, baud, xmit, reg, dma, msr, bogus, saved, aired>>
      /\ UNCHANGED <<devq, lap, credit, cut, made>>
  BY DEF ChipRx, txq, irqv, lapv
<1>2. QueueInv'
  BY <1>0 DEF QueueInv, HighSpeed, Entering
<1>3. rx' = "answer" => Load' <= 1
  <2> SUFFICES ASSUME rx' = "answer"
               PROVE  Load' <= 1
    OBVIOUS
  <2>1. devq = <<>> /\ Entering = 0 /\ len = 0 /\ credit = 0
    BY <1>0 DEF AllSent, Entering, NoFrame, LoadInv
  <2>2. free = 0 /\ Len(devq) = 0
    BY <1>0, <2>1 DEF QueueInv
  <2>3. Load = 0
    BY <2>1, <2>2 DEF Load
  <2>4. Load' = Load
    BY <1>0 DEF Load, Entering
  <2> QED
    BY <2>3, <2>4
<1>4. LoadInv'
  BY <1>0, <1>3 DEF LoadInv, HighSpeed, Entering, Load
<1> QED
  BY <1>2, <1>4

(* Until a speed change cuts a completion off, no step breaks the queue. *)
LEMMA FullStep ==
  ASSUME FullInv, [Next]_vars, Intact'
  PROVE  FullInv'
<1>1. BaseInv'
  BY BaseStep DEF FullInv
<1>2. QueueInv' /\ LoadInv'
  <2>1. CASE Driver
    BY <2>1, XmitEnterInv, XmitBodyInv, XmitLeaveInv, IrqEnterInv, ServeTxInv,
       ServeRxInv, IrqPollInv, LapChangeSpeedInv, CardResetInv DEF Driver
  <2>2. CASE Environment
    BY <2>2, LapSendInv, LapPassTurnInv, LapTimeoutInv, LapWaitInv,
       WaitReturnsInv, SirXmitInv, ChipTxDoneInv, ChipRxInv DEF Environment
  <2>3. CASE UNCHANGED vars
    BY <2>3 DEF vars, txq, irqv, lapv, FullInv, QueueInv, LoadInv, HighSpeed, Entering, Load
  <2> QED
    BY <2>1, <2>2, <2>3 DEF Next
<1> QED
  BY <1>1, <1>2 DEF FullInv

(* What has been cut off is not forgotten. *)
LEMMA CutGrows ==
  ASSUME [Next]_vars
  PROVE  cut \subseteq cut'
<1>1. CASE Driver
  BY <1>1 DEF Driver, XmitEnter, XmitBody, XmitLeave, IrqEnter, ServeTx, ServeRx, IrqPoll,
              LapChangeSpeed, CardReset, lapv
<1>2. CASE Environment
  BY <1>2 DEF Environment, LapSend, LapPassTurn, LapTimeout, LapWait, WaitUntilSentReturns,
              SirXmit, ChipTxDone, ChipRx, lapv
<1>3. CASE UNCHANGED vars
  BY <1>3 DEF vars, lapv
<1> QED
  BY <1>1, <1>2, <1>3 DEF Next

(* The invariant of IrcardTxInv in these terms. *)
LEMMA InvParts == IInv <=> BaseInv /\ (Intact => FullInv)
BY DEF IInv, BaseInv, FullInv
-----------------------------------------------------------------------------
(***************************************************************************)
(* The transmit queue of ircard_cs.c, for every window, frame length,      *)
(* number of slots and size of shared memory that satisfy Capacity, with   *)
(* or without card resets: the interrupt loop and the wait before a speed  *)
(* change always satisfy the inductive invariant, the counters, the        *)
(* transmitter and the load until a speed change cuts a completion off.    *)
(***************************************************************************)
THEOREM QueueInvariant == Spec => []IInv
<1>1. Init => IInv
  BY InitInv, InvParts DEF FullInv
<1>2. IInv /\ [Next]_vars => IInv'
  <2> SUFFICES ASSUME IInv, [Next]_vars
               PROVE  IInv'
    OBVIOUS
  <2>1. BaseInv'
    BY InvParts, BaseStep
  <2>2. Intact' => FullInv'
    BY InvParts, CutGrows, FullStep DEF Intact
  <2> QED
    BY <2>1, <2>2 DEF IInv, BaseInv, FullInv
<1> QED
  BY <1>1, <1>2, PTL DEF Spec

(***************************************************************************)
(* ircard_hard_xmit never stores past queue[MAX_WINDOW - 1] or past the    *)
(* end of the transmit memory, though it tests neither: Capacity, the      *)
(* window and the resets at each turnaround bound both, until a speed      *)
(* change cuts a completion off.                                           *)
(***************************************************************************)
THEOREM RingAlwaysFits == Spec => []RingFits
<1>1. IInv => RingFits
  <2> SUFFICES ASSUME FullInv
               PROVE  free <= MAX_WINDOW /\ tail <= ShmSize
    BY InvParts DEF RingFits
  <2>1. free <= Window + 1 /\ free \in Nat /\ tail \in Nat
    BY LoadTypes, TxAssumption DEF FullInv, BaseInv, LoadInv, TypeOK
  <2>2. free * MaxLen <= (Window + 1) * MaxLen
    BY <2>1, TxAssumption, Capacity
  <2>3. tail <= free * MaxLen
    BY DEF FullInv, LoadInv
  <2>4. tail <= ShmSize
    BY <2>1, <2>2, <2>3, TxAssumption, Capacity
  <2> QED
    BY <2>1, <2>4, TxAssumption, Capacity
<1> QED
  BY <1>1, QueueInvariant, PTL

(***************************************************************************)
(* At MIR and FIR speeds ptr, len and free of tx_q agree and len, which    *)
(* ircard_xmit_complete decrements untested, never goes below zero, also   *)
(* when speed changes and card resets throw queued frames away: the only   *)
(* thing that upsets the counters is a completion that was reported and    *)
(* not yet served when the speed changed (ircard_wait_until_sent waits for *)
(* neither).                                                               *)
(***************************************************************************)
THEOREM CountsAlwaysAgree == Spec => []CountsAgree
<1>1. IInv => CountsAgree
  BY InvParts DEF FullInv, QueueInv, CountsAgree
<1> QED
  BY <1>1, QueueInvariant, PTL

(***************************************************************************)
(* A frame ircard_hard_xmit left in the queue always has a transfer or a   *)
(* completion interrupt under way that will get to it, until a speed       *)
(* change cuts a completion off.                                           *)
(***************************************************************************)
THEOREM AlwaysTransmitting == Spec => []Transmitting
<1>1. IInv => Transmitting
  <2> SUFFICES ASSUME FullInv, HighSpeed
               PROVE  /\ len > 0 <=> dma # NoDma \/ "TX" \in pend
                      /\ dma # NoDma => dma = Transfer(ptr)
    BY InvParts DEF Transmitting
  <2>1. len > 0 <=> dma # NoDma \/ "TX" \in pend
    BY DEF FullInv, QueueInv
  <2>2. dma # NoDma => dma = queue[ptr] /\ ptr \in Slots
    <3>1. ptr \in Nat /\ len \in Int /\ free \in Nat /\ free <= Window + 1
      BY LoadTypes, TxAssumption DEF FullInv, BaseInv, LoadInv, TypeOK
    <3>2. dma # NoDma => dma = queue[ptr] /\ len > 0 /\ ptr + len = free
      BY DEF FullInv, QueueInv
    <3> QED
      BY <3>1, <3>2, TxAssumption, Capacity DEF Slots
  <2> QED
    BY <2>1, <2>2 DEF Transfer
<1> QED
  BY <1>1, QueueInvariant, PTL

(***************************************************************************)
(* The chip never has both directions enabled, and at MIR and FIR speeds   *)
(* never listens while a frame is queued (the latter until a speed change  *)
(* cuts a completion off).                                                 *)
(***************************************************************************)
THEOREM AlwaysHalfDuplex == Spec => []HalfDuplex
<1>1. IInv => HalfDuplex
  BY InvParts DEF BaseInv, FullInv, QueueInv, IrqInv, HalfDuplex
<1> QED
  BY <1>1, QueueInvariant, PTL
-----------------------------------------------------------------------------
(***************************************************************************)
(* The registers that drive the transmitter, and a register state in which *)
(* none of them has been accessed in another bank than its own.            *)
(***************************************************************************)
TxRegs == {"MISC", "TX_CTRL1", "TX_CTRL2", "TX_STAT", "TX_BYTE_COUNT",
           "SH_MEM_PAGE", "TX_DMA_ADDR"}
Clean(m) == m.wrong \cap TxRegs = {}

(* An access with the banks of the transmitter's registers selected leaves *)
(* a clean state clean.                                                    *)
LEMMA AccessClean ==
  ASSUME NEW m \in Reg, Clean(m), NEW R \in SUBSET Registers,
         \A r \in R \cap TxRegs : BankOf(r) = m.bank
  PROVE  Clean(Access(m, R))
<1>1. Access(m, R).wrong = m.wrong \cup {r \in R : BankOf(r) # m.bank}
  BY DEF Access, Reg
<1> QED
  BY <1>1 DEF Clean

(* Selecting a bank accesses nothing. *)
LEMMA SwitchClean ==
  ASSUME NEW m \in Reg, Clean(m), NEW b, NEW itr
  PROVE  /\ Clean(set_mcr(m, itr, b))
         /\ Clean(switch_bank(m, b))
         /\ Clean(raw_switch_bank(m, b))
BY DEF Clean, set_mcr, switch_bank, raw_switch_bank, Reg

(* ircard_dma_write selects the bank of every register it touches. *)
LEMMA DmaWriteClean ==
  ASSUME NEW m \in Reg, Clean(m)
  PROVE  Clean(DmaWriteRegs(m))
<1> DEFINE m1 == Access(switch_bank(m, 0), {"MISC"})
           m2 == Access(set_mcr(m1, {"INTR", "TX"}, 0), {"TX_CTRL2"})
           m3 == Access(switch_bank(m2, 1), {"TX_BYTE_COUNT"})
           m4 == Access(switch_bank(m3, 3), {"SH_MEM_PAGE", "TX_DMA_ADDR"})
           m5 == Access(switch_bank(m4, 0), {"MISC", "TX_CTRL1"})
<1>0. /\ BankOf("MISC") = 0 /\ BankOf("TX_CTRL1") = 0 /\ BankOf("TX_CTRL2") = 0
      /\ BankOf("TX_BYTE_COUNT") = 1
      /\ BankOf("SH_MEM_PAGE") = 3 /\ BankOf("TX_DMA_ADDR") = 3
  BY DEF BankOf
<1>1. m1 \in Reg /\ Clean(m1)
  <2> HIDE DEF m1
  <2>1. switch_bank(m, 0) \in Reg /\ switch_bank(m, 0).bank = 0
    BY SwitchFacts
  <2>2. Clean(switch_bank(m, 0))
    BY SwitchClean
  <2> QED
    BY <1>0, <2>1, <2>2, AccessFacts, AccessClean DEF Registers, m1
<1> HIDE DEF m1
<1>2. m2 \in Reg /\ Clean(m2)
  <2>1. set_mcr(m1, {"INTR", "TX"}, 0) \in Reg
        /\ set_mcr(m1, {"INTR", "TX"}, 0).bank = 0
        /\ Clean(set_mcr(m1, {"INTR", "TX"}, 0))
    BY <1>1, SetMcrFacts, SwitchClean
  <2> QED
    BY <1>0, <2>1, AccessFacts, AccessClean DEF Registers
<1> HIDE DEF m2
<1>3. m3 \in Reg /\ Clean(m3)
  <2>1. switch_bank(m2, 1) \in Reg /\ switch_bank(m2, 1).bank = 1
        /\ Clean(switch_bank(m2, 1))
    BY <1>2, SwitchFacts, SwitchClean
  <2> QED
    BY <1>0, <2>1, AccessFacts, AccessClean DEF Registers
<1> HIDE DEF m3
<1>4. m4 \in Reg /\ Clean(m4)
  <2>1. switch_bank(m3, 3) \in Reg /\ switch_bank(m3, 3).bank = 3
        /\ Clean(switch_bank(m3, 3))
    BY <1>3, SwitchFacts, SwitchClean
  <2> QED
    BY <1>0, <2>1, AccessFacts, AccessClean DEF Registers
<1> HIDE DEF m4
<1>5. Clean(m5)
  <2>1. switch_bank(m4, 0) \in Reg /\ switch_bank(m4, 0).bank = 0
        /\ Clean(switch_bank(m4, 0))
    BY <1>4, SwitchFacts, SwitchClean
  <2> QED
    BY <1>0, <2>1, AccessFacts, AccessClean DEF Registers
<1> HIDE DEF m5
<1>6. DmaWriteRegs(m) = m5
  BY DEF DmaWriteRegs, m1, m2, m3, m4, m5
<1> QED
  BY <1>5, <1>6

(* ircard_receive sets MISC in bank 0; RESET is not the transmitter's. *)
LEMMA ReceiveClean ==
  ASSUME NEW m \in Reg, Clean(m)
  PROVE  Clean(ReceiveRegs(m))
<1> DEFINE a == set_mcr(switch_bank(m, 0), {"INTR"}, m.bank)
           m1 == Access(a, {"RESET"})
           m2 == switch_bank(set_mcr(m1, {"RX", "INTR"}, m.bank), 0)
           m3 == Access(m2, {"RX_CTRL", "MISC"})
<1>0. m.bank \in 0 .. 3 /\ BankOf("MISC") = 0
  BY DEF Reg, BankOf
<1>1. a \in Reg /\ Clean(a)
  <2>1. switch_bank(m, 0) \in Reg /\ Clean(switch_bank(m, 0))
    BY SwitchFacts, SwitchClean, SMTT(60)
  <2> QED
    BY <1>0, <2>1, SetMcrFacts, SwitchClean
<1> HIDE DEF a
<1>2. m1 \in Reg /\ Clean(m1)
  BY <1>1, AccessFacts, AccessClean DEF Registers, TxRegs
<1> HIDE DEF m1
<1>3. m2 \in Reg /\ m2.bank = 0 /\ Clean(m2)
  <2> DEFINE b == set_mcr(m1, {"RX", "INTR"}, m.bank)
  <2>1. b \in Reg /\ Clean(b)
    BY <1>0, <1>2, SetMcrFacts, SwitchClean
  <2> HIDE DEF b
  <2>2. m2 = switch_bank(b, 0)
    BY DEF b
  <2> QED
    BY <2>1, <2>2, SwitchFacts, SwitchClean
<1> HIDE DEF m2
<1>4. Clean(m3)
  BY <1>0, <1>3, AccessClean DEF Registers, TxRegs
<1> HIDE DEF m3
<1>5. ReceiveRegs(m) = m3
  BY DEF ReceiveRegs, a, m1, m2, m3
<1> QED
  BY <1>4, <1>5

(* ircard_xmit_complete touches MISC in the bank it was called in, which   *)
(* has to be bank 0.                                                       *)
LEMMA XmitCompleteClean ==
  ASSUME NEW m \in Reg, Clean(m), m.bank = 0
  PROVE  Clean(XmitCompleteRegs(m))
<1> DEFINE m1 == Access(switch_bank(m, 0), {"TX_STAT"})
           a == set_mcr(m1, {"INTR"}, m.bank)
           m2 == Access(a, {"MISC", "RESET"})
<1>0. BankOf("MISC") = 0 /\ BankOf("TX_STAT") = 0
  BY DEF BankOf
<1>1. m1 \in Reg /\ Clean(m1)
  <2>1. switch_bank(m, 0) \in Reg /\ switch_bank(m, 0).bank = 0
        /\ Clean(switch_bank(m, 0))
    BY SwitchFacts, SwitchClean
  <2> QED
    BY <1>0, <2>1, AccessFacts, AccessClean DEF Registers
<1> HIDE DEF m1
<1>2. a \in Reg /\ a.bank = 0 /\ Clean(a)
  BY <1>1, SetMcrFacts, SwitchClean
<1> HIDE DEF a
<1>3. Clean(m2)
  BY <1>0, <1>2, AccessClean DEF Registers, TxRegs
<1> HIDE DEF m2
<1>4. XmitCompleteRegs(m) = m2
  BY DEF XmitCompleteRegs, m1, a, m2
<1> QED
  BY <1>3, <1>4

(* ircard_change_speed touches none of the transmitter's registers. *)
LEMMA ChangeSpeedClean ==
  ASSUME NEW m \in Reg, Clean(m), NEW speed
  PROVE  Clean(ChangeSpeedRegs(m, speed))
<1> DEFINE m1 == IF (baud = "FIR") # (speed = "FIR")
                 THEN Access(raw_switch_bank(m, 2), {"IR_TRANS_CTRL"}) ELSE m
           m2 == Access(raw_switch_bank(m1, 0), {"RESET"})
           m3 == Access(raw_switch_bank(m2, 2), {"IR_CONF"})
<1>1. m1 \in Reg /\ Clean(m1)
  <2>1. raw_switch_bank(m, 2) \in Reg /\ Clean(raw_switch_bank(m, 2))
    BY SwitchFacts, SwitchClean
  <2> QED
    BY <2>1, AccessFacts, AccessClean DEF Registers, TxRegs
<1> HIDE DEF m1
<1>2. m2 \in Reg /\ Clean(m2)
  <2>1. raw_switch_bank(m1, 0) \in Reg /\ Clean(raw_switch_bank(m1, 0))
    BY <1>1, SwitchFacts, SwitchClean
  <2> QED
    BY <2>1, AccessFacts, AccessClean DEF Registers, TxRegs
<1> HIDE DEF m2
<1>3. Clean(m3)
  <2>1. raw_switch_bank(m2, 2) \in Reg /\ Clean(raw_switch_bank(m2, 2))
    BY <1>2, SwitchFacts, SwitchClean
  <2> QED
    BY <2>1, AccessClean DEF Registers, TxRegs
<1> HIDE DEF m3
<1>4. ChangeSpeedRegs(m, speed) = m3
  BY DEF ChangeSpeedRegs, m1, m2, m3
<1> QED
  BY <1>3, <1>4

(* The driver's steps keep the registers clean; an interrupt finds bank 0  *)
(* selected whenever it serves a cause.                                    *)
LEMMA DriverClean ==
  ASSUME BaseInv, Clean(reg), Driver
  PROVE  Clean(reg')
<1>0. reg \in Reg /\ (msr = "TX" => reg.bank = 0)
  BY DEF BaseInv, TypeOK, IrqInv
<1>1. CASE XmitBody
  <2>1. switch_bank(reg, 0) \in Reg /\ Clean(switch_bank(reg, 0))
    BY <1>0, SwitchFacts, SwitchClean
  <2> QED
    BY <1>1, <2>1, DmaWriteClean DEF XmitBody
<1>2. CASE IrqEnter
  <2>1. switch_bank(reg, 0) \in Reg /\ Clean(switch_bank(reg, 0))
    BY <1>0, SwitchFacts, SwitchClean
  <2> QED
    BY <1>2, <2>1, AccessClean DEF IrqEnter, Registers, TxRegs
<1>3. CASE ServeTx
  <2> DEFINE m == XmitCompleteRegs(reg)
  <2>1. m \in Reg /\ m.bank = 0 /\ Clean(m)
    BY <1>0, <1>3, XmitCompleteFacts, XmitCompleteClean DEF ServeTx
  <2>2. reg' = m \/ reg' = DmaWriteRegs(m)
        \/ reg' = ReceiveRegs(Access(m, {"TX_CTRL1"}))
    BY <1>3 DEF ServeTx, AfterComplete
  <2> HIDE DEF m
  <2>3. BankOf("TX_CTRL1") = 0
    BY DEF BankOf
  <2>4. Access(m, {"TX_CTRL1"}) \in Reg /\ Clean(Access(m, {"TX_CTRL1"}))
    BY <2>1, <2>3, AccessFacts, AccessClean DEF Registers
  <2> QED
    BY <2>1, <2>2, <2>4, DmaWriteClean, ReceiveClean
<1>4. CASE ServeRx
  <2> DEFINE m == Access(switch_bank(reg, 1), {"RX_RING_FRM_PTR"})
  <2>1. switch_bank(reg, 1) \in Reg /\ Clean(switch_bank(reg, 1))
    BY <1>0, SwitchFacts, SwitchClean
  <2>2. m \in Reg /\ Clean(m)
    BY <2>1, AccessFacts, AccessClean DEF Registers, TxRegs
  <2>3. reg' = m \/ reg' = Access(switch_bank(m, 0), {"RESET"})
    BY <1>4 DEF ServeRx
  <2> HIDE DEF m
  <2>4. switch_bank(m, 0) \in Reg /\ Clean(switch_bank(m, 0))
    BY <2>2, SwitchFacts, SwitchClean
  <2> QED
    BY <2>2, <2>3, <2>4, AccessClean DEF Registers, TxRegs
<1>5. CASE IrqPoll
  <2> DEFINE m == Access(reg, {"MSR"})
  <2>1. m \in Reg /\ Clean(m)
    BY <1>0, AccessFacts, AccessClean DEF Registers, TxRegs
  <2>2. reg' = m \/ reg' = switch_bank(reg, saved) \/ reg' = switch_bank(m, saved)
    BY <1>5 DEF IrqPoll
  <2> HIDE DEF m
  <2> QED
    BY <1>0, <2>1, <2>2, SwitchClean
<1>6. ASSUME NEW speed, NEW m \in Reg, Clean(m), ChangeSpeed(speed, m)
      PROVE  Clean(reg')
  BY <1>6, ChangeSpeedFacts, ChangeSpeedClean, ReceiveClean DEF ChangeSpeed
<1>7. CASE LapChangeSpeed
  BY <1>0, <1>6, <1>7 DEF LapChangeSpeed
<1>8. CASE CardReset
  <2>1. set_mcr(reg, {}, 0) \in Reg /\ Clean(set_mcr(reg, {}, 0))
    BY <1>0, SetMcrFacts, SwitchClean
  <2> QED
    BY <1>6, <1>8, <2>1 DEF CardReset
<1>9. CASE XmitEnter \/ XmitLeave
  BY <1>9 DEF XmitEnter, XmitLeave
<1> QED
  BY <1>1, <1>2, <1>3, <1>4, <1>5, <1>7, <1>8, <1>9 DEF Driver

(***************************************************************************)
(* Whatever interrupts what, and across turnarounds, speed changes and     *)
(* card resets, the registers that drive the transmitter are accessed only *)
(* while their bank is selected.                                           *)
(***************************************************************************)
THEOREM TxRegistersInBank == Spec => []TxRegisters
<1>1. Init => Clean(reg)
  BY DEF Init, Clean
<1>2. IInv /\ Clean(reg) /\ [Next]_vars => Clean(reg)'
  <2> SUFFICES ASSUME IInv, Clean(reg), [Next]_vars
               PROVE  Clean(reg')
    BY DEF Clean
  <2>1. CASE Driver
    BY <2>1, InvParts, DriverClean
  <2>2. CASE Environment
    <3>1. reg' = reg
      BY <2>2 DEF Environment, LapSend, LapPassTurn, LapTimeout, LapWait,
         WaitUntilSentReturns, SirXmit, ChipTxDone, ChipRx
    <3> QED
      BY <3>1
  <2>3. CASE UNCHANGED vars
    BY <2>3 DEF vars
  <2> QED
    BY <2>1, <2>2, <2>3 DEF Next
<1>3. Clean(reg) => TxRegisters
  BY DEF Clean, TxRegs, TxRegisters
<1> QED
  BY <1>1, <1>2, <1>3, QueueInvariant, PTL DEF Spec
-----------------------------------------------------------------------------
(***************************************************************************)
(* Why the frames leave in order.  The frames that have not been on the    *)
(* air are, in this order: those in the slots from the first one that the  *)
(* chip has not finished, the one between the transmit lock and its slot,  *)
(* and those in the device's queue.  Waiting is the list of their numbers. *)
(***************************************************************************)
FrameOf(i) == shm[queue[i].start]
First == IF "TX" \in pend THEN ptr + 1 ELSE ptr
InSlots == IF HighSpeed THEN free - First ELSE 0
Under == InSlots + Entering + Len(devq)
Waiting ==
  [k \in 1 .. Under |->
     IF k <= InSlots THEN FrameOf(First + k - 1)
     ELSE IF k <= InSlots + Entering THEN xmit.id
     ELSE devq[k - InSlots - Entering].id]

(* b is a later frame than a, and the d-th after it if l, what was cut     *)
(* off, has no frames.                                                     *)
Apart(l, a, b, d) == IF "frames" \in l THEN a < b ELSE b = a + d

(* f lists the n frames between the last one on the air, a, and the last   *)
(* one made, m.                                                            *)
Ordered(l, f, n, a, m) ==
  /\ \A k \in 1 .. n : Apart(l, a, f[k], k) /\ f[k] <= m
  /\ \A k \in 1 .. n : \A j \in 1 .. k - 1 : Apart(l, f[j], f[k], k - j)
  /\ a <= m
  /\ "frames" \notin l => m = a + n

(* The bytes of a slot in shared memory are those of one frame. *)
MemoryInv ==
  HighSpeed =>
    \A i \in ptr .. free - 1 :
      \A a \in queue[i].start .. queue[i].start + queue[i].len - 1 :
        shm[a] = FrameOf(i)

OrderInv == Ordered(cut, Waiting, Under, aired, made)
XmitFast == "frames" \notin cut /\ xmit.at = "locked" => HighSpeed

(* What Waiting holds. *)
WaitingFacts ==
  /\ InSlots \in Nat /\ Entering \in {0, 1} /\ Len(devq) \in Nat /\ Under \in Nat
  /\ Under = InSlots + Entering + Len(devq)
  /\ HighSpeed => First \in Nat /\ InSlots = free - First /\ ptr <= First
  /\ \A k \in 1 .. InSlots : Waiting[k] = FrameOf(First + k - 1)
  /\ Entering = 1 => Waiting[InSlots + 1] = xmit.id
  /\ \A k \in 1 .. Len(devq) : Waiting[InSlots + Entering + k] = devq[k].id
  /\ \A k \in 1 .. Under : Waiting[k] \in Nat

(* The slots in use lie in the shared memory. *)
LEMMA SlotInMemory ==
  ASSUME FullInv, HighSpeed, NEW i \in ptr .. free - 1
  PROVE  /\ i \in Slots /\ queue[i] \in [start : Nat, len : Nat]
         /\ queue[i].len > 0 /\ queue[i].start + queue[i].len <= tail
         /\ tail <= ShmSize
         /\ queue[i].start \in 0 .. ShmSize - 1
         /\ FrameOf(i) \in Nat
<1>1. /\ ptr \in Nat /\ free \in Nat /\ tail \in Nat /\ free <= Window + 1
      /\ tail <= free * MaxLen
  BY LoadTypes, TxAssumption DEF FullInv, BaseInv, LoadInv, TypeOK
<1>2. free * MaxLen <= (Window + 1) * MaxLen
  BY <1>1, TxAssumption, Capacity
<1>3. tail <= ShmSize
  BY <1>1, <1>2, TxAssumption, Capacity
<1>4. i \in Slots
  BY <1>1, TxAssumption, Capacity DEF Slots
<1>5. queue[i] \in [start : Nat, len : Nat]
  BY <1>4 DEF FullInv, BaseInv, TypeOK
<1>6. queue[i].len > 0 /\ queue[i].start + queue[i].len <= tail
  BY DEF FullInv, QueueInv
<1>7. queue[i].start \in 0 .. ShmSize - 1
  BY <1>1, <1>3, <1>5, <1>6, TxAssumption
<1>8. FrameOf(i) \in Nat
  BY <1>7 DEF FullInv, BaseInv, TypeOK, FrameOf
<1> QED
  BY <1>3, <1>4, <1>5, <1>6, <1>7, <1>8

(* The same as a property of states, to be used of the next state too. *)
SlotsInMemory ==
  HighSpeed => \A i \in ptr .. free - 1 :
                 /\ i \in Slots /\ queue[i] \in [start : Nat, len : Nat]
                 /\ queue[i].len > 0 /\ queue[i].start + queue[i].len <= tail
                 /\ tail <= ShmSize

(* It holds wherever the invariant does. *)
LEMMA SlotsInMemoryAlways == FullInv => SlotsInMemory
BY SlotInMemory DEF SlotsInMemory

(* The list consists of the slots, the frame behind the lock and the       *)
(* device's queue, and of numbers only.                                    *)
LEMMA WaitingIs == FullInv => WaitingFacts
<1> SUFFICES ASSUME FullInv
             PROVE  WaitingFacts
  OBVIOUS
<1>1. /\ ptr \in Nat /\ free \in Nat /\ len \in Int /\ pend \in SUBSET {"TX", "RX"}
      /\ devq \in Seq([id : Nat, size : FrameLen, at : {"queued"}])
      /\ xmit \in [id : Nat, size : Nat, at : {"none", "locked", "unlocked"}]
  BY DEF FullInv, BaseInv, TypeOK
<1>2. Entering \in {0, 1} /\ Len(devq) \in Nat
  BY <1>1 DEF Entering
<1>3. HighSpeed => /\ First \in Nat /\ InSlots = free - First /\ ptr <= First
                   /\ free - First \in Nat
  <2>1. HighSpeed => /\ len >= 0 /\ ptr + len = free
                     /\ "TX" \in pend => len > 0
    BY DEF FullInv, QueueInv
  <2> QED
    BY <1>1, <2>1 DEF First, InSlots
<1>4. InSlots \in Nat
  BY <1>3 DEF InSlots
<1>5. Under = InSlots + Entering + Len(devq) /\ Under \in Nat
  BY <1>2, <1>4 DEF Under
<1>6. \A k \in 1 .. InSlots : k \in 1 .. Under /\ Waiting[k] = FrameOf(First + k - 1)
  BY <1>2, <1>4, <1>5 DEF Waiting
<1>7. Entering = 1 => InSlots + 1 \in 1 .. Under /\ Waiting[InSlots + 1] = xmit.id
  BY <1>2, <1>4, <1>5 DEF Waiting
<1>8. ASSUME NEW k \in 1 .. Len(devq)
      PROVE  Waiting[InSlots + Entering + k] = devq[k].id
  <2> DEFINE j == InSlots + Entering + k
  <2>1. /\ j \in 1 .. Under /\ ~(j <= InSlots) /\ ~(j <= InSlots + Entering)
        /\ j - InSlots - Entering = k
    BY <1>2, <1>4, <1>5
  <2> HIDE DEF j
  <2>2. Waiting[j] = devq[k].id
    BY <2>1 DEF Waiting
  <2> QED
    BY <2>2 DEF j
<1>9. ASSUME NEW k \in 1 .. Under
      PROVE  Waiting[k] \in Nat
  <2>1. CASE k <= InSlots
    <3>1. HighSpeed
      BY <2>1 DEF InSlots
    <3>2. First + k - 1 \in ptr .. free - 1
      BY <1>1, <1>3, <2>1, <3>1
    <3>3. FrameOf(First + k - 1) \in Nat
      BY <3>1, <3>2, SlotInMemory
    <3> QED
      BY <1>4, <1>6, <2>1, <3>3
  <2>2. CASE ~(k <= InSlots) /\ k <= InSlots + Entering
    <3>1. k = InSlots + 1 /\ Entering = 1
      BY <1>2, <1>4, <2>2
    <3> QED
      BY <1>1, <1>7, <3>1
  <2>3. CASE ~(k <= InSlots + Entering)
    <3>1. PICK j \in 1 .. Len(devq) : k = InSlots + Entering + j
      <4>1. k - InSlots - Entering \in 1 .. Len(devq)
            /\ k = InSlots + Entering + (k - InSlots - Entering)
        BY <1>2, <1>4, <1>5, <2>3
      <4> QED
        BY <4>1
    <3>2. devq[j] \in [id : Nat, size : FrameLen, at : {"queued"}]
      BY <1>1, <3>1, ElementOfSeq, ZenonT(60)
    <3> QED
      BY <1>8, <3>1, <3>2
  <2> QED
    BY <1>2, <1>4, <2>1, <2>2, <2>3
<1> QED
  BY <1>2, <1>3, <1>4, <1>5, <1>6, <1>7, <1>8, <1>9 DEF WaitingFacts
-----------------------------------------------------------------------------
(* The list without its first c frames: they got lost or none is missing. *)
LEMMA OrderedDrop ==
  ASSUME NEW l, NEW n \in Nat, NEW c \in 0 .. n, NEW f, NEW g, NEW a, NEW m,
         Ordered(l, f, n, a, m), "frames" \in l \/ c = 0,
         \A k \in 1 .. n - c : g[k] = f[k + c]
  PROVE  Ordered(l, g, n - c, a, m)
<1>1. ASSUME NEW k \in 1 .. n - c
      PROVE  Apart(l, a, g[k], k) /\ g[k] <= m
  <2>1. k + c \in 1 .. n /\ g[k] = f[k + c]
    BY <1>1
  <2>2. Apart(l, a, f[k + c], k + c) /\ f[k + c] <= m
    BY <2>1 DEF Ordered
  <2>3. "frames" \in l \/ k + c = k
    OBVIOUS
  <2> QED
    BY <2>1, <2>2, <2>3 DEF Apart
<1>2. ASSUME NEW k \in 1 .. n - c, NEW j \in 1 .. k - 1
      PROVE  Apart(l, g[j], g[k], k - j)
  <2>1. /\ k + c \in 1 .. n /\ j + c \in 1 .. (k + c) - 1
        /\ g[k] = f[k + c] /\ g[j] = f[j + c] /\ (k + c) - (j + c) = k - j
    BY <1>2
  <2> QED
    BY <2>1 DEF Ordered
<1>3. a <= m /\ ("frames" \notin l => m = a + (n - c))
  BY DEF Ordered
<1> QED
  BY <1>1, <1>2, <1>3 DEF Ordered

(* Frames that are next to each other are in order. *)
LEMMA OrderedLossy ==
  ASSUME NEW l, NEW e, l \subseteq e, NEW n \in Nat, NEW f, NEW a \in Nat, NEW m \in Nat,
         \A k \in 1 .. n : f[k] \in Nat, Ordered(l, f, n, a, m)
  PROVE  Ordered(e, f, n, a, m)
<1>1. ASSUME NEW x \in Nat, NEW y \in Nat, NEW d \in Nat, d > 0, Apart(l, x, y, d)
      PROVE  Apart(e, x, y, d)
  BY <1>1 DEF Apart
<1>2. ASSUME NEW k \in 1 .. n
      PROVE  Apart(e, a, f[k], k) /\ f[k] <= m
  BY <1>1 DEF Ordered
<1>3. ASSUME NEW k \in 1 .. n, NEW j \in 1 .. k - 1
      PROVE  Apart(e, f[j], f[k], k - j)
  <2>1. j \in 1 .. n /\ k - j \in Nat /\ k - j > 0 /\ Apart(l, f[j], f[k], k - j)
    BY DEF Ordered
  <2> QED
    BY <1>1, <2>1
<1> QED
  BY <1>2, <1>3 DEF Ordered

(* The first frame goes on the air. *)
LEMMA OrderedTake ==
  ASSUME NEW l, NEW n \in Nat, NEW f, NEW g, NEW a \in Nat, NEW m \in Nat, n >= 1,
         f[1] \in Nat, Ordered(l, f, n, a, m),
         \A k \in 1 .. n - 1 : g[k] = f[k + 1]
  PROVE  /\ Ordered(l, g, n - 1, f[1], m)
         /\ Apart(l, a, f[1], 1)
<1>0. Apart(l, a, f[1], 1) /\ f[1] <= m
  BY DEF Ordered
<1>1. ASSUME NEW k \in 1 .. n - 1
      PROVE  Apart(l, f[1], g[k], k) /\ g[k] <= m
  <2>1. /\ k + 1 \in 1 .. n /\ 1 \in 1 .. (k + 1) - 1 /\ g[k] = f[k + 1]
        /\ (k + 1) - 1 = k
    BY <1>1
  <2> QED
    BY <2>1 DEF Ordered
<1>2. ASSUME NEW k \in 1 .. n - 1, NEW j \in 1 .. k - 1
      PROVE  Apart(l, g[j], g[k], k - j)
  <2>1. /\ k + 1 \in 1 .. n /\ j + 1 \in 1 .. (k + 1) - 1
        /\ g[k] = f[k + 1] /\ g[j] = f[j + 1] /\ (k + 1) - (j + 1) = k - j
    BY <1>2
  <2> QED
    BY <2>1 DEF Ordered
<1>3. "frames" \notin l => m = f[1] + (n - 1)
  BY <1>0 DEF Ordered, Apart
<1> QED
  BY <1>0, <1>1, <1>2, <1>3 DEF Ordered, Apart

(* A frame is made. *)
LEMMA OrderedAppend ==
  ASSUME NEW l, NEW n \in Nat, NEW f, NEW g, NEW a \in Nat, NEW m \in Nat,
         \A k \in 1 .. n : f[k] \in Nat, Ordered(l, f, n, a, m),
         \A k \in 1 .. n : g[k] = f[k], g[n + 1] = m + 1
  PROVE  Ordered(l, g, n + 1, a, m + 1)
<1>1. ASSUME NEW k \in 1 .. n + 1
      PROVE  Apart(l, a, g[k], k) /\ g[k] <= m + 1
  <2>1. CASE k \in 1 .. n
    <3>1. Apart(l, a, f[k], k) /\ f[k] <= m /\ f[k] \in Nat /\ g[k] = f[k]
      BY <2>1 DEF Ordered
    <3> QED
      BY <3>1
  <2>2. CASE k = n + 1
    BY <2>2 DEF Ordered, Apart
  <2> QED
    BY <2>1, <2>2
<1>2. ASSUME NEW k \in 1 .. n + 1, NEW j \in 1 .. k - 1
      PROVE  Apart(l, g[j], g[k], k - j)
  <2>1. j \in 1 .. n /\ g[j] = f[j] /\ f[j] \in Nat
    BY <1>2
  <2>2. CASE k \in 1 .. n
    BY <1>2, <2>1, <2>2 DEF Ordered
  <2>3. CASE k = n + 1
    <3>1. Apart(l, a, f[j], j) /\ f[j] <= m /\ ("frames" \notin l => m = a + n)
      BY <2>1 DEF Ordered
    <3>2. g[k] = m + 1
      BY <2>3
    <3> QED
      BY <2>1, <2>3, <3>1, <3>2 DEF Apart
  <2> QED
    BY <2>2, <2>3
<1>3. a <= m + 1 /\ ("frames" \notin l => m + 1 = a + (n + 1))
  BY DEF Ordered
<1> QED
  BY <1>1, <1>2, <1>3 DEF Ordered
-----------------------------------------------------------------------------
(* The same frames wait in the same order. *)
LEMMA WaitingSame ==
  ASSUME WaitingFacts, WaitingFacts', OrderInv, aired' = aired, made' = made, cut' = cut,
         Under' = Under, \A k \in 1 .. Under : Waiting'[k] = Waiting[k]
  PROVE  OrderInv'
<1>1. Under \in Nat /\ 0 \in 0 .. Under /\ Under - 0 = Under
  BY DEF WaitingFacts
<1>2. \A k \in 1 .. Under - 0 : Waiting'[k] = Waiting[k + 0]
  BY <1>1
<1>3. Ordered(cut, Waiting, Under, aired, made)
  BY DEF OrderInv
<1> HIDE DEF Under, Waiting
<1>4. Ordered(cut, Waiting', Under - 0, aired, made)
  BY <1>1, <1>2, <1>3, OrderedDrop
<1>5. Ordered(cut', Waiting', Under', aired', made')
  BY <1>1, <1>4
<1> QED
  BY <1>5 DEF OrderInv, Ordered, Apart

(* A step that touches neither the queue nor the memory, and completes no  *)
(* transfer.                                                               *)
LEMMA OrderQuiet ==
  ASSUME FullInv, FullInv', OrderInv, MemoryInv, UNCHANGED <<txq, baud, devq, cut, made, aired>>,
         "TX" \in pend' <=> "TX" \in pend,
         Entering' = Entering, Entering = 1 => xmit'.id = xmit.id
  PROVE  OrderInv' /\ MemoryInv'
<1>0. WaitingFacts /\ WaitingFacts'
  BY WaitingIs, PTL
<1>1. First' = First /\ HighSpeed' = HighSpeed
  BY DEF First, txq, HighSpeed
<1>2. InSlots' = InSlots
  BY <1>1 DEF InSlots, txq
<1>3. MemoryInv'
  BY <1>1 DEF MemoryInv, txq, FrameOf
<1>4. Under' = Under
  BY <1>2 DEF Under
<1>5. Waiting' = Waiting
  BY <1>0, <1>1, <1>2, <1>4 DEF Waiting, FrameOf, txq, WaitingFacts
<1> QED
  BY <1>0, <1>3, <1>4, <1>5, WaitingSame

(* A frame moves from the device's queue behind the transmit lock. *)
LEMMA XmitEnterOrder ==
  ASSUME FullInv, FullInv', OrderInv, MemoryInv, XmitEnter
  PROVE  OrderInv' /\ MemoryInv'
<1>0. WaitingFacts /\ WaitingFacts'
  BY WaitingIs, PTL
<1>1. /\ UNCHANGED <<ptr, free, queue, shm, baud, pend, cut, made, aired>>
      /\ Entering = 0 /\ Entering' = 1
  BY DEF XmitEnter, txq, Entering, NoFrame
<1>2. /\ devq \in Seq([id : Nat, size : FrameLen, at : {"queued"}])
      /\ devq # <<>> /\ devq' = Tail(devq)
      /\ xmit' = [Head(devq) EXCEPT !.at = "locked"]
  BY DEF FullInv, BaseInv, TypeOK, XmitEnter
<1>3. /\ Len(devq) \in Nat /\ Len(devq) > 0 /\ Len(devq') = Len(devq) - 1
      /\ \A k \in 1 .. Len(devq') : devq'[k] = devq[k + 1]
      /\ Head(devq) = devq[1]
  BY <1>2
<1>4. xmit'.id = devq[1].id
  <2>0. 1 \in 1 .. Len(devq)
    BY <1>3
  <2>1. devq[1] \in [id : Nat, size : FrameLen, at : {"queued"}]
    BY <1>2, <2>0, ElementOfSeq
  <2>2. PICK r \in [id : Nat, size : FrameLen, at : {"queued"}] : r = devq[1]
    BY <2>1
  <2>3. xmit' = [r EXCEPT !.at = "locked"]
    BY <1>2, <1>3, <2>2
  <2> QED
    BY <2>2, <2>3
<1>5. First' = First /\ HighSpeed' = HighSpeed /\ InSlots' = InSlots
  BY <1>1 DEF First, HighSpeed, InSlots
<1>6. MemoryInv'
  BY <1>1, <1>5 DEF MemoryInv, FrameOf
<1>7. Under' = Under
  BY <1>0, <1>1, <1>3, <1>5 DEF WaitingFacts
<1>8. ASSUME NEW k \in 1 .. Under
      PROVE  Waiting'[k] = Waiting[k]
  <2>1. CASE k <= InSlots
    <3>1. k \in 1 .. InSlots /\ k \in 1 .. InSlots'
      BY <1>0, <1>5, <2>1 DEF WaitingFacts
    <3>2. Waiting[k] = FrameOf(First + k - 1) /\ Waiting'[k] = FrameOf(First + k - 1)'
      BY <1>0, <3>1 DEF WaitingFacts
    <3>3. FrameOf(First + k - 1)' = FrameOf(First + k - 1)
      BY <1>1, <1>5 DEF FrameOf
    <3> QED
      BY <3>2, <3>3
  <2>2. CASE k = InSlots + 1
    <3>1. Waiting[InSlots + Entering + 1] = devq[1].id
      BY <1>0, <1>3 DEF WaitingFacts
    <3>2. InSlots + Entering + 1 = InSlots + 1
      BY <1>0, <1>1 DEF WaitingFacts
    <3>3. Waiting'[InSlots' + 1] = xmit'.id
      BY <1>0, <1>1 DEF WaitingFacts
    <3> QED
      BY <1>4, <1>5, <2>2, <3>1, <3>2, <3>3
  <2>3. CASE k > InSlots + 1
    <3>1. PICK j \in 1 .. Len(devq') : k = InSlots + 1 + j
      <4>1. InSlots \in Nat /\ Under = InSlots + 0 + Len(devq)
        BY <1>0, <1>1 DEF WaitingFacts
      <4>2. k - InSlots - 1 \in 1 .. Len(devq') /\ k = InSlots + 1 + (k - InSlots - 1)
        BY <1>3, <1>8, <2>3, <4>1
      <4> QED
        BY <4>2
    <3>2. Waiting'[InSlots' + Entering' + j] = devq'[j].id
      BY <1>0, <3>1 DEF WaitingFacts
    <3>3. j + 1 \in 1 .. Len(devq)
      BY <1>3, <3>1
    <3>4. Waiting[InSlots + Entering + (j + 1)] = devq[j + 1].id
      BY <1>0, <3>3 DEF WaitingFacts
    <3>5. /\ InSlots + Entering + (j + 1) = k /\ InSlots' + Entering' + j = k
          /\ devq'[j] = devq[j + 1]
      BY <1>0, <1>1, <1>3, <1>5, <3>1 DEF WaitingFacts
    <3> QED
      BY <3>2, <3>4, <3>5
  <2> QED
    BY <1>0, <2>1, <2>2, <2>3 DEF WaitingFacts
<1> QED
  BY <1>0, <1>1, <1>6, <1>7, <1>8, WaitingSame

(* The frame behind the lock moves into slot free and into memory no       *)
(* other slot uses.  After a card reset at high speed it is lost.          *)
LEMMA XmitBodyOrder ==
  ASSUME FullInv, FullInv', OrderInv, MemoryInv, XmitFast, XmitBody
  PROVE  OrderInv' /\ MemoryInv'
<1>0. WaitingFacts /\ WaitingFacts'
  BY WaitingIs, PTL
<1>1. /\ UNCHANGED <<ptr, baud, pend, devq, cut, made, aired>>
      /\ free' = free + 1 /\ tail' = tail + xmit.size
      /\ queue' = [queue EXCEPT ![free] = [start |-> tail, len |-> xmit.size]]
      /\ shm' = [a \in DOMAIN shm |->
                   IF tail <= a /\ a < tail + xmit.size THEN xmit.id ELSE shm[a]]
      /\ xmit.at = "locked"
  BY DEF XmitBody, RegisterFrame, lapv
<1>2. /\ ptr \in Nat /\ free \in Nat /\ tail \in Nat
      /\ queue \in [Slots -> [start : Nat, len : Nat]]
      /\ shm \in [0 .. ShmSize - 1 -> Nat]
      /\ xmit \in [id : Nat, size : Nat, at : {"none", "locked", "unlocked"}]
  BY DEF FullInv, BaseInv, TypeOK
<1>3. Entering = 1 /\ Entering' = 0 /\ First' = First /\ HighSpeed' = HighSpeed
  BY <1>1, <1>2 DEF XmitBody, Entering, First, HighSpeed
<1>5. CASE ~HighSpeed
  <2>1. "frames" \in cut
    BY <1>1, <1>5 DEF XmitFast
  <2>2. InSlots = 0 /\ InSlots' = 0 /\ Under' = Under - 1 /\ Under >= 1 /\ Under \in Nat
    BY <1>0, <1>1, <1>3, <1>5 DEF WaitingFacts, InSlots
  <2>3. ASSUME NEW k \in 1 .. Under - 1
        PROVE  Waiting'[k] = Waiting[k + 1]
    <3>1. k \in 1 .. Len(devq) /\ k \in 1 .. Len(devq')
      BY <1>0, <1>1, <1>3, <2>2 DEF WaitingFacts
    <3>2. /\ Waiting'[InSlots' + Entering' + k] = devq'[k].id
          /\ Waiting[InSlots + Entering + k] = devq[k].id
      BY <1>0, <3>1 DEF WaitingFacts
    <3>3. InSlots' + Entering' + k = k /\ InSlots + Entering + k = k + 1
      BY <1>3, <2>2
    <3> QED
      BY <1>1, <3>2, <3>3
  <2>4. Ordered(cut, Waiting, Under, aired, made) /\ 1 \in 0 .. Under
    BY <2>2 DEF OrderInv
  <2>5. Ordered(cut, Waiting', Under - 1, aired, made)
    BY <2>1, <2>2, <2>3, <2>4, OrderedDrop
  <2>6. Ordered(cut', Waiting', Under', aired', made')
    BY <1>1, <2>2, <2>5
  <2>7. MemoryInv'
    BY <1>3, <1>5 DEF MemoryInv
  <2> QED
    BY <2>6, <2>7 DEF OrderInv, Ordered, Apart
<1>6. CASE HighSpeed
  <2>0. /\ InSlots \in Nat /\ Len(devq) \in Nat /\ First \in Nat /\ ptr <= First
        /\ InSlots = free - First /\ Under = InSlots + 1 + Len(devq)
        /\ InSlots' = free' - First' /\ Under' = InSlots' + 0 + Len(devq')
    BY <1>0, <1>3, <1>6 DEF WaitingFacts
  <2>1. \A i \in ptr .. free - 1 :
          /\ i \in Slots /\ queue[i] \in [start : Nat, len : Nat]
          /\ queue[i].len > 0 /\ queue[i].start + queue[i].len <= tail
          /\ tail <= ShmSize
    BY <1>6, SlotInMemory
  <2>2. free \in ptr' .. free' - 1
    <3>1. ptr <= free
      BY <1>2, <2>0
    <3> QED
      BY <1>1, <1>2, <3>1
  <2>3. free \in Slots /\ queue'[free].len > 0 /\ tail' <= ShmSize
    <3>1. SlotsInMemory'
      BY SlotsInMemoryAlways, PTL
    <3> QED
      BY <1>3, <1>6, <2>2, <3>1 DEF SlotsInMemory, Slots
  <2>4. queue'[free] = [start |-> tail, len |-> xmit.size]
    BY <1>1, <1>2, <2>3
  <2>5. xmit.size > 0 /\ tail + xmit.size <= ShmSize
    BY <1>1, <1>2, <2>3, <2>4
  <2>6. \A i \in ptr .. free - 1 : queue'[i] = queue[i]
    BY <1>1, <1>2, <2>1
  <2>7. \A a \in 0 .. tail - 1 : a \in 0 .. ShmSize - 1 /\ shm'[a] = shm[a]
    BY <1>1, <1>2, <2>5, TxAssumption
  <2>8. \A a \in tail .. tail + xmit.size - 1 : shm'[a] = xmit.id
    BY <1>1, <1>2, <2>5, TxAssumption
  <2>9. ASSUME NEW i \in ptr .. free - 1
        PROVE  FrameOf(i)' = FrameOf(i)
    <3>1. queue[i].start \in 0 .. tail - 1
      BY <1>2, <2>1
    <3> QED
      BY <2>6, <2>7, <3>1 DEF FrameOf
  <2>10. MemoryInv'
    <3> SUFFICES ASSUME NEW i \in ptr' .. free' - 1,
                        NEW a \in queue'[i].start .. queue'[i].start + queue'[i].len - 1
                 PROVE  shm'[a] = shm'[queue'[i].start]
      BY DEF MemoryInv, FrameOf
    <3>1. CASE i = free
      <4>1. a \in tail .. tail + xmit.size - 1
        BY <1>2, <2>4, <3>1
      <4>2. queue'[i].start \in tail .. tail + xmit.size - 1
        BY <1>2, <2>4, <2>5, <3>1
      <4> QED
        BY <2>8, <4>1, <4>2
    <3>2. CASE i # free
      <4>1. i \in ptr .. free - 1
        BY <1>1, <1>2, <3>2
      <4>2. /\ a \in queue[i].start .. queue[i].start + queue[i].len - 1
            /\ a \in 0 .. tail - 1 /\ queue[i].start \in 0 .. tail - 1
            /\ queue'[i] = queue[i]
        BY <1>2, <2>1, <2>6, <4>1
      <4>3. shm[a] = shm[queue[i].start]
        BY <1>6, <4>1, <4>2 DEF MemoryInv, FrameOf
      <4> QED
        BY <2>7, <4>2, <4>3
    <3> QED
      BY <3>1, <3>2
  <2>11. InSlots' = InSlots + 1 /\ Under' = Under
    BY <1>1, <1>2, <1>3, <2>0
  <2>12. ASSUME NEW k \in 1 .. Under
         PROVE  Waiting'[k] = Waiting[k]
    <3>1. CASE k <= InSlots
      <4>1. k \in 1 .. InSlots /\ k \in 1 .. InSlots' /\ First + k - 1 \in ptr .. free - 1
        BY <1>2, <2>0, <2>11, <3>1
      <4>2. Waiting[k] = FrameOf(First + k - 1) /\ Waiting'[k] = FrameOf(First + k - 1)'
        BY <1>0, <4>1 DEF WaitingFacts
      <4>3. FrameOf(First + k - 1)' = shm'[queue'[First + k - 1].start]
        BY <1>3 DEF FrameOf
      <4> QED
        BY <2>9, <4>1, <4>2, <4>3 DEF FrameOf
    <3>2. CASE k = InSlots + 1
      <4>1. Waiting[k] = xmit.id
        BY <1>0, <1>3, <3>2 DEF WaitingFacts
      <4>2. Waiting'[k] = FrameOf(First + k - 1)'
        BY <1>0, <2>11, <3>2 DEF WaitingFacts
      <4>3. First + k - 1 = free
        BY <1>2, <2>0, <3>2
      <4>4. FrameOf(First + k - 1)' = shm'[queue'[free].start]
        BY <1>3, <4>3 DEF FrameOf
      <4>5. shm'[queue'[free].start] = xmit.id
        BY <2>4, <2>5, <2>8, <1>2
      <4> QED
        BY <4>1, <4>2, <4>4, <4>5
    <3>3. CASE k > InSlots + 1
      <4>1. PICK j \in 1 .. Len(devq) : k = InSlots + 1 + j
        <5>1. k - InSlots - 1 \in 1 .. Len(devq) /\ k = InSlots + 1 + (k - InSlots - 1)
          BY <1>0, <1>3, <3>3 DEF WaitingFacts
        <5> QED
          BY <5>1
      <4>2. Waiting'[InSlots' + Entering' + j] = devq'[j].id
            /\ Waiting[InSlots + Entering + j] = devq[j].id
        BY <1>0, <1>1, <4>1 DEF WaitingFacts
      <4>3. InSlots + Entering + j = k /\ InSlots' + Entering' + j = k
        BY <1>0, <1>3, <2>11, <4>1 DEF WaitingFacts
      <4> QED
        BY <1>1, <4>2, <4>3
    <3> QED
      BY <1>0, <3>1, <3>2, <3>3 DEF WaitingFacts
  <2> QED
    BY <1>0, <1>1, <2>10, <2>11, <2>12, WaitingSame
<1> QED
  BY <1>5, <1>6

(* A completion: the slot that is given back was already on the air. *)
LEMMA ServeTxOrder ==
  ASSUME FullInv, FullInv', OrderInv, MemoryInv, ServeTx
  PROVE  OrderInv' /\ MemoryInv'
<1>0. WaitingFacts /\ WaitingFacts'
  BY WaitingIs, PTL
<1>1. /\ ptr \in Nat /\ free \in Nat /\ len \in Int
      /\ "TX" \in pend /\ reg.bank = 0 /\ HighSpeed /\ ptr + len = free
  BY DEF FullInv, BaseInv, TypeOK, ServeTx, IrqInv, QueueInv, InIrq
<1>2. UNCHANGED <<queue, shm, baud, xmit, devq, cut, made, aired>>
  BY DEF ServeTx, AfterComplete, ResetTxq, lapv
<1>3. HighSpeed' /\ Entering' = Entering /\ First = ptr + 1
  BY <1>1, <1>2 DEF HighSpeed, Entering, First
<1>4. "TX" \notin pend'
  BY <1>1 DEF ServeTx, AfterComplete
<1>5. \/ ptr' = ptr + 1 /\ free' = free
      \/ len = 1 /\ ptr' = 0 /\ free' = 0
  BY <1>1 DEF ServeTx, AfterComplete, ResetTxq
<1>6. First' = ptr'
  BY <1>4 DEF First
<1>7. /\ InSlots \in Nat /\ Len(devq) \in Nat /\ Entering \in {0, 1}
      /\ InSlots = free - First /\ Under = InSlots + Entering + Len(devq)
      /\ InSlots' = free' - First' /\ Under' = InSlots' + Entering' + Len(devq')
  BY <1>0, <1>1, <1>3 DEF WaitingFacts
<1>8. InSlots' = InSlots /\ (InSlots = 0 \/ First' = First)
  BY <1>1, <1>3, <1>5, <1>6, <1>7
<1>9. MemoryInv'
  <2> SUFFICES ASSUME NEW i \in ptr' .. free' - 1,
                      NEW a \in queue[i].start .. queue[i].start + queue[i].len - 1
               PROVE  shm[a] = shm[queue[i].start]
    BY <1>2 DEF MemoryInv, FrameOf
  <2>1. i \in ptr .. free - 1
    BY <1>1, <1>5
  <2> QED
    BY <1>1, <2>1 DEF MemoryInv, FrameOf
<1>10. Under' = Under
  BY <1>2, <1>3, <1>7, <1>8
<1>11. Waiting' = Waiting
  <2>1. CASE First' = First
    BY <1>2, <1>3, <1>8, <1>10, <2>1 DEF Waiting, FrameOf
  <2>2. CASE InSlots = 0
    <3>1. \A k \in 1 .. Under : ~(k <= InSlots)
      BY <2>2
    <3> QED
      BY <1>2, <1>3, <1>8, <1>10, <3>1 DEF Waiting
  <2> QED
    BY <1>8, <2>1, <2>2
<1> QED
  BY <1>0, <1>2, <1>9, <1>10, <1>11, WaitingSame

(* The frames in the slots get lost, and no others. *)
LEMMA SlotsLost ==
  ASSUME WaitingFacts, WaitingFacts', OrderInv, TypeOK, cut \subseteq cut',
         InSlots' = 0, Entering' = Entering, UNCHANGED <<xmit, devq, made, aired>>,
         "frames" \in cut' \/ InSlots = 0
  PROVE  OrderInv'
<1>3. /\ InSlots \in Nat /\ Len(devq) \in Nat /\ Entering \in {0, 1}
      /\ Under \in Nat /\ Under = InSlots + Entering + Len(devq)
      /\ Under' = InSlots' + Entering' + Len(devq')
  BY DEF WaitingFacts
<1>4. Under' = Under - InSlots /\ InSlots \in 0 .. Under
  BY <1>3
<1>5. ASSUME NEW k \in 1 .. Under - InSlots
      PROVE  Waiting'[k] = Waiting[k + InSlots]
  <2>1. CASE k <= Entering
    <3>1. k = 1 /\ Entering = 1
      BY <1>3, <2>1
    <3>2. Waiting'[InSlots' + 1] = xmit'.id /\ Waiting[InSlots + 1] = xmit.id
      BY <3>1 DEF WaitingFacts
    <3>3. InSlots' + 1 = k /\ InSlots + 1 = k + InSlots
      BY <1>3, <3>1
    <3> QED
      BY <3>2, <3>3
  <2>2. CASE ~(k <= Entering)
    <3>1. PICK j \in 1 .. Len(devq) : k = Entering + j
      <4>1. k - Entering \in 1 .. Len(devq) /\ k = Entering + (k - Entering)
        BY <1>3, <2>2
      <4> QED
        BY <4>1
    <3>2. /\ Waiting'[InSlots' + Entering' + j] = devq'[j].id
          /\ Waiting[InSlots + Entering + j] = devq[j].id
      BY <3>1 DEF WaitingFacts
    <3>3. InSlots' + Entering' + j = k /\ InSlots + Entering + j = k + InSlots
      BY <1>3, <3>1
    <3> QED
      BY <3>2, <3>3
  <2> QED
    BY <2>1, <2>2
<1>6. Ordered(cut, Waiting, Under, aired, made)
  BY DEF OrderInv
<1>7. Ordered(cut', Waiting, Under, aired, made)
  <2>1. aired \in Nat /\ made \in Nat /\ \A k \in 1 .. Under : Waiting[k] \in Nat
    BY DEF TypeOK, WaitingFacts
  <2> QED
    BY <1>3, <1>6, <2>1, OrderedLossy
<1>8. Ordered(cut', Waiting', Under - InSlots, aired, made)
  BY <1>3, <1>4, <1>5, <1>7, OrderedDrop
<1>9. Ordered(cut', Waiting', Under', aired', made')
  BY <1>4, <1>8
<1> QED
  BY <1>9 DEF OrderInv, Ordered, Apart

(* A speed change loses the frames that are still in the slots. *)
LEMMA LapChangeSpeedOrder ==
  ASSUME FullInv, FullInv', OrderInv, MemoryInv, LapChangeSpeed, Intact'
  PROVE  OrderInv' /\ MemoryInv'
<1>0. WaitingFacts /\ WaitingFacts' /\ TypeOK
  BY WaitingIs, PTL DEF FullInv, BaseInv
<1>1. UNCHANGED <<xmit, devq, made, aired>> /\ cut \subseteq cut' /\ "TX" \notin pend
  BY DEF LapChangeSpeed, Intact
<1>2. HighSpeed => InSlots = len
  BY <1>1 DEF FullInv, BaseInv, TypeOK, QueueInv, InSlots, First
<1>3. "frames" \in cut' \/ InSlots = 0
  <2>1. CASE HighSpeed
    BY <1>0, <1>2, <2>1 DEF LapChangeSpeed, WaitingFacts
  <2> QED
    BY <2>1 DEF InSlots
<1>4. HighSpeed' => ptr' = 0 /\ free' = 0
  BY DEF LapChangeSpeed, ChangeSpeed, ResetTxq, HighSpeed
<1>5. InSlots' = 0
  <2>1. CASE HighSpeed'
    <3>1. InSlots' \in Nat /\ InSlots' = free' - First' /\ First' \in Nat
      BY <1>0, <2>1 DEF WaitingFacts
    <3>2. free' = 0
      BY <1>4, <2>1
    <3>3. \A n, f \in Nat : n = 0 - f => n = 0
      OBVIOUS
    <3> QED
      BY <3>1, <3>2, <3>3
  <2> QED
    BY <2>1 DEF InSlots
<1>6. Entering' = Entering
  BY <1>1 DEF Entering
<1>7. MemoryInv'
  BY <1>4 DEF MemoryInv
<1> QED
  BY <1>0, <1>1, <1>3, <1>5, <1>6, <1>7, SlotsLost

(* So does a card reset. *)
LEMMA CardResetOrder ==
  ASSUME FullInv, FullInv', OrderInv, MemoryInv, CardReset
  PROVE  OrderInv' /\ MemoryInv'
<1>0. WaitingFacts /\ WaitingFacts' /\ TypeOK
  BY WaitingIs, PTL DEF FullInv, BaseInv
<1>1. ~HighSpeed' /\ UNCHANGED <<xmit, devq, made, aired>> /\ cut \subseteq cut'
  BY DEF CardReset, ChangeSpeed, HighSpeed
<1>2. Entering' = Entering /\ InSlots' = 0
  BY <1>1 DEF Entering, InSlots
<1>3. "frames" \in cut' \/ InSlots = 0
  <2>1. CASE HighSpeed
    <3>1. InSlots <= len
      BY <2>1 DEF FullInv, BaseInv, TypeOK, QueueInv, InSlots, First
    <3>2. len > 0 \/ InSlots = 0
      BY <1>0, <3>1 DEF WaitingFacts, TypeOK
    <3>3. len > 0 => cut' = cut \cup {"frames"}
      BY <2>1 DEF CardReset
    <3> QED
      BY <3>2, <3>3
  <2> QED
    BY <2>1 DEF InSlots
<1>4. MemoryInv'
  BY <1>1 DEF MemoryInv
<1> QED
  BY <1>0, <1>1, <1>2, <1>3, <1>4, SlotsLost

(* IrLAP makes a frame. *)
LEMMA LapSendOrder ==
  ASSUME FullInv, FullInv', OrderInv, MemoryInv, LapSend
  PROVE  OrderInv' /\ MemoryInv'
<1>0. WaitingFacts /\ WaitingFacts'
  BY WaitingIs, PTL
<1>1. /\ UNCHANGED <<ptr, free, queue, shm, baud, xmit, pend, cut, aired>>
      /\ made' = made + 1
  BY DEF LapSend, txq
<1>2. PICK size \in FrameLen :
        devq' = Append(devq, [id |-> made + 1, size |-> size, at |-> "queued"])
  BY DEF LapSend
<1>3. /\ devq \in Seq([id : Nat, size : FrameLen, at : {"queued"}])
      /\ made \in Nat /\ aired \in Nat
  BY DEF FullInv, BaseInv, TypeOK
<1>4. /\ Len(devq) \in Nat /\ Len(devq') = Len(devq) + 1
      /\ \A k \in 1 .. Len(devq) : devq'[k] = devq[k]
      /\ devq'[Len(devq) + 1].id = made + 1
  BY <1>2, <1>3
<1>5. /\ First' = First /\ HighSpeed' = HighSpeed /\ InSlots' = InSlots
      /\ Entering' = Entering
  BY <1>1 DEF First, HighSpeed, InSlots, Entering
<1>6. MemoryInv'
  BY <1>1, <1>5 DEF MemoryInv, FrameOf
<1>7. /\ InSlots \in Nat /\ Entering \in {0, 1}
      /\ Under \in Nat /\ Under = InSlots + Entering + Len(devq)
      /\ Under' = InSlots' + Entering' + Len(devq')
      /\ \A k \in 1 .. Under : Waiting[k] \in Nat
  BY <1>0 DEF WaitingFacts
<1>8. Under' = Under + 1
  BY <1>4, <1>5, <1>7
<1>9. ASSUME NEW k \in 1 .. Under
      PROVE  Waiting'[k] = Waiting[k]
  <2>1. CASE k <= InSlots
    <3>1. k \in 1 .. InSlots /\ k \in 1 .. InSlots'
      BY <1>5, <1>7, <2>1
    <3>2. Waiting[k] = FrameOf(First + k - 1) /\ Waiting'[k] = FrameOf(First + k - 1)'
      BY <1>0, <3>1 DEF WaitingFacts
    <3>3. FrameOf(First + k - 1)' = FrameOf(First + k - 1)
      BY <1>1, <1>5 DEF FrameOf
    <3> QED
      BY <3>2, <3>3
  <2>2. CASE ~(k <= InSlots) /\ k <= InSlots + Entering
    <3>1. k = InSlots + 1 /\ Entering = 1
      BY <1>7, <2>2
    <3>2. Waiting[InSlots + 1] = xmit.id /\ Waiting'[InSlots' + 1] = xmit'.id
      BY <1>0, <1>5, <3>1 DEF WaitingFacts
    <3> QED
      BY <1>1, <1>5, <3>1, <3>2
  <2>3. CASE ~(k <= InSlots + Entering)
    <3>1. PICK j \in 1 .. Len(devq) : k = InSlots + Entering + j
      <4>1. /\ k - InSlots - Entering \in 1 .. Len(devq)
            /\ k = InSlots + Entering + (k - InSlots - Entering)
        BY <1>4, <1>7, <2>3
      <4> QED
        BY <4>1
    <3>2. j \in 1 .. Len(devq')
      BY <1>4, <3>1
    <3>3. /\ Waiting'[InSlots' + Entering' + j] = devq'[j].id
          /\ Waiting[InSlots + Entering + j] = devq[j].id
      BY <1>0, <3>1, <3>2 DEF WaitingFacts
    <3> QED
      BY <1>4, <1>5, <3>1, <3>3
  <2> QED
    BY <1>7, <2>1, <2>2, <2>3
<1>10. Waiting'[Under + 1] = made + 1
  <2>1. Len(devq) + 1 \in 1 .. Len(devq')
    BY <1>4
  <2>2. Waiting'[InSlots' + Entering' + (Len(devq) + 1)] = devq'[Len(devq) + 1].id
    BY <1>0, <2>1 DEF WaitingFacts
  <2>3. InSlots' + Entering' + (Len(devq) + 1) = Under + 1
    BY <1>4, <1>5, <1>7
  <2> QED
    BY <1>4, <2>2, <2>3
<1>11. Ordered(cut, Waiting, Under, aired, made)
  BY DEF OrderInv
<1>12. Ordered(cut, Waiting', Under + 1, aired, made + 1)
  BY <1>3, <1>7, <1>9, <1>10, <1>11, OrderedAppend
<1>13. Ordered(cut', Waiting', Under', aired', made')
  BY <1>1, <1>8, <1>12
<1> QED
  BY <1>6, <1>13 DEF OrderInv, Ordered, Apart

(* What a step that puts a frame on the air has to do. *)
Airs == IF "frames" \in cut THEN aired' > aired ELSE aired' = aired + 1

(* A step that airs the first of the frames that wait. *)
LEMMA OrderTake ==
  ASSUME FullInv, FullInv', OrderInv, made' = made, cut' = cut, Under >= 1, Under' = Under - 1,
         aired' = Waiting[1], \A k \in 1 .. Under - 1 : Waiting'[k] = Waiting[k + 1]
  PROVE  OrderInv' /\ Airs
<1>0. WaitingFacts
  BY WaitingIs
<1>1. /\ aired \in Nat /\ made \in Nat /\ Under \in Nat /\ Waiting[1] \in Nat
      /\ Ordered(cut, Waiting, Under, aired, made)
  BY <1>0 DEF FullInv, BaseInv, TypeOK, WaitingFacts, OrderInv
<1>2. /\ Ordered(cut, Waiting', Under - 1, Waiting[1], made)
      /\ IF "frames" \in cut THEN Waiting[1] > aired ELSE Waiting[1] = aired + 1
  <2>1. PICK n \in Nat : n = Under
    BY <1>1
  <2>2. n >= 1 /\ \A k \in 1 .. n - 1 : Waiting'[k] = Waiting[k + 1]
    BY <2>1
  <2>3. Ordered(cut, Waiting, n, aired, made)
    BY <1>1, <2>1
  <2>4. /\ Ordered(cut, Waiting', n - 1, Waiting[1], made)
        /\ IF "frames" \in cut THEN Waiting[1] > aired ELSE Waiting[1] = aired + 1
    <3>1. PICK f \in {Waiting} : TRUE
      OBVIOUS
    <3>2. PICK g \in {Waiting'} : TRUE
      OBVIOUS
    <3>3. PICK a \in Nat : a = aired
      BY <1>1
    <3>4. PICK m \in Nat : m = made
      BY <1>1
    <3>5. /\ Ordered(cut, f, n, a, m) /\ f[1] \in Nat
          /\ \A k \in 1 .. n - 1 : g[k] = f[k + 1]
      BY <1>1, <2>2, <2>3, <3>1, <3>2, <3>3, <3>4
    <3>6. /\ Ordered(cut, g, n - 1, f[1], m)
          /\ IF "frames" \in cut THEN f[1] > a ELSE f[1] = a + 1
      <4>1. PICK l \in {cut} : TRUE
        OBVIOUS
      <4>2. Ordered(l, f, n, a, m)
        BY <3>5, <4>1
      <4>3. /\ Ordered(l, g, n - 1, f[1], m)
            /\ Apart(l, a, f[1], 1)
        BY <2>2, <3>5, <4>2, OrderedTake
      <4> QED
        BY <3>5, <4>1, <4>3 DEF Apart
    <3> QED
      BY <3>1, <3>2, <3>3, <3>4, <3>6
  <2> QED
    BY <2>1, <2>4
<1>3. Ordered(cut', Waiting', Under', aired', made')
  BY <1>2
<1> QED
  BY <1>2, <1>3 DEF OrderInv, Ordered, Apart, Airs

(* irport sends the first frame of the device's queue. *)
LEMMA SirXmitOrder ==
  ASSUME FullInv, FullInv', OrderInv, MemoryInv, SirXmit
  PROVE  OrderInv' /\ MemoryInv' /\ Airs
<1>0. WaitingFacts /\ WaitingFacts'
  BY WaitingIs, PTL
<1>1. /\ devq \in Seq([id : Nat, size : FrameLen, at : {"queued"}])
      /\ devq # <<>> /\ devq' = Tail(devq) /\ aired' = Head(devq).id
      /\ xmit = NoFrame /\ ~HighSpeed /\ UNCHANGED <<baud, xmit, cut, made>>
  BY DEF FullInv, BaseInv, TypeOK, SirXmit
<1>2. /\ Len(devq) \in Nat /\ Len(devq) > 0 /\ Len(devq') = Len(devq) - 1
      /\ \A k \in 1 .. Len(devq') : devq'[k] = devq[k + 1]
      /\ Head(devq) = devq[1]
  BY <1>1
<1>3. /\ Entering = 0 /\ Entering' = 0 /\ ~HighSpeed' /\ InSlots = 0 /\ InSlots' = 0
  BY <1>1 DEF Entering, NoFrame, HighSpeed, InSlots
<1>4. Under = Len(devq) /\ Under' = Len(devq')
  BY <1>0, <1>3 DEF WaitingFacts
<1>5. ASSUME NEW k \in 1 .. Len(devq)
      PROVE  Waiting[k] = devq[k].id
  <2>1. Waiting[InSlots + Entering + k] = devq[k].id
    BY <1>0 DEF WaitingFacts
  <2> QED
    BY <1>3, <2>1
<1>6. ASSUME NEW k \in 1 .. Len(devq')
      PROVE  Waiting'[k] = devq'[k].id
  <2>1. Waiting'[InSlots' + Entering' + k] = devq'[k].id
    BY <1>0 DEF WaitingFacts
  <2> QED
    BY <1>2, <1>3, <2>1
<1>7. Under >= 1 /\ Under' = Under - 1 /\ aired' = Waiting[1]
  <2>1. 1 \in 1 .. Len(devq)
    BY <1>2
  <2> QED
    BY <1>1, <1>2, <1>4, <1>5, <2>1
<1>8. ASSUME NEW k \in 1 .. Under - 1
      PROVE  Waiting'[k] = Waiting[k + 1]
  <2>1. k \in 1 .. Len(devq') /\ k + 1 \in 1 .. Len(devq)
    BY <1>2, <1>4, <1>8
  <2> QED
    BY <1>2, <1>5, <1>6, <2>1
<1>9. OrderInv' /\ Airs
  BY <1>1, <1>7, <1>8, OrderTake
<1>10. MemoryInv'
  BY <1>3 DEF MemoryInv
<1> QED
  BY <1>9, <1>10

(* Where the k-th of the remaining frames is, if n frames are in slots, e  *)
(* is behind the lock and d are in the device's queue.                     *)
LEMMA Position ==
  ASSUME NEW n \in Nat, NEW e \in {0, 1}, NEW d \in Nat,
         NEW k \in 1 .. n + e + d - 1, n >= 1
  PROVE  \/ k + 1 \in 1 .. n /\ k \in 1 .. n - 1
         \/ k = n /\ e = 1
         \/ \E j \in 1 .. d : k + 1 = n + e + j /\ k = n - 1 + e + j
<1>1. CASE k <= n - 1
  BY <1>1
<1>2. CASE k > n - 1 /\ k <= n - 1 + e
  BY <1>2
<1>3. CASE k > n - 1 + e
  <2>1. /\ k + 1 - n - e \in 1 .. d /\ k + 1 = n + e + (k + 1 - n - e)
        /\ k = n - 1 + e + (k + 1 - n - e)
    BY <1>3
  <2> QED
    BY <2>1
<1> QED
  BY <1>1, <1>2, <1>3

(* The chip finishes the frame of slot ptr. *)
LEMMA ChipTxDoneOrder ==
  ASSUME FullInv, FullInv', OrderInv, MemoryInv, ChipTxDone
  PROVE  OrderInv' /\ MemoryInv' /\ Airs
<1>0. WaitingFacts /\ WaitingFacts'
  BY WaitingIs, PTL
<1>1. /\ UNCHANGED <<ptr, free, queue, shm, baud, xmit, devq, cut, made>>
      /\ HighSpeed /\ aired' = FrameAt(dma) /\ pend' = pend \cup {"TX"} /\ dma # NoDma
  BY DEF ChipTxDone, txq, lapv
<1>2. /\ ptr \in Nat /\ free \in Nat /\ "TX" \notin pend /\ dma = queue[ptr]
      /\ ptr \in ptr .. free - 1
  BY <1>1 DEF FullInv, BaseInv, TypeOK, QueueInv
<1>3. First = ptr /\ First' = ptr + 1 /\ HighSpeed' /\ Entering' = Entering
  BY <1>1, <1>2 DEF First, HighSpeed, Entering
<1>4. /\ InSlots \in Nat /\ Len(devq) \in Nat /\ Entering \in {0, 1} /\ Under \in Nat
      /\ InSlots = free - First /\ Under = InSlots + Entering + Len(devq)
      /\ InSlots' = free' - First' /\ Under' = InSlots' + Entering' + Len(devq')
  BY <1>0, <1>1, <1>3 DEF WaitingFacts
<1>5. InSlots' = InSlots - 1 /\ Under' = Under - 1 /\ InSlots >= 1 /\ Under >= 1
  BY <1>1, <1>2, <1>3, <1>4
<1>6. Waiting[1] = FrameOf(ptr)
  <2>1. Waiting[1] = FrameOf(First + 1 - 1)
    BY <1>0, <1>4, <1>5 DEF WaitingFacts
  <2>2. First + 1 - 1 = ptr
    BY <1>2, <1>3
  <2> QED
    BY <2>1, <2>2
<1>7. FrameAt(dma) = FrameOf(ptr)
  <2>1. /\ queue[ptr].start \in Nat /\ queue[ptr].len \in Nat /\ queue[ptr].len > 0
        /\ tail \in Nat /\ queue[ptr].start + queue[ptr].len <= tail /\ tail <= ShmSize
    BY <1>1, <1>2, SlotInMemory DEF FullInv, BaseInv, TypeOK
  <2> DEFINE R == queue[ptr].start .. queue[ptr].start + queue[ptr].len - 1
             D == R \cap DOMAIN shm
             ids == {shm[a] : a \in D}
  <2>2. \A a \in R : shm[a] = FrameOf(ptr)
    BY <1>1, <1>2 DEF MemoryInv
  <2>3. queue[ptr].start \in R
    BY <2>1
  <2>4. ids = {FrameOf(ptr)}
    <3>1. DOMAIN shm = 0 .. ShmSize - 1
      BY DEF FullInv, BaseInv, TypeOK
    <3>2. R \subseteq 0 .. ShmSize - 1
      BY <2>1, TxAssumption
    <3>3. D = R
      BY <3>1, <3>2
    <3> QED
      BY <2>2, <2>3, <3>3
  <2> HIDE DEF ids
  <2>5. (CHOOSE f \in ids : TRUE) \in ids
    BY <2>4, Zenon
  <2>6. (CHOOSE f \in ids : TRUE) = FrameOf(ptr)
    BY <2>4, <2>5
  <2>7. \E f \in ids : ids = {f}
    BY <2>4
  <2>8. FrameAt(dma) = IF \E f \in ids : ids = {f} THEN CHOOSE f \in ids : TRUE ELSE 0
    BY <1>2, Zenon DEF FrameAt, ids, R, D
  <2> QED
    BY <2>6, <2>7, <2>8
<1>8. ASSUME NEW k \in 1 .. Under - 1
      PROVE  Waiting'[k] = Waiting[k + 1]
  <2>0. \/ k + 1 \in 1 .. InSlots /\ k \in 1 .. InSlots - 1
        \/ k = InSlots /\ Entering = 1
        \/ \E j \in 1 .. Len(devq) : k + 1 = InSlots + Entering + j
                                     /\ k = InSlots - 1 + Entering + j
    <3>1. k \in 1 .. InSlots + Entering + Len(devq) - 1
      BY <1>4, <1>8
    <3>2. PICK n \in Nat : n = InSlots
      BY <1>4
    <3>3. PICK e \in {0, 1} : e = Entering
      BY <1>4
    <3>4. PICK d \in Nat : d = Len(devq)
      BY <1>4
    <3>5. k \in 1 .. n + e + d - 1 /\ n >= 1
      BY <1>5, <3>1, <3>2, <3>3, <3>4
    <3>6. \/ k + 1 \in 1 .. n /\ k \in 1 .. n - 1
          \/ k = n /\ e = 1
          \/ \E j \in 1 .. d : k + 1 = n + e + j /\ k = n - 1 + e + j
      BY <3>5, Position
    <3> QED
      BY <3>2, <3>3, <3>4, <3>6
  <2>1. CASE k + 1 \in 1 .. InSlots /\ k \in 1 .. InSlots - 1
    <3>1. k + 1 \in 1 .. InSlots /\ k \in 1 .. InSlots'
      BY <1>5, <2>1
    <3>2. Waiting[k + 1] = FrameOf(First + (k + 1) - 1)
          /\ Waiting'[k] = FrameOf(First + k - 1)'
      BY <1>0, <3>1 DEF WaitingFacts
    <3>3. FrameOf(First + k - 1)' = FrameOf(ptr + 1 + k - 1)
      BY <1>1, <1>3 DEF FrameOf
    <3>4. ptr + 1 + k - 1 = First + (k + 1) - 1
      BY <1>2, <1>3
    <3> QED
      BY <3>2, <3>3, <3>4
  <2>2. CASE k = InSlots /\ Entering = 1
    <3>1. Waiting[InSlots + 1] = xmit.id /\ Waiting'[InSlots' + 1] = xmit'.id
      BY <1>0, <1>3, <2>2 DEF WaitingFacts
    <3>2. InSlots' + 1 = k
      BY <1>4, <1>5, <2>2
    <3> QED
      BY <1>1, <2>2, <3>1, <3>2
  <2>3. ASSUME NEW j \in 1 .. Len(devq),
               k + 1 = InSlots + Entering + j, k = InSlots - 1 + Entering + j
        PROVE  Waiting'[k] = Waiting[k + 1]
    <3>1. /\ Waiting'[InSlots' + Entering' + j] = devq'[j].id
          /\ Waiting[InSlots + Entering + j] = devq[j].id
      BY <1>0, <1>1, <2>3 DEF WaitingFacts
    <3>2. InSlots' + Entering' + j = k
      BY <1>3, <1>5, <2>3
    <3> QED
      BY <1>1, <2>3, <3>1, <3>2
  <2> QED
    BY <2>0, <2>1, <2>2, <2>3
<1>9. OrderInv' /\ Airs
  BY <1>1, <1>5, <1>6, <1>7, <1>8, OrderTake
<1>10. MemoryInv'
  BY <1>1, <1>3 DEF MemoryInv, FrameOf
<1> QED
  BY <1>9, <1>10

(* The other steps move no frame. *)
LEMMA OtherOrder ==
  ASSUME FullInv, FullInv', OrderInv, MemoryInv,
         \/ XmitLeave \/ IrqEnter \/ ServeRx \/ IrqPoll \/ LapPassTurn \/ LapTimeout
         \/ LapWait \/ WaitUntilSentReturns \/ ChipRx \/ UNCHANGED vars
  PROVE  OrderInv' /\ MemoryInv' /\ aired' = aired
<1>1. UNCHANGED <<txq, baud, devq, cut, made, aired>>
  BY DEF XmitLeave, IrqEnter, ServeRx, IrqPoll, LapPassTurn, LapTimeout, LapWait,
     WaitUntilSentReturns, ChipRx, vars, lapv
<1>2. "TX" \in pend' <=> "TX" \in pend
  <2>1. \/ pend' = pend
        \/ pend' = pend \ {"RX"}
        \/ pend = {} /\ pend' = {"RX"}
    BY DEF XmitLeave, IrqEnter, ServeRx, IrqPoll, LapPassTurn, LapTimeout, LapWait,
       WaitUntilSentReturns, ChipRx, vars
  <2> QED
    BY <2>1
<1>3. \/ xmit' = xmit
      \/ Entering = 0 /\ Entering' = 0
  <2>1. CASE XmitLeave
    BY <2>1 DEF XmitLeave, Entering, NoFrame
  <2>2. CASE \/ IrqEnter \/ ServeRx \/ IrqPoll \/ LapPassTurn \/ LapTimeout
             \/ LapWait \/ WaitUntilSentReturns \/ ChipRx \/ UNCHANGED vars
    BY <2>2 DEF IrqEnter, ServeRx, IrqPoll, LapPassTurn, LapTimeout, LapWait,
       WaitUntilSentReturns, ChipRx, vars
  <2> QED
    BY <2>1, <2>2
<1>4. Entering' = Entering /\ (Entering = 1 => xmit'.id = xmit.id)
  BY <1>3 DEF Entering
<1> QED
  BY <1>1, <1>2, <1>4, OrderQuiet

(* As long as no frame was lost none is behind the lock at SIR speeds. *)
LEMMA XmitFastStep ==
  ASSUME BaseInv, XmitFast, [Next]_vars
  PROVE  XmitFast'
<1>0. cut \subseteq cut'
  BY CutGrows
<1>1. CASE XmitEnter
  BY <1>1 DEF XmitEnter, XmitFast, HighSpeed
<1>2. CASE LapChangeSpeed
  <2>1. xmit' = NoFrame
    BY <1>2 DEF LapChangeSpeed, BaseInv, WaitInv
  <2> QED
    BY <2>1 DEF XmitFast, NoFrame
<1>3. CASE CardReset
  BY <1>3 DEF CardReset, XmitFast
<1>4. CASE XmitBody
  <2>1. xmit'.at = "unlocked"
    BY <1>4 DEF XmitBody, BaseInv, TypeOK
  <2> QED
    BY <2>1 DEF XmitFast
<1>5. CASE XmitLeave
  BY <1>5 DEF XmitLeave, XmitFast, NoFrame
<1>6. CASE \/ IrqEnter \/ ServeTx \/ ServeRx \/ IrqPoll \/ Environment \/ UNCHANGED vars
  <2>1. xmit' = xmit /\ baud' = baud
    BY <1>6 DEF IrqEnter, ServeTx, ServeRx, IrqPoll, Environment, LapSend, LapPassTurn,
       LapTimeout, LapWait, WaitUntilSentReturns, SirXmit, ChipTxDone, ChipRx, vars
  <2> QED
    BY <1>0, <2>1 DEF XmitFast, HighSpeed
<1> QED
  BY <1>1, <1>2, <1>3, <1>4, <1>5, <1>6 DEF Next, Driver

(* Every step keeps the order, and airs the next frame or none. *)
LEMMA NextOrder ==
  ASSUME FullInv, FullInv', OrderInv, MemoryInv, XmitFast, [Next]_vars, Intact'
  PROVE  OrderInv' /\ MemoryInv' /\ (aired' = aired \/ Airs)
<1>1. CASE XmitEnter
  BY <1>1, XmitEnterOrder DEF XmitEnter
<1>2. CASE XmitBody
  BY <1>2, XmitBodyOrder DEF XmitBody
<1>3. CASE ServeTx
  <2>1. aired' = aired
    BY <1>3 DEF ServeTx
  <2> QED
    BY <1>3, <2>1, ServeTxOrder
<1>4. CASE LapChangeSpeed
  BY <1>4, LapChangeSpeedOrder DEF LapChangeSpeed
<1>5. CASE CardReset
  BY <1>5, CardResetOrder DEF CardReset
<1>6. CASE LapSend
  BY <1>6, LapSendOrder DEF LapSend
<1>7. CASE SirXmit
  BY <1>7, SirXmitOrder
<1>8. CASE ChipTxDone
  BY <1>8, ChipTxDoneOrder
<1>9. CASE \/ XmitLeave \/ IrqEnter \/ ServeRx \/ IrqPoll \/ LapPassTurn \/ LapTimeout
           \/ LapWait \/ WaitUntilSentReturns \/ ChipRx \/ UNCHANGED vars
  BY <1>9, OtherOrder
<1> QED
  BY <1>1, <1>2, <1>3, <1>4, <1>5, <1>6, <1>7, <1>8, <1>9
     DEF Next, Driver, Environment

(* Only a frame that leaves changes what is on the air. *)
LEMMA AiredKeepsCut ==
  ASSUME [Next]_vars, aired' # aired
  PROVE  cut' = cut
BY DEF Next, Driver, XmitEnter, XmitBody, XmitLeave, IrqEnter, ServeTx, ServeRx, IrqPoll,
       LapChangeSpeed, CardReset, Environment, LapSend, LapPassTurn, LapTimeout, LapWait,
       WaitUntilSentReturns, SirXmit, ChipTxDone, ChipRx, lapv, vars

(***************************************************************************)
(* The frames leave in the order IrLAP made them, each at most once, and   *)
(* as long as no speed change or card reset threw queued frames away none  *)
(* is skipped: across the transmit lock, back-to-back sending, turnarounds *)
(* and speed changes, for every window, number of slots and frame length   *)
(* with Capacity, until a speed change cuts a completion off.              *)
(***************************************************************************)
THEOREM FramesInOrder == Spec => InOrder
<1> DEFINE All == FullInv /\ OrderInv /\ MemoryInv /\ XmitFast
<1>1. Init => (Intact => All)
  <2> SUFFICES ASSUME Init
               PROVE  OrderInv /\ MemoryInv /\ XmitFast
    BY InitInv
  <2>1. ~HighSpeed /\ Entering = 0 /\ InSlots = 0 /\ Len(devq) = 0
    BY DEF Init, HighSpeed, Entering, NoFrame, InSlots
  <2>2. Under = 0 /\ aired = 0 /\ made = 0
    BY <2>1 DEF Under, Init
  <2> HIDE DEF Under
  <2>3. Ordered(cut, Waiting, Under, aired, made)
    BY <2>2 DEF Ordered
  <2> QED
    BY <2>1, <2>3 DEF OrderInv, MemoryInv, XmitFast, Init, NoFrame
<1>2. (Intact => All) /\ [Next]_vars => (Intact => All)'
  <2> SUFFICES ASSUME Intact => All, [Next]_vars, Intact'
               PROVE  All'
    OBVIOUS
  <2>1. All
    BY CutGrows DEF Intact
  <2>2. FullInv'
    BY <2>1, FullStep
  <2> QED
    BY <2>1, <2>2, NextOrder, XmitFastStep DEF FullInv
<1>3. (Intact => All) /\ [Next]_vars
      => [Intact /\ aired' # aired =>
            IF "frames" \in cut THEN aired' > aired ELSE aired' = aired + 1]_aired
  <2> SUFFICES ASSUME All, [Next]_vars, Intact, aired' # aired
               PROVE  Airs
    BY DEF Airs
  <2>1. Intact'
    BY AiredKeepsCut DEF Intact
  <2>2. FullInv'
    BY <2>1, FullStep
  <2> QED
    BY <2>1, <2>2, NextOrder
<1> QED
  BY <1>1, <1>2, <1>3, PTL DEF Spec, InOrder
=============================================================================
