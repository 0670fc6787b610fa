--------------------------- MODULE IrattachProofs ---------------------------
(***************************************************************************)
(* irattach restores its tty and takes its interface down, for every set   *)
(* of processes and interfaces, every number of signals, and any failures. *)
(***************************************************************************)
EXTENDS Irattach, TLAPS

(* The invariant holds when the processes start. *)
LEMMA InitInv == Init => IInv
<1> SUFFICES ASSUME Init
             PROVE  IInv
  OBVIOUS
<1> USE IrattachAssumption
<1>1. opened \in [Proc -> BOOLEAN] /\ termvalid \in [Proc -> BOOLEAN]
      /\ initdisc \in [Proc -> BOOLEAN] /\ discovery \in BOOLEAN
  BY Zenon DEF Init
<1>2. TypeOK
  BY <1>1 DEF Init, TypeOK, Ended, Untrapped, Trapped, Cleaning
<1>3. \A p \in Proc : TtyInv(p)
  BY DEF Init, TtyInv, Ended, Trapped, Cleaning
<1> QED
  BY <1>2, <1>3 DEF IInv

(* A process keeps its part of the invariant when none of its own state    *)
(* changes.                                                                *)
LEMMA Untouched ==
  ASSUME NEW q \in Proc, TtyInv(q),
         pc'[q] = pc[q], opened'[q] = opened[q], termvalid'[q] = termvalid[q],
         initdisc'[q] = initdisc[q], termios'[q] = termios[q], disc'[q] = disc[q]
  PROVE  TtyInv(q)'
BY DEF TtyInv

(* Opening the tty. *)
LEMMA OpenTtyInv ==
  ASSUME IInv, NEW p \in Proc, OpenTty(p)
  PROVE  IInv'
<1> USE IrattachAssumption DEF IInv, Goto, ttyv
<1>1. TypeOK'
  BY DEF OpenTty, TypeOK, Ended, Untrapped, Trapped, Cleaning
<1>2. TtyInv(p)'
  BY DEF OpenTty, TypeOK, TtyInv, Ended, Untrapped, Trapped, Cleaning
<1>3. ASSUME NEW q \in Proc, q # p
      PROVE  TtyInv(q)'
  <2>1. /\ pc'[q] = pc[q] /\ opened'[q] = opened[q]
        /\ termvalid'[q] = termvalid[q] /\ initdisc'[q] = initdisc[q]
        /\ termios'[q] = termios[q] /\ disc'[q] = disc[q]
    BY <1>3 DEF OpenTty, TypeOK
  <2> QED
    BY <2>1, Untouched
<1> QED
  BY <1>1, <1>2, <1>3

(* Loading the driver of a named interface. *)
LEMMA LoadNamedInv ==
  ASSUME IInv, NEW p \in Proc, LoadNamed(p)
  PROVE  IInv'
<1> USE IrattachAssumption DEF IInv, Goto, ttyv
<1>1. TypeOK'
  <2>1. PICK i \in Ifs[p] : device' = [device EXCEPT ![p] = i]
    BY DEF LoadNamed
  <2>2. i \in Iface /\ device' \in [Proc -> Iface \cup {NoIf}]
    BY <2>1 DEF TypeOK
  <2>3. ifstate' \in [Iface -> {"absent", "down", "up"}]
    BY DEF LoadNamed, TypeOK, Appear
  <2> QED
    BY <2>2, <2>3 DEF LoadNamed, TypeOK, Ended, Untrapped, Trapped, Cleaning
<1>2. TtyInv(p)'
  BY DEF LoadNamed, TypeOK, TtyInv, Ended, Untrapped, Trapped, Cleaning, Appear
<1>3. ASSUME NEW q \in Proc, q # p
      PROVE  TtyInv(q)'
  <2>1. /\ pc'[q] = pc[q] /\ opened'[q] = opened[q]
        /\ termvalid'[q] = termvalid[q] /\ initdisc'[q] = initdisc[q]
        /\ termios'[q] = termios[q] /\ disc'[q] = disc[q]
    BY <1>3 DEF LoadNamed, TypeOK
  <2> QED
    BY <2>1, Untouched
<1> QED
  BY <1>1, <1>2, <1>3

(* The interfaces before the module is loaded. *)
LEMMA ListBeforeInv ==
  ASSUME IInv, NEW p \in Proc, ListBefore(p)
  PROVE  IInv'
<1> USE IrattachAssumption DEF IInv, Goto, ttyv
<1>1. TypeOK'
  BY DEF ListBefore, TypeOK, Ended, Untrapped, Trapped, Cleaning, Present
<1>2. TtyInv(p)'
  BY DEF ListBefore, TypeOK, TtyInv, Ended, Untrapped, Trapped, Cleaning, Present
<1>3. ASSUME NEW q \in Proc, q # p
      PROVE  TtyInv(q)'
  <2>1. /\ pc'[q] = pc[q] /\ opened'[q] = opened[q]
        /\ termvalid'[q] = termvalid[q] /\ initdisc'[q] = initdisc[q]
        /\ termios'[q] = termios[q] /\ disc'[q] = disc[q]
    BY <1>3 DEF ListBefore, TypeOK
  <2> QED
    BY <2>1, Untouched
<1> QED
  BY <1>1, <1>2, <1>3

(* Loading the module. *)
LEMMA LoadModuleInv ==
  ASSUME IInv, NEW p \in Proc, LoadModule(p)
  PROVE  IInv'
<1> USE IrattachAssumption DEF IInv, Goto, ttyv
<1>1. TypeOK'
  BY DEF LoadModule, TypeOK, Ended, Untrapped, Trapped, Cleaning, Appear
<1>2. TtyInv(p)'
  BY DEF LoadModule, TypeOK, TtyInv, Ended, Untrapped, Trapped, Cleaning, Appear
<1>3. ASSUME NEW q \in Proc, q # p
      PROVE  TtyInv(q)'
  <2>1. /\ pc'[q] = pc[q] /\ opened'[q] = opened[q]
        /\ termvalid'[q] = termvalid[q] /\ initdisc'[q] = initdisc[q]
        /\ termios'[q] = termios[q] /\ disc'[q] = disc[q]
    BY <1>3 DEF LoadModule, TypeOK
  <2> QED
    BY <2>1, Untouched
<1> QED
  BY <1>1, <1>2, <1>3

(* Becoming a daemon. *)
LEMMA DaemonizeInv ==
  ASSUME IInv, NEW p \in Proc, Daemonize(p)
  PROVE  IInv'
<1> USE IrattachAssumption DEF IInv, Goto, ttyv
<1>1. TypeOK'
  BY DEF Daemonize, TypeOK, Ended, Untrapped, Trapped, Cleaning
<1>2. TtyInv(p)'
  BY DEF Daemonize, TypeOK, TtyInv, Ended, Untrapped, Trapped, Cleaning
<1>3. ASSUME NEW q \in Proc, q # p
      PROVE  TtyInv(q)'
  <2>1. /\ pc'[q] = pc[q] /\ opened'[q] = opened[q]
        /\ termvalid'[q] = termvalid[q] /\ initdisc'[q] = initdisc[q]
        /\ termios'[q] = termios[q] /\ disc'[q] = disc[q]
    BY <1>3 DEF Daemonize, TypeOK
  <2> QED
    BY <2>1, Untouched
<1> QED
  BY <1>1, <1>2, <1>3

(* Setting the signal handlers. *)
LEMMA TrapSignalsInv ==
  ASSUME IInv, NEW p \in Proc, TrapSignals(p)
  PROVE  IInv'
<1> USE IrattachAssumption DEF IInv, Goto, ttyv
<1>1. TypeOK'
  BY DEF TrapSignals, TypeOK, Ended, Untrapped, Trapped, Cleaning
<1>2. TtyInv(p)'
  BY DEF TrapSignals, TypeOK, TtyInv, Ended, Untrapped, Trapped, Cleaning
<1>3. ASSUME NEW q \in Proc, q # p
      PROVE  TtyInv(q)'
  <2>1. /\ pc'[q] = pc[q] /\ opened'[q] = opened[q]
        /\ termvalid'[q] = termvalid[q] /\ initdisc'[q] = initdisc[q]
        /\ termios'[q] = termios[q] /\ disc'[q] = disc[q]
    BY <1>3 DEF TrapSignals, TypeOK
  <2> QED
    BY <2>1, Untouched
<1> QED
  BY <1>1, <1>2, <1>3

(* Saving the termios. *)
LEMMA SaveTermiosInv ==
  ASSUME IInv, NEW p \in Proc, SaveTermios(p)
  PROVE  IInv'
<1> USE IrattachAssumption DEF IInv, Goto, ttyv
<1>1. TypeOK'
  BY DEF SaveTermios, TypeOK, Ended, Untrapped, Trapped, Cleaning
<1>2. TtyInv(p)'
  BY DEF SaveTermios, TypeOK, TtyInv, Ended, Untrapped, Trapped, Cleaning
<1>3. ASSUME NEW q \in Proc, q # p
      PROVE  TtyInv(q)'
  <2>1. /\ pc'[q] = pc[q] /\ opened'[q] = opened[q]
        /\ termvalid'[q] = termvalid[q] /\ initdisc'[q] = initdisc[q]
        /\ termios'[q] = termios[q] /\ disc'[q] = disc[q]
    BY <1>3 DEF SaveTermios, TypeOK
  <2> QED
    BY <2>1, Untouched
<1> QED
  BY <1>1, <1>2, <1>3

(* Changing the saved termios. *)
LEMMA SetTermiosInv ==
  ASSUME IInv, NEW p \in Proc, SetTermios(p)
  PROVE  IInv'
<1> USE IrattachAssumption DEF IInv, Goto, ttyv
<1>1. TypeOK'
  BY DEF SetTermios, TypeOK, Ended, Untrapped, Trapped, Cleaning
<1>2. TtyInv(p)'
  BY DEF SetTermios, TypeOK, TtyInv, Ended, Untrapped, Trapped, Cleaning
<1>3. ASSUME NEW q \in Proc, q # p
      PROVE  TtyInv(q)'
  <2>1. /\ pc'[q] = pc[q] /\ opened'[q] = opened[q]
        /\ termvalid'[q] = termvalid[q] /\ initdisc'[q] = initdisc[q]
        /\ termios'[q] = termios[q] /\ disc'[q] = disc[q]
    BY <1>3 DEF SetTermios, TypeOK
  <2> QED
    BY <2>1, Untouched
<1> QED
  BY <1>1, <1>2, <1>3

(* Saving the line discipline. *)
LEMMA GetDiscInv ==
  ASSUME IInv, NEW p \in Proc, GetDisc(p)
  PROVE  IInv'
<1> USE IrattachAssumption DEF IInv, Goto, ttyv
<1>1. TypeOK'
  BY DEF GetDisc, TypeOK, Ended, Untrapped, Trapped, Cleaning
<1>2. TtyInv(p)'
  BY DEF GetDisc, TypeOK, TtyInv, Ended, Untrapped, Trapped, Cleaning
<1>3. ASSUME NEW q \in Proc, q # p
      PROVE  TtyInv(q)'
  <2>1. /\ pc'[q] = pc[q] /\ opened'[q] = opened[q]
        /\ termvalid'[q] = termvalid[q] /\ initdisc'[q] = initdisc[q]
        /\ termios'[q] = termios[q] /\ disc'[q] = disc[q]
    BY <1>3 DEF GetDisc, TypeOK
  <2> QED
    BY <2>1, Untouched
<1> QED
  BY <1>1, <1>2, <1>3

(* Changing the saved line discipline. *)
LEMMA SetDiscInv ==
  ASSUME IInv, NEW p \in Proc, SetDisc(p)
  PROVE  IInv'
<1> USE IrattachAssumption DEF IInv, Goto, ttyv
<1>1. TypeOK'
  BY DEF SetDisc, TypeOK, Ended, Untrapped, Trapped, Cleaning, Appear
<1>2. TtyInv(p)'
  BY DEF SetDisc, TypeOK, TtyInv, Ended, Untrapped, Trapped, Cleaning, Appear
<1>3. ASSUME NEW q \in Proc, q # p
      PROVE  TtyInv(q)'
  <2>1. /\ pc'[q] = pc[q] /\ opened'[q] = opened[q]
        /\ termvalid'[q] = termvalid[q] /\ initdisc'[q] = initdisc[q]
        /\ termios'[q] = termios[q] /\ disc'[q] = disc[q]
    BY <1>3 DEF SetDisc, TypeOK
  <2> QED
    BY <2>1, Untouched
<1> QED
  BY <1>1, <1>2, <1>3

(* The name of the interface. *)
LEMMA GetNameInv ==
  ASSUME IInv, NEW p \in Proc, GetName(p)
  PROVE  IInv'
<1> USE IrattachAssumption DEF IInv, Goto, ttyv
<1>1. TypeOK'
  BY DEF GetName, TypeOK, Ended, Untrapped, Trapped, Cleaning
<1>2. TtyInv(p)'
  BY DEF GetName, TypeOK, TtyInv, Ended, Untrapped, Trapped, Cleaning
<1>3. ASSUME NEW q \in Proc, q # p
      PROVE  TtyInv(q)'
  <2>1. /\ pc'[q] = pc[q] /\ opened'[q] = opened[q]
        /\ termvalid'[q] = termvalid[q] /\ initdisc'[q] = initdisc[q]
        /\ termios'[q] = termios[q] /\ disc'[q] = disc[q]
    BY <1>3 DEF GetName, TypeOK
  <2> QED
    BY <2>1, Untouched
<1> QED
  BY <1>1, <1>2, <1>3

(* The dongle. *)
LEMMA AttachDongleInv ==
  ASSUME IInv, NEW p \in Proc, AttachDongle(p)
  PROVE  IInv'
<1> USE IrattachAssumption DEF IInv, Goto, ttyv
<1>1. TypeOK'
  BY DEF AttachDongle, TypeOK, Ended, Untrapped, Trapped, Cleaning
<1>2. TtyInv(p)'
  BY DEF AttachDongle, TypeOK, TtyInv, Ended, Untrapped, Trapped, Cleaning
<1>3. ASSUME NEW q \in Proc, q # p
      PROVE  TtyInv(q)'
  <2>1. /\ pc'[q] = pc[q] /\ opened'[q] = opened[q]
        /\ termvalid'[q] = termvalid[q] /\ initdisc'[q] = initdisc[q]
        /\ termios'[q] = termios[q] /\ disc'[q] = disc[q]
    BY <1>3 DEF AttachDongle, TypeOK
  <2> QED
    BY <2>1, Untouched
<1> QED
  BY <1>1, <1>2, <1>3

(* The parameters of the stack. *)
LEMMA SetParamsInv ==
  ASSUME IInv, NEW p \in Proc, SetParams(p)
  PROVE  IInv'
<1> USE IrattachAssumption DEF IInv, Goto, ttyv
<1>1. TypeOK'
  BY DEF SetParams, TypeOK, Ended, Untrapped, Trapped, Cleaning
<1>2. TtyInv(p)'
  BY DEF SetParams, TypeOK, TtyInv, Ended, Untrapped, Trapped, Cleaning
<1>3. ASSUME NEW q \in Proc, q # p
      PROVE  TtyInv(q)'
  <2>1. /\ pc'[q] = pc[q] /\ opened'[q] = opened[q]
        /\ termvalid'[q] = termvalid[q] /\ initdisc'[q] = initdisc[q]
        /\ termios'[q] = termios[q] /\ disc'[q] = disc[q]
    BY <1>3 DEF SetParams, TypeOK
  <2> QED
    BY <2>1, Untouched
<1> QED
  BY <1>1, <1>2, <1>3

(* Starting the interface. *)
LEMMA IfUpInv ==
  ASSUME IInv, NEW p \in Proc, IfUp(p)
  PROVE  IInv'
<1> USE IrattachAssumption DEF IInv, Goto, ttyv
<1>1. TypeOK'
  BY DEF IfUp, TypeOK, Ended, Untrapped, Trapped, Cleaning, Present
<1>2. TtyInv(p)'
  BY DEF IfUp, TypeOK, TtyInv, Ended, Untrapped, Trapped, Cleaning, Present
<1>3. ASSUME NEW q \in Proc, q # p
      PROVE  TtyInv(q)'
  <2>1. /\ pc'[q] = pc[q] /\ opened'[q] = opened[q]
        /\ termvalid'[q] = termvalid[q] /\ initdisc'[q] = initdisc[q]
        /\ termios'[q] = termios[q] /\ disc'[q] = disc[q]
    BY <1>3 DEF IfUp, TypeOK
  <2> QED
    BY <2>1, Untouched
<1> QED
  BY <1>1, <1>2, <1>3

(* A signal at any step. *)
LEMMA SignalInv ==
  ASSUME IInv, NEW p \in Proc, Signal(p)
  PROVE  IInv'
<1> USE IrattachAssumption DEF IInv, Goto, ttyv
<1>1. TypeOK'
  <2>1. opened' \in [Proc -> BOOLEAN]
    BY Zenon DEF Signal, TypeOK
  <2>2. signals' \in [Proc -> 0 .. MaxSignals]
    BY DEF Signal, TypeOK
  <2>3. pc' \in [Proc -> Ended \cup Untrapped \cup Trapped]
    BY DEF Signal, TypeOK, Ended, Trapped, Cleaning
  <2> QED
    BY <2>1, <2>2, <2>3 DEF Signal, TypeOK
<1>2. TtyInv(p)'
  <2>1. CASE pc[p] \in Untrapped
    <3>1. pc'[p] = "dead" /\ opened'[p] = FALSE
      BY <2>1 DEF Signal, TypeOK, Untrapped, Trapped, Cleaning
    <3>2. termios[p] # "irda" /\ disc[p] # "irda"
      BY <2>1 DEF TtyInv, Untrapped, Trapped, Cleaning
    <3> QED
      BY <3>1, <3>2 DEF Signal, TypeOK, TtyInv, Ended, Untrapped, Trapped, Cleaning
  <2>2. CASE pc[p] \in Trapped
    <3>1. pc'[p] = "ifdown" /\ opened'[p] = opened[p]
      BY <2>2 DEF Signal, TypeOK, Untrapped, Trapped, Cleaning
    <3> QED
      BY <3>1 DEF Signal, TypeOK, TtyInv, Ended, Trapped, Cleaning
  <2> QED
    BY <2>1, <2>2 DEF Signal
<1>3. ASSUME NEW q \in Proc, q # p
      PROVE  TtyInv(q)'
  <2>1. /\ pc'[q] = pc[q] /\ opened'[q] = opened[q]
        /\ termvalid'[q] = termvalid[q] /\ initdisc'[q] = initdisc[q]
        /\ termios'[q] = termios[q] /\ disc'[q] = disc[q]
    BY <1>3 DEF Signal, TypeOK
  <2> QED
    BY <2>1, Untouched
<1> QED
  BY <1>1, <1>2, <1>3

(* cleanup stops the interface. *)
LEMMA IfDownInv ==
  ASSUME IInv, NEW p \in Proc, IfDown(p)
  PROVE  IInv'
<1> USE IrattachAssumption DEF IInv, Goto, ttyv
<1>1. TypeOK'
  BY DEF IfDown, TypeOK, Ended, Untrapped, Trapped, Cleaning, Present
<1>2. TtyInv(p)'
  BY DEF IfDown, TypeOK, TtyInv, Ended, Untrapped, Trapped, Cleaning, Present
<1>3. ASSUME NEW q \in Proc, q # p
      PROVE  TtyInv(q)'
  <2>1. /\ pc'[q] = pc[q] /\ opened'[q] = opened[q]
        /\ termvalid'[q] = termvalid[q] /\ initdisc'[q] = initdisc[q]
        /\ termios'[q] = termios[q] /\ disc'[q] = disc[q]
    BY <1>3 DEF IfDown, TypeOK
  <2> QED
    BY <2>1, Untouched
<1> QED
  BY <1>1, <1>2, <1>3

(* cleanup restores the line discipline. *)
LEMMA RestoreDiscInv ==
  ASSUME IInv, NEW p \in Proc, RestoreDisc(p)
  PROVE  IInv'
<1> USE IrattachAssumption DEF IInv, Goto, ttyv
<1>1. TypeOK'
  BY DEF RestoreDisc, TypeOK, Ended, Untrapped, Trapped, Cleaning, Vanish
<1>2. TtyInv(p)'
  BY DEF RestoreDisc, TypeOK, TtyInv, Ended, Untrapped, Trapped, Cleaning, Vanish
<1>3. ASSUME NEW q \in Proc, q # p
      PROVE  TtyInv(q)'
  <2>1. /\ pc'[q] = pc[q] /\ opened'[q] = opened[q]
        /\ termvalid'[q] = termvalid[q] /\ initdisc'[q] = initdisc[q]
        /\ termios'[q] = termios[q] /\ disc'[q] = disc[q]
    BY <1>3 DEF RestoreDisc, TypeOK
  <2> QED
    BY <2>1, Untouched
<1> QED
  BY <1>1, <1>2, <1>3

(* cleanup restores the termios. *)
LEMMA RestoreTermiosInv ==
  ASSUME IInv, NEW p \in Proc, RestoreTermios(p)
  PROVE  IInv'
<1> USE IrattachAssumption DEF IInv, Goto, ttyv
<1>1. TypeOK'
  BY DEF RestoreTermios, TypeOK, Ended, Untrapped, Trapped, Cleaning
<1>2. TtyInv(p)'
  BY DEF RestoreTermios, TypeOK, TtyInv, Ended, Untrapped, Trapped, Cleaning
<1>3. ASSUME NEW q \in Proc, q # p
      PROVE  TtyInv(q)'
  <2>1. /\ pc'[q] = pc[q] /\ opened'[q] = opened[q]
        /\ termvalid'[q] = termvalid[q] /\ initdisc'[q] = initdisc[q]
        /\ termios'[q] = termios[q] /\ disc'[q] = disc[q]
    BY <1>3 DEF RestoreTermios, TypeOK
  <2> QED
    BY <2>1, Untouched
<1> QED
  BY <1>1, <1>2, <1>3

(* cleanup closes the tty. *)
LEMMA CloseTtyInv ==
  ASSUME IInv, NEW p \in Proc, CloseTty(p)
  PROVE  IInv'
<1> USE IrattachAssumption DEF IInv, Goto, ttyv
<1>1. TypeOK'
  BY DEF CloseTty, TypeOK, Ended, Untrapped, Trapped, Cleaning
<1>2. TtyInv(p)'
  BY DEF CloseTty, TypeOK, TtyInv, Ended, Untrapped, Trapped, Cleaning
<1>3. ASSUME NEW q \in Proc, q # p
      PROVE  TtyInv(q)'
  <2>1. /\ pc'[q] = pc[q] /\ opened'[q] = opened[q]
        /\ termvalid'[q] = termvalid[q] /\ initdisc'[q] = initdisc[q]
        /\ termios'[q] = termios[q] /\ disc'[q] = disc[q]
    BY <1>3 DEF CloseTty, TypeOK
  <2> QED
    BY <2>1, Untouched
<1> QED
  BY <1>1, <1>2, <1>3

(* cleanup removes the pid file and exits. *)
LEMMA UnlinkInv ==
  ASSUME IInv, NEW p \in Proc, Unlink(p)
  PROVE  IInv'
<1> USE IrattachAssumption DEF IInv, Goto, ttyv
<1>1. TypeOK'
  BY DEF Unlink, TypeOK, Ended, Untrapped, Trapped, Cleaning
<1>2. TtyInv(p)'
  BY DEF Unlink, TypeOK, TtyInv, Ended, Untrapped, Trapped, Cleaning
<1>3. ASSUME NEW q \in Proc, q # p
      PROVE  TtyInv(q)'
  <2>1. /\ pc'[q] = pc[q] /\ opened'[q] = opened[q]
        /\ termvalid'[q] = termvalid[q] /\ initdisc'[q] = initdisc[q]
        /\ termios'[q] = termios[q] /\ disc'[q] = disc[q]
    BY <1>3 DEF Unlink, TypeOK
  <2> QED
    BY <2>1, Untouched
<1> QED
  BY <1>1, <1>2, <1>3

(* The second listing: the process and the children it forks all become    *)
(* attached.  A child is a spare, and only a module reaches this step.     *)
LEMMA ListAfterInv ==
  ASSUME IInv, NEW p \in Proc, ListAfter(p)
  PROVE  IInv'
<1> USE IrattachAssumption DEF IInv, ttyv
<1>1. ASSUME NEW x \in {"exited", "attached"},
             pc' = [pc EXCEPT ![p] = x], UNCHANGED device
      PROVE  IInv'
  <2>1. TypeOK'
    BY <1>1 DEF ListAfter, TypeOK, Ended, Untrapped, Trapped, Cleaning
  <2>2. TtyInv(p)'
    BY <1>1 DEF ListAfter, TypeOK, TtyInv, Ended, Trapped, Cleaning
  <2>3. ASSUME NEW q \in Proc, q # p
        PROVE  TtyInv(q)'
    <3>1. pc'[q] = pc[q]
      BY <1>1, <2>3 DEF TypeOK
    <3> QED
      BY <3>1, Untouched DEF ListAfter
  <2> QED
    BY <2>1, <2>2, <2>3
<1>2. ASSUME NEW first \in Present \ before[p],
             NEW child \in [(Present \ before[p]) \ {first}
                              -> {q \in Proc : pc[q] = "none"}],
             device' = [q \in Proc |->
                          IF q = p THEN first
                          ELSE IF q \in {child[i] : i \in DOMAIN child}
                               THEN CHOOSE i \in DOMAIN child : child[i] = q
                               ELSE device[q]],
             pc' = [q \in Proc |->
                      IF q \in {child[i] : i \in DOMAIN child} \cup {p}
                      THEN "attached" ELSE pc[q]]
      PROVE  IInv'
  <2> DEFINE forked == {child[i] : i \in DOMAIN child}
             of(q) == CHOOSE i \in DOMAIN child : child[i] = q
  <2>1. \A q \in forked : q \in Proc /\ pc[q] = "none"
    OBVIOUS
  <2>2. ASSUME NEW q \in forked
        PROVE  of(q) \in Iface
    <3>1. \E i \in DOMAIN child : child[i] = q
      OBVIOUS
    <3>2. of(q) \in DOMAIN child
      BY <3>1, Zenon
    <3> QED
      BY <3>2 DEF Present
  <2>3. first \in Iface
    BY DEF Present
  <2>4. device' \in [Proc -> Iface \cup {NoIf}]
    <3> SUFFICES ASSUME NEW q \in Proc
                 PROVE  device'[q] \in Iface \cup {NoIf}
      BY <1>2
    <3>1. CASE q = p
      BY <1>2, <2>3, <3>1
    <3>2. CASE q # p /\ q \in forked
      <4>1. device'[q] = of(q)
        BY <1>2, <3>2
      <4> HIDE DEF of, forked
      <4>2. of(q) \in Iface
        BY <2>2, <3>2
      <4> QED
        BY <4>1, <4>2
    <3>3. CASE q # p /\ q \notin forked
      BY <1>2, <3>3 DEF TypeOK
    <3> QED
      BY <3>1, <3>2, <3>3
  <2>5. pc' \in [Proc -> Ended \cup Untrapped \cup Trapped]
    BY <1>2 DEF TypeOK, Untrapped
  <2>6. TypeOK'
    BY <2>4, <2>5 DEF ListAfter, TypeOK
  <2>7. ASSUME NEW q \in Proc
        PROVE  TtyInv(q)'
    <3>1. CASE q = p
      <4>1. pc'[q] = "attached"
        BY <1>2, <3>1
      <4> QED
        BY <4>1, <3>1 DEF ListAfter, TypeOK, TtyInv, Ended, Trapped, Cleaning
    <3>2. CASE q \in forked
      <4>1. pc'[q] = "attached" /\ pc[q] = "none"
        BY <1>2, <2>1, <3>2
      <4> QED
        BY <4>1 DEF ListAfter, TypeOK, TtyInv, Ended, Trapped, Cleaning
    <3>3. CASE q # p /\ q \notin forked
      <4>1. pc'[q] = pc[q]
        BY <1>2, <3>3
      <4> QED
        BY <4>1, Untouched DEF ListAfter
    <3> QED
      BY <3>1, <3>2, <3>3
  <2> QED
    BY <2>6, <2>7
<1> QED
  BY <1>1, <1>2, Zenon DEF ListAfter
-----------------------------------------------------------------------------
(***************************************************************************)
(* IInv is an invariant: what a process changed on its tty was saved       *)
(* before and is still open to be undone.                                  *)
(***************************************************************************)
THEOREM TtyInvariant == Spec => []IInv
<1>1. IInv /\ [Next]_vars => IInv'
  <2> SUFFICES ASSUME IInv, [Next]_vars
               PROVE  IInv'
    OBVIOUS
  <2>1. CASE UNCHANGED vars
    <3>1. TypeOK'
      BY <2>1 DEF IInv, vars, ttyv, TypeOK
    <3>2. \A q \in Proc : TtyInv(q)'
      BY <2>1, Untouched DEF IInv, vars, ttyv
    <3> QED
      BY <3>1, <3>2 DEF IInv
  <2>2. ASSUME NEW p \in Proc, Start(p) \/ Setup(p) \/ Signal(p) \/ Cleanup(p)
        PROVE  IInv'
    <3>1. CASE Start(p)
      BY <3>1, OpenTtyInv, LoadNamedInv, ListBeforeInv, LoadModuleInv,
         ListAfterInv, DaemonizeInv, TrapSignalsInv DEF Start
    <3>2. CASE Setup(p)
      BY <3>2, SaveTermiosInv, SetTermiosInv, GetDiscInv, SetDiscInv,
         GetNameInv, AttachDongleInv, SetParamsInv, IfUpInv DEF Setup
    <3>3. CASE Signal(p)
      BY <3>3, SignalInv
    <3>4. CASE Cleanup(p)
      BY <3>4, IfDownInv, RestoreDiscInv, RestoreTermiosInv, CloseTtyInv,
         UnlinkInv DEF Cleanup
    <3> QED
      BY <2>2, <3>1, <3>2, <3>3, <3>4
  <2> QED
    BY <2>1, <2>2 DEF Next
<1> QED
  BY InitInv, <1>1, PTL DEF Spec

(***************************************************************************)
(* However a process ends (a failure at any step of main or start_tty, a   *)
(* signal at any step, further signals inside cleanup), its tty is closed  *)
(* with the line discipline and the termios it had before.                 *)
(***************************************************************************)
THEOREM TtyAlwaysRestored == Spec => []TtyRestored
<1>1. IInv => TtyRestored
  BY DEF IInv, TypeOK, TtyInv, TtyRestored, Ended, Trapped, Cleaning
<1> QED
  BY TtyInvariant, <1>1, PTL
-----------------------------------------------------------------------------
(***************************************************************************)
(* Why no interface is left up.  Before a process has a name for device it *)
(* cannot have brought an interface up; and an interface that is up though *)
(* a process past ifdown managed it is up because of another process that  *)
(* still has its own ifdown to come.                                       *)
(***************************************************************************)
Unassigned == {"none", "start", "listed", "loaded"}
Undone == {"setdisc", "settermios", "close", "unlink", "exited"}
Owes == {"running", "ifdown"}

StopInv ==
  \A p \in Proc :
    /\ pc[p] \in Unassigned => device[p] = NoIf
    /\ /\ pc[p] \in Undone /\ device[p] \in Iface
       /\ ifstate[device[p]] = "up"
       => \E q \in Proc : device[q] = device[p] /\ pc[q] \in Owes

(* A step of p that brings nothing up and assigns no interface: only p     *)
(* moves, it does not skip its ifdown, and does not go back to the start.  *)
LEMMA StopQuiet ==
  ASSUME StopInv, NEW p \in Proc, device' = device,
         \A i \in Iface : ifstate'[i] = "up" => ifstate[i] = "up",
         \A q \in Proc : q # p => pc'[q] = pc[q],
         pc'[p] \in Unassigned => pc[p] \in Unassigned,
         pc[p] \in Owes => pc'[p] \in Owes,
         pc'[p] \in Undone => pc[p] \in Undone \cup Unassigned
  PROVE  StopInv'
<1> SUFFICES ASSUME NEW q \in Proc
             PROVE  /\ pc'[q] \in Unassigned => device'[q] = NoIf
                    /\ pc'[q] \in Undone /\ device'[q] \in Iface
                         /\ ifstate'[device'[q]] = "up"
                       => \E r \in Proc : device'[r] = device'[q] /\ pc'[r] \in Owes
  BY Zenon DEF StopInv
<1>1. pc'[q] \in Unassigned => device'[q] = NoIf
  BY DEF StopInv
<1>2. ASSUME pc'[q] \in Undone, device'[q] \in Iface, ifstate'[device'[q]] = "up"
      PROVE  \E r \in Proc : device'[r] = device'[q] /\ pc'[r] \in Owes
  <2>1. pc[q] \in Undone
    BY <1>2, IrattachAssumption DEF StopInv
  <2>2. device[q] \in Iface /\ ifstate[device[q]] = "up"
    BY <1>2
  <2>3. PICK r \in Proc : device[r] = device[q] /\ pc[r] \in Owes
    BY <2>1, <2>2 DEF StopInv
  <2>4. pc'[r] \in Owes
    BY <2>3
  <2> QED
    BY <2>3, <2>4
<1> QED
  BY <1>1, <1>2

(* A step that assigns interfaces: every process that changes at all had   *)
(* not yet brought one up and is not past ifdown afterwards.               *)
LEMMA StopAssign ==
  ASSUME StopInv,
         \A i \in Iface : ifstate'[i] = "up" => ifstate[i] = "up",
         \A q \in Proc :
           \/ pc'[q] = pc[q] /\ device'[q] = device[q]
           \/ pc[q] \notin Owes /\ pc'[q] \notin Undone \cup Unassigned
  PROVE  StopInv'
<1> SUFFICES ASSUME NEW q \in Proc
             PROVE  /\ pc'[q] \in Unassigned => device'[q] = NoIf
                    /\ pc'[q] \in Undone /\ device'[q] \in Iface
                         /\ ifstate'[device'[q]] = "up"
                       => \E r \in Proc : device'[r] = device'[q] /\ pc'[r] \in Owes
  BY Zenon DEF StopInv
<1>1. pc'[q] \in Unassigned => device'[q] = NoIf
  BY DEF StopInv
<1>2. ASSUME pc'[q] \in Undone, device'[q] \in Iface, ifstate'[device'[q]] = "up"
      PROVE  \E r \in Proc : device'[r] = device'[q] /\ pc'[r] \in Owes
  <2>1. pc[q] \in Undone /\ device'[q] = device[q]
    BY <1>2
  <2>2. device[q] \in Iface /\ ifstate[device[q]] = "up"
    BY <1>2, <2>1
  <2>3. PICK r \in Proc : device[r] = device[q] /\ pc[r] \in Owes
    BY <2>1, <2>2 DEF StopInv
  <2>4. pc'[r] = pc[r] /\ device'[r] = device[r]
    BY <2>3
  <2> QED
    BY <2>1, <2>3, <2>4
<1> QED
  BY <1>1, <1>2

(* Loading drivers and restoring disciplines brings nothing up. *)
LEMMA NoneComesUp ==
  ASSUME TypeOK, NEW S, Appear(S) \/ Vanish(S) \/ UNCHANGED ifstate
  PROVE  \A i \in Iface : ifstate'[i] = "up" => ifstate[i] = "up"
BY DEF TypeOK, Appear, Vanish

(* main up to the signal handlers: interfaces are assigned, none comes up. *)
LEMMA StartStop ==
  ASSUME IInv, StopInv, NEW p \in Proc, Start(p)
  PROVE  StopInv'
<1>0. /\ TypeOK /\ pc \in [Proc -> Ended \cup Untrapped \cup Trapped]
      /\ device \in [Proc -> Iface \cup {NoIf}]
  BY DEF IInv, TypeOK
<1>1. CASE OpenTty(p) \/ ListBefore(p) \/ Daemonize(p) \/ TrapSignals(p)
  <2>1. /\ device' = device /\ ifstate' = ifstate
        /\ \A q \in Proc : q # p => pc'[q] = pc[q]
        /\ pc'[p] \in Unassigned => pc[p] \in Unassigned
        /\ pc[p] \in Owes => pc'[p] \in Owes
        /\ pc'[p] \in Undone => pc[p] \in Undone \cup Unassigned
    BY <1>0, <1>1 DEF OpenTty, ListBefore, Daemonize, TrapSignals, Goto,
       Unassigned, Owes, Undone
  <2> QED
    BY <2>1, StopQuiet
<1>2. CASE LoadModule(p)
  <2>1. /\ device' = device
        /\ \A q \in Proc : q # p => pc'[q] = pc[q]
        /\ pc'[p] \in Unassigned => pc[p] \in Unassigned
        /\ pc[p] \in Owes => pc'[p] \in Owes
        /\ pc'[p] \in Undone => pc[p] \in Undone \cup Unassigned
    BY <1>0, <1>2 DEF LoadModule, Goto, Unassigned, Owes, Undone
  <2>2. \A i \in Iface : ifstate'[i] = "up" => ifstate[i] = "up"
    BY <1>0, <1>2, NoneComesUp DEF LoadModule
  <2> QED
    BY <2>1, <2>2, StopQuiet
<1>3. CASE LoadNamed(p)
  <2>1. pc[p] = "start" /\ pc' = [pc EXCEPT ![p] = "attached"]
    BY <1>3 DEF LoadNamed, Goto
  <2>2. PICK i \in Ifs[p] : device' = [device EXCEPT ![p] = i]
    BY <1>3 DEF LoadNamed
  <2>3. \A q \in Proc :
          \/ pc'[q] = pc[q] /\ device'[q] = device[q]
          \/ pc[q] \notin Owes /\ pc'[q] \notin Undone \cup Unassigned
    BY <1>0, <2>1, <2>2 DEF Owes, Undone, Unassigned
  <2>4. \A j \in Iface : ifstate'[j] = "up" => ifstate[j] = "up"
    BY <1>0, <1>3, NoneComesUp DEF LoadNamed
  <2> QED
    BY <2>3, <2>4, StopAssign
<1>4. CASE ListAfter(p)
  <2>1. ifstate' = ifstate /\ pc[p] = "loaded"
    BY <1>4 DEF ListAfter
  <2>2. CASE pc' = [pc EXCEPT ![p] = "exited"] /\ UNCHANGED device
    <3>1. /\ \A q \in Proc : q # p => pc'[q] = pc[q]
          /\ pc'[p] \in Unassigned => pc[p] \in Unassigned
          /\ pc[p] \in Owes => pc'[p] \in Owes
          /\ pc'[p] \in Undone => pc[p] \in Undone \cup Unassigned
      BY <1>0, <2>1, <2>2 DEF Unassigned, Owes, Undone
    <3> QED
      BY <2>1, <2>2, <3>1, StopQuiet
  <2>3. CASE pc' = [pc EXCEPT ![p] = "attached"] /\ UNCHANGED device
    <3>1. /\ \A q \in Proc : q # p => pc'[q] = pc[q]
          /\ pc'[p] \in Unassigned => pc[p] \in Unassigned
          /\ pc[p] \in Owes => pc'[p] \in Owes
          /\ pc'[p] \in Undone => pc[p] \in Undone \cup Unassigned
      BY <1>0, <2>1, <2>3 DEF Unassigned, Owes, Undone
    <3> QED
      BY <2>1, <2>3, <3>1, StopQuiet
  <2>4. ASSUME NEW first \in Present \ before[p],
               NEW child \in [(Present \ before[p]) \ {first}
                                -> {q \in Proc : pc[q] = "none"}],
               device' = [q \in Proc |->
                            IF q = p THEN first
                            ELSE IF q \in {child[i] : i \in DOMAIN child}
                                 THEN CHOOSE i \in DOMAIN child : child[i] = q
                                 ELSE device[q]],
               pc' = [q \in Proc |->
                        IF q \in {child[i] : i \in DOMAIN child} \cup {p}
                        THEN "attached" ELSE pc[q]]
        PROVE  StopInv'
    <3> DEFINE forked == {child[i] : i \in DOMAIN child}
    <3>1. \A q \in forked : pc[q] = "none"
      OBVIOUS
    <3>2. \A q \in Proc : q \notin forked \cup {p} =>
                            pc'[q] = pc[q] /\ device'[q] = device[q]
      BY <2>4
    <3>3. \A q \in Proc : q \in forked \cup {p} => pc'[q] = "attached"
      BY <2>4
    <3> HIDE DEF forked
    <3>4. \A q \in Proc :
            \/ pc'[q] = pc[q] /\ device'[q] = device[q]
            \/ pc[q] \notin Owes /\ pc'[q] \notin Undone \cup Unassigned
      BY <2>1, <3>1, <3>2, <3>3 DEF Owes, Undone, Unassigned
    <3> QED
      BY <2>1, <3>4, StopAssign
  <2> QED
    BY <1>4, <2>2, <2>3, <2>4, Zenon DEF ListAfter
<1> QED
  BY <1>1, <1>2, <1>3, <1>4 DEF Start

(* start_tty, the dongle and ifup: an interface that comes up belongs to a *)
(* process that still has its ifdown to come.                              *)
LEMMA SetupStop ==
  ASSUME IInv, StopInv, NEW p \in Proc, Setup(p)
  PROVE  StopInv'
<1>0. /\ TypeOK /\ pc \in [Proc -> Ended \cup Untrapped \cup Trapped]
      /\ device \in [Proc -> Iface \cup {NoIf}]
      /\ ifstate \in [Iface -> {"absent", "down", "up"}]
  BY DEF IInv, TypeOK
<1>1. CASE SaveTermios(p) \/ SetTermios(p) \/ GetDisc(p) \/ AttachDongle(p)
           \/ SetParams(p)
  <2>1. /\ device' = device /\ ifstate' = ifstate
        /\ \A q \in Proc : q # p => pc'[q] = pc[q]
        /\ pc'[p] \in Unassigned => pc[p] \in Unassigned
        /\ pc[p] \in Owes => pc'[p] \in Owes
        /\ pc'[p] \in Undone => pc[p] \in Undone \cup Unassigned
    BY <1>0, <1>1 DEF SaveTermios, SetTermios, GetDisc, AttachDongle, SetParams,
       Goto, Unassigned, Owes, Undone
  <2> QED
    BY <2>1, StopQuiet
<1>2. CASE SetDisc(p)
  <2>1. /\ device' = device
        /\ \A q \in Proc : q # p => pc'[q] = pc[q]
        /\ pc'[p] \in Unassigned => pc[p] \in Unassigned
        /\ pc[p] \in Owes => pc'[p] \in Owes
        /\ pc'[p] \in Undone => pc[p] \in Undone \cup Unassigned
    BY <1>0, <1>2 DEF SetDisc, Goto, Unassigned, Owes, Undone
  <2>2. \A i \in Iface : ifstate'[i] = "up" => ifstate[i] = "up"
    BY <1>0, <1>2, NoneComesUp DEF SetDisc
  <2> QED
    BY <2>1, <2>2, StopQuiet
<1>3. CASE GetName(p)
  <2>1. /\ pc[p] = "irda"
        /\ pc' = [pc EXCEPT ![p] = "named"] \/ pc' = [pc EXCEPT ![p] = "ifdown"]
        /\ \A q \in Proc : q # p => device'[q] = device[q]
        /\ ifstate' = ifstate
    BY <1>0, <1>3 DEF GetName, Goto
  <2>2. \A q \in Proc :
          \/ pc'[q] = pc[q] /\ device'[q] = device[q]
          \/ pc[q] \notin Owes /\ pc'[q] \notin Undone \cup Unassigned
    BY <1>0, <2>1 DEF Owes, Undone, Unassigned
  <2> QED
    BY <2>1, <2>2, StopAssign
<1>4. CASE IfUp(p)
  <2>1. CASE pc[p] = "ready" /\ pc' = [pc EXCEPT ![p] = "ifdown"] /\ ifstate' = ifstate
    <3>1. /\ device' = device
          /\ \A q \in Proc : q # p => pc'[q] = pc[q]
          /\ pc'[p] \in Unassigned => pc[p] \in Unassigned
          /\ pc[p] \in Owes => pc'[p] \in Owes
          /\ pc'[p] \in Undone => pc[p] \in Undone \cup Unassigned
      BY <1>0, <1>4, <2>1 DEF IfUp, Unassigned, Owes, Undone
    <3> QED
      BY <2>1, <3>1, StopQuiet
  <2>2. CASE /\ pc[p] = "ready" /\ pc' = [pc EXCEPT ![p] = "running"]
             /\ device[p] \in Present
             /\ ifstate' = [ifstate EXCEPT ![device[p]] = "up"]
    <3>1. /\ device' = device
          /\ \A q \in Proc : q # p => pc'[q] = pc[q]
          /\ pc'[p] = "running"
          /\ \A i \in Iface : i # device[p] => ifstate'[i] = ifstate[i]
      BY <1>0, <1>4, <2>2 DEF IfUp
    <3> SUFFICES ASSUME NEW q \in Proc
                 PROVE  /\ pc'[q] \in Unassigned => device'[q] = NoIf
                        /\ pc'[q] \in Undone /\ device'[q] \in Iface
                             /\ ifstate'[device'[q]] = "up"
                           => \E r \in Proc : device'[r] = device'[q] /\ pc'[r] \in Owes
      BY Zenon DEF StopInv
    <3>2. pc'[q] \in Unassigned => device'[q] = NoIf
      BY <3>1 DEF StopInv, Unassigned
    <3>3. ASSUME pc'[q] \in Undone, device'[q] \in Iface, ifstate'[device'[q]] = "up"
          PROVE  \E r \in Proc : device'[r] = device'[q] /\ pc'[r] \in Owes
      <4>1. CASE device[q] = device[p]
        BY <3>1, <4>1 DEF Owes
      <4>2. CASE device[q] # device[p]
        <5>1. q # p /\ pc[q] \in Undone /\ device[q] \in Iface
              /\ ifstate[device[q]] = "up"
          BY <3>1, <3>3, <4>2 DEF Undone
        <5>2. PICK r \in Proc : device[r] = device[q] /\ pc[r] \in Owes
          BY <5>1 DEF StopInv
        <5>3. pc'[r] = pc[r]
          BY <2>2, <3>1, <5>2 DEF Owes
        <5> QED
          BY <3>1, <5>2, <5>3
      <4> QED
        BY <4>1, <4>2
    <3> QED
      BY <3>2, <3>3
  <2> QED
    BY <1>4, <2>1, <2>2 DEF IfUp, Goto
<1> QED
  BY <1>1, <1>2, <1>3, <1>4 DEF Setup

(* A signal kills a process that has brought nothing up yet, or sends it   *)
(* to its ifdown.                                                          *)
LEMMA SignalStop ==
  ASSUME IInv, StopInv, NEW p \in Proc, Signal(p)
  PROVE  StopInv'
<1>0. pc \in [Proc -> Ended \cup Untrapped \cup Trapped]
  BY DEF IInv, TypeOK
<1>1. /\ device' = device /\ ifstate' = ifstate
      /\ \A q \in Proc : q # p => pc'[q] = pc[q]
      /\ pc'[p] \in Unassigned => pc[p] \in Unassigned
      /\ pc[p] \in Owes => pc'[p] \in Owes
      /\ pc'[p] \in Undone => pc[p] \in Undone \cup Unassigned
  BY <1>0 DEF Signal, Untrapped, Trapped, Cleaning, Unassigned, Owes, Undone
<1> QED
  BY <1>1, StopQuiet

(* cleanup: past ifdown the interface is down, unless another process      *)
(* brings it up again.                                                     *)
LEMMA CleanupStop ==
  ASSUME IInv, StopInv, NEW p \in Proc, Cleanup(p)
  PROVE  StopInv'
<1>0. /\ TypeOK /\ pc \in [Proc -> Ended \cup Untrapped \cup Trapped]
      /\ ifstate \in [Iface -> {"absent", "down", "up"}]
  BY DEF IInv, TypeOK
<1>1. CASE IfDown(p)
  <2>1. /\ device' = device
        /\ \A q \in Proc : q # p => pc'[q] = pc[q]
        /\ pc[p] = "ifdown" /\ pc'[p] \in Undone
        /\ \A i \in Iface : i # device[p] => ifstate'[i] = ifstate[i]
        /\ device[p] \in Iface => ifstate'[device[p]] # "up"
    BY <1>0, <1>1 DEF IfDown, Goto, Undone, Present
  <2> SUFFICES ASSUME NEW q \in Proc
               PROVE  /\ pc'[q] \in Unassigned => device'[q] = NoIf
                      /\ pc'[q] \in Undone /\ device'[q] \in Iface
                           /\ ifstate'[device'[q]] = "up"
                         => \E r \in Proc : device'[r] = device'[q] /\ pc'[r] \in Owes
    BY Zenon DEF StopInv
  <2>2. pc'[q] \in Unassigned => device'[q] = NoIf
    BY <2>1 DEF StopInv, Unassigned, Undone
  <2>3. ASSUME pc'[q] \in Undone, device'[q] \in Iface, ifstate'[device'[q]] = "up"
        PROVE  \E r \in Proc : device'[r] = device'[q] /\ pc'[r] \in Owes
    <3>1. device[q] # device[p] /\ q # p
      BY <2>1, <2>3
    <3>2. pc[q] \in Undone /\ device[q] \in Iface /\ ifstate[device[q]] = "up"
      BY <2>1, <2>3, <3>1
    <3>3. PICK r \in Proc : device[r] = device[q] /\ pc[r] \in Owes
      BY <3>2 DEF StopInv
    <3>4. pc'[r] = pc[r]
      BY <2>1, <3>1, <3>3
    <3> QED
      BY <2>1, <3>3, <3>4
  <2> QED
    BY <2>2, <2>3
<1>2. CASE RestoreDisc(p)
  <2>1. /\ device' = device
        /\ \A q \in Proc : q # p => pc'[q] = pc[q]
        /\ pc'[p] \in Unassigned => pc[p] \in Unassigned
        /\ pc[p] \in Owes => pc'[p] \in Owes
        /\ pc'[p] \in Undone => pc[p] \in Undone \cup Unassigned
    BY <1>0, <1>2 DEF RestoreDisc, Goto, Unassigned, Owes, Undone
  <2>2. \A i \in Iface : ifstate'[i] = "up" => ifstate[i] = "up"
    BY <1>0, <1>2, NoneComesUp DEF RestoreDisc
  <2> QED
    BY <2>1, <2>2, StopQuiet
<1>3. CASE RestoreTermios(p) \/ CloseTty(p) \/ Unlink(p)
  <2>1. /\ device' = device /\ ifstate' = ifstate
        /\ \A q \in Proc : q # p => pc'[q] = pc[q]
        /\ pc'[p] \in Unassigned => pc[p] \in Unassigned
        /\ pc[p] \in Owes => pc'[p] \in Owes
        /\ pc'[p] \in Undone => pc[p] \in Undone \cup Unassigned
    BY <1>0, <1>3 DEF RestoreTermios, CloseTty, Unlink, ttyv, Goto,
       Unassigned, Owes, Undone
  <2> QED
    BY <2>1, StopQuiet
<1> QED
  BY <1>1, <1>2, <1>3 DEF Cleanup

(***************************************************************************)
(* For any processes, interfaces and signals: an interface is down or gone *)
(* once a process that managed it has run cleanup and every process that   *)
(* manages it has exited, also where irattach took over an interface that  *)
(* was up before, or two processes took the same one.                      *)
(***************************************************************************)
THEOREM InterfaceAlwaysStopped == Spec => []InterfaceStopped
<1>1. Init => StopInv
  BY DEF Init, StopInv, Unassigned, Undone
<1>2. IInv /\ StopInv /\ [Next]_vars => StopInv'
  <2> SUFFICES ASSUME IInv, StopInv, [Next]_vars
               PROVE  StopInv'
    OBVIOUS
  <2>1. CASE UNCHANGED vars
    BY <2>1 DEF vars, StopInv
  <2>2. ASSUME NEW p \in Proc, Start(p) \/ Setup(p) \/ Signal(p) \/ Cleanup(p)
        PROVE  StopInv'
    BY <2>2, StartStop, SetupStop, SignalStop, CleanupStop
  <2> QED
    BY <2>1, <2>2 DEF Next
<1>3. StopInv => InterfaceStopped
  BY DEF StopInv, InterfaceStopped, Undone, Owes
<1> QED
  BY <1>1, <1>2, <1>3, TtyInvariant, PTL DEF Spec
=============================================================================
