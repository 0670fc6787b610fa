---------------------------- MODULE SuperIOProofs ----------------------------
(***************************************************************************)
(* The programs that touch a SuperIO chip keep their promises on every     *)
(* machine with ExitAssumption and IdAssumption, for all command lines,    *)
(* whatever was killed before and half way:                                *)
(*   SuperInv   the chip is locked, or its lock byte is still to come;     *)
(*   RegsInv    the registers are those the machine was built with, but    *)
(*              for the few that programs write;                           *)
(*   SetupInv   an initialiser is at an entry of its table, the entries    *)
(*              before it are in the registers of a chip that is open;     *)
(*   ReportInv  once findchip has printed, no try ahead fits the chip.     *)
(***************************************************************************)
EXTENDS SuperIOTools, SequenceTheorems, FiniteSetTheorems, WellFoundedInduction, TLAPS

(* The chip is locked, or byte at port locks it. *)
CanLock(port, byte) == open => Locked(port, byte)

FindPc == {"ioperm", "knock", "read", "relock"}
ToshPc == {"skipped", "probe1800", "unprobe1800", "enter1800", "regs", "leave", "decode"}

(* The chip is that of a machine; without a key it is never locked. *)
ChipInv ==
  /\ open \in BOOLEAN
  /\ \E m \in Machines : chip.base = m.base /\ chip.key = m.key /\ chip.exit = m.exit
  /\ chip.key = <<>> => open

(* Each program is in its own steps, and in its tables. *)
ProgInv ==
  /\ prog = [name |-> prog.name, args |-> prog.args, pc |-> prog.pc, k |-> prog.k,
             port |-> prog.port, wasOpen |-> prog.wasOpen]
  /\ prog.wasOpen \in BOOLEAN /\ prog.k \in Nat
  /\ prog.pc \in FindPc => prog.name = "findchip"
  /\ prog.name = "findchip" => prog.pc \in FindPc \cup {"end"}
  /\ prog.name = "tosh1800" => prog.pc \in ToshPc \cup {"end"}
  /\ prog.pc \in {"knock", "read", "relock"} => prog.k \in 1 .. Len(Tries)
  /\ prog.name = "tosh1800" /\ prog.pc = "regs" => prog.k \in 1 .. 8

(* Between a key and its exit byte the chip may be open, but the program   *)
(* has the byte that locks it still to write; elsewhere it is locked.      *)
LockInv ==
  ~prog.wasOpen =>
    /\ prog.name = "findchip" =>
         /\ prog.pc \in {"ioperm", "knock"} => ~open
         /\ prog.pc \in {"read", "relock"} =>
              CanLock(Tries[prog.k].port, Tries[prog.k].end)
    /\ prog.name = "tosh1800" =>
         /\ prog.pc \in {"skipped", "probe1800", "enter1800", "decode"} => ~open
         /\ prog.pc \in {"unprobe1800", "regs", "leave"} => CanLock(prog.port, \hAA)
    /\ prog.name \in {"findchip", "tosh1800"} /\ prog.pc = "end"
         /\ done \in {"ok", "failed"} => ~open

SuperInv == ChipInv /\ ProgInv /\ LockInv
-----------------------------------------------------------------------------
(* findchip has finitely many tries. *)
LEMMA TriesLen == Len(Tries) \in Nat
<1> DEFINE A == [i \in 1 .. 12 |->
                   LET c == SmcChips[(i + 1) \div 2]
                   IN [fam |-> "SMC", chip |-> c, key |-> c.key, end |-> \hAA,
                       port |-> IF i % 2 = 1 THEN \h3F0 ELSE \h370]]
           B == [i \in 1 .. 6 |->
                   LET c == NscChips[(i + 2) \div 3]
                   IN [fam |-> "NSC", chip |-> c, key |-> <<>>, end |-> -1,
                       port |-> c.ports[((i - 1) % 3) + 1]]]
           S == {A[i] : i \in 1 .. 12} \cup {B[i] : i \in 1 .. 6}
                  \cup {Efers[i] : i \in 1 .. 6}
<1>1. DOMAIN A = 1 .. 12 /\ DOMAIN B = 1 .. 6 /\ Tries = A \o B \o Efers
  BY Zenon DEF Tries
<1>2. Efers \in Seq({Efers[i] : i \in 1 .. 6})
  BY DEF Efers
<1> HIDE DEF A, B
<1> QED
  BY <1>1, <1>2

(* The least of a set of positions is one of them. *)
LEMMA MinInSet ==
  ASSUME NEW S \in SUBSET Nat, S # {}
  PROVE  Min(S) \in S
<1> DEFINE Less == {ss \in Nat \X Nat : ss[1] < ss[2]}
<1>1. IsWellFoundedOn(Less, Nat)
  BY NatLessThanWellFounded, Zenon DEF OpToRel
<1> HIDE DEF Less
<1>2. PICK x \in S : \A y \in S : ~(<<y, x>> \in Less)
  BY <1>1, WFMin
<1>3. ASSUME NEW y \in S
      PROVE  x =< y
  <2>1. x \in Nat /\ y \in Nat
    BY <1>2, <1>3
  <2>2. y < x => <<y, x>> \in Less
    BY <2>1 DEF Less
  <2>3. ~(y < x)
    BY <1>2, <1>3, <2>2
  <2> QED
    BY <2>1, <2>3
<1>4. \E z \in S : \A y \in S : z =< y
  BY <1>2, <1>3
<1> QED
  BY <1>4, Zenon DEF Min
-----------------------------------------------------------------------------
(* The step takes the program to pc, k and port; all else of it stays. *)
Moves(pc, k, port) ==
  prog' = [name |-> prog.name, args |-> prog.args, pc |-> pc, k |-> k, port |-> port,
           wasOpen |-> prog.wasOpen]

(* Going on and ending change the place in the program only. *)
LEMMA MovesFacts ==
  ASSUME ProgInv
  PROVE  /\ \A pc, k : GoesTo(pc, k) => Moves(pc, k, prog.port) /\ done' = done
         /\ \A how : Ends(how) => Moves("end", prog.k, prog.port) /\ done' = how
<1>1. PICK n \in {prog.name}, a \in {prog.args}, c \in {prog.pc}, i \in {prog.k},
           t \in {prog.port}, w \in {prog.wasOpen} :
        prog = [name |-> n, args |-> a, pc |-> c, k |-> i, port |-> t, wasOpen |-> w]
  BY Zenon DEF ProgInv
<1> QED
  BY <1>1 DEF GoesTo, Ends, Moves

(* So does going on with another port. *)
LEMMA ExceptMoves ==
  ASSUME ProgInv, NEW pc, NEW k, NEW port,
         prog' = [prog EXCEPT !.pc = pc, !.k = k, !.port = port]
  PROVE  Moves(pc, k, port)
<1>1. PICK n \in {prog.name}, a \in {prog.args}, c \in {prog.pc}, i \in {prog.k},
           t \in {prog.port}, w \in {prog.wasOpen} :
        prog = [name |-> n, args |-> a, pc |-> c, k |-> i, port |-> t, wasOpen |-> w]
  BY Zenon DEF ProgInv
<1> QED
  BY <1>1 DEF Moves

(* The same with the port and the place named in the other order. *)
LEMMA ExceptMovesPort ==
  ASSUME ProgInv, NEW pc, NEW k, NEW port,
         prog' = [prog EXCEPT !.pc = pc, !.port = port, !.k = k]
  PROVE  Moves(pc, k, port)
<1>1. PICK n \in {prog.name}, a \in {prog.args}, c \in {prog.pc}, i \in {prog.k},
           t \in {prog.port}, w \in {prog.wasOpen} :
        prog = [name |-> n, args |-> a, pc |-> c, k |-> i, port |-> t, wasOpen |-> w]
  BY Zenon DEF ProgInv
<1> QED
  BY <1>1 DEF Moves

(* The bytes that lock a chip which has just been opened; a chip without a *)
(* key stays open.                                                         *)
LEMMA KeyFacts ==
  ASSUME ChipInv
  PROVE  /\ \A k \in 1 .. Len(Tries) :
              ~open /\ Unlocked(Tries[k].port, Tries[k].key)
                => Locked(Tries[k].port, Tries[k].end)
         /\ \A port : ~open /\ Unlocked(port, <<\h55>>) => Locked(port, \hAA)
         /\ \A port : chip.key = <<>> => ~Locked(port, \hAA)
         /\ \A k \in 1 .. Len(Tries) : \A port : chip.key = <<>> => ~Locked(port, Tries[k].end)
         /\ \A port, bytes : chip.key = <<>> => Unlocked(port, bytes)
<1>1. PICK m \in Machines : chip.base = m.base /\ chip.key = m.key /\ chip.exit = m.exit
  BY DEF ChipInv
<1>2. ASSUME NEW k \in 1 .. Len(Tries)
      PROVE  IF chip.key = <<>> THEN Tries[k].end # chip.exit
             ELSE Tries[k].port = chip.base /\ Opens(Tries[k].key, chip.key)
                    => Tries[k].end = chip.exit
  BY <1>1, <1>2, ExitAssumption
<1>3. IF chip.key = <<>> THEN chip.exit # \hAA
      ELSE Opens(<<\h55>>, chip.key) => chip.exit = \hAA
  BY <1>1, ExitAssumption
<1>4. /\ chip.key = <<>> => open
      /\ \A port, bytes : ~open /\ Unlocked(port, bytes)
                            => port = chip.base /\ Opens(bytes, chip.key)
      /\ \A port, bytes : open => Unlocked(port, bytes)
  BY DEF ChipInv, Unlocked, Opens
<1>5. \A port, byte : Locked(port, byte) <=> port = chip.base /\ byte = chip.exit
  BY DEF Locked
<1>6. ASSUME NEW k \in 1 .. Len(Tries), ~open, Unlocked(Tries[k].port, Tries[k].key)
      PROVE  Locked(Tries[k].port, Tries[k].end)
  BY <1>2, <1>4, <1>5, <1>6
<1>7. \A port : ~open /\ Unlocked(port, <<\h55>>) => Locked(port, \hAA)
  BY <1>3, <1>4, <1>5
<1>8. \A port : chip.key = <<>> => ~Locked(port, \hAA)
  BY <1>3, <1>5
<1>9. ASSUME NEW port, NEW k \in 1 .. Len(Tries), chip.key = <<>>
      PROVE  ~Locked(port, Tries[k].end)
  BY <1>2, <1>5, <1>9
<1>10. \A port, bytes : chip.key = <<>> => Unlocked(port, bytes)
  BY <1>4
<1> QED
  BY <1>6, <1>7, <1>8, <1>9, <1>10

(* A step of smcinit or tosh2450-smcinit promises nothing about the lock. *)
LEMMA OtherProgram ==
  ASSUME SuperInv, prog.name \notin {"findchip", "tosh1800"}, chip' = chip,
         open' \in BOOLEAN, chip.key = <<>> => open',
         NEW pc, NEW k \in Nat, NEW port, Moves(pc, k, port), pc \notin FindPc
  PROVE  SuperInv'
<1>1. ChipInv'
  BY DEF SuperInv, ChipInv
<1>2. /\ prog'.name = prog.name /\ prog'.pc = pc /\ prog'.k = k
      /\ prog'.wasOpen = prog.wasOpen
      /\ prog' = [name |-> prog'.name, args |-> prog'.args, pc |-> prog'.pc, k |-> prog'.k,
                  port |-> prog'.port, wasOpen |-> prog'.wasOpen]
  BY DEF Moves
<1>3. ProgInv'
  BY <1>2 DEF SuperInv, ProgInv, FindPc
<1>4. LockInv'
  BY <1>2 DEF LockInv
<1> QED
  BY <1>1, <1>3, <1>4 DEF SuperInv

(* A step of tosh1800-smcinit. *)
LEMMA ToshProgram ==
  ASSUME SuperInv, prog.name = "tosh1800", chip' = chip,
         open' \in BOOLEAN, chip.key = <<>> => open',
         NEW pc \in ToshPc \cup {"end"}, NEW k \in Nat, NEW port, Moves(pc, k, port),
         pc = "regs" => k \in 1 .. 8,
         ~prog.wasOpen =>
           /\ pc \in {"skipped", "probe1800", "enter1800", "decode"} => ~open'
           /\ pc \in {"unprobe1800", "regs", "leave"} => CanLock(port, \hAA)'
           /\ pc = "end" => ~open'
  PROVE  SuperInv'
<1>1. ChipInv'
  BY DEF SuperInv, ChipInv
<1>2. /\ prog'.name = "tosh1800" /\ prog'.pc = pc /\ prog'.k = k /\ prog'.port = port
      /\ prog'.wasOpen = prog.wasOpen
      /\ prog' = [name |-> prog'.name, args |-> prog'.args, pc |-> prog'.pc, k |-> prog'.k,
                  port |-> prog'.port, wasOpen |-> prog'.wasOpen]
  BY DEF Moves
<1>3. ProgInv'
  BY <1>2 DEF SuperInv, ProgInv, FindPc, ToshPc
<1>4. CanLock(port, \hAA)' => CanLock(prog.port, \hAA)'
  BY <1>2 DEF CanLock, Locked
<1>5. LockInv'
  BY <1>2, <1>4 DEF LockInv
<1> QED
  BY <1>1, <1>3, <1>5 DEF SuperInv

(* A step of findchip. *)
LEMMA FindProgram ==
  ASSUME SuperInv, prog.name = "findchip", chip' = chip,
         open' \in BOOLEAN, chip.key = <<>> => open',
         NEW pc \in FindPc \cup {"end"}, NEW k \in Nat, NEW port, Moves(pc, k, port),
         pc \in {"knock", "read", "relock"} => k \in 1 .. Len(Tries),
         ~prog.wasOpen =>
           /\ pc \in {"ioperm", "knock"} => ~open'
           /\ pc \in {"read", "relock"} => CanLock(Tries[k].port, Tries[k].end)'
           /\ pc = "end" /\ done' \in {"ok", "failed"} => ~open'
  PROVE  SuperInv'
<1>1. ChipInv'
  BY DEF SuperInv, ChipInv
<1>2. /\ prog'.name = "findchip" /\ prog'.pc = pc /\ prog'.k = k
      /\ prog'.wasOpen = prog.wasOpen
      /\ prog' = [name |-> prog'.name, args |-> prog'.args, pc |-> prog'.pc, k |-> prog'.k,
                  port |-> prog'.port, wasOpen |-> prog'.wasOpen]
  BY DEF Moves
<1>3. ProgInv'
  BY <1>2 DEF SuperInv, ProgInv, FindPc
<1>4. CanLock(Tries[k].port, Tries[k].end)'
        => CanLock(Tries[prog.k].port, Tries[prog.k].end)'
  BY <1>2 DEF CanLock, Locked
<1>5. LockInv'
  BY <1>2, <1>4 DEF LockInv
<1> QED
  BY <1>1, <1>3, <1>5 DEF SuperInv
-----------------------------------------------------------------------------
(* A program starts: it remembers whether the chip was open. *)
LEMMA StartInv ==
  ASSUME SuperInv, NEW name, NEW args, NEW pc, Start(name, args, pc),
         pc \in FindPc => name = "findchip",
         name = "findchip" => pc = "ioperm",
         name = "tosh1800" => pc \in {"skipped", "probe1800"}
  PROVE  SuperInv'
<1>1. /\ prog'.name = name /\ prog'.pc = pc /\ prog'.k = 1 /\ prog'.wasOpen = open
      /\ prog' = [name |-> prog'.name, args |-> prog'.args, pc |-> prog'.pc, k |-> prog'.k,
                  port |-> prog'.port, wasOpen |-> prog'.wasOpen]
      /\ chip' = chip /\ open' = open
  BY DEF Start, hardware
<1>2. ChipInv'
  BY <1>1 DEF SuperInv, ChipInv
<1>3. open \in BOOLEAN
  BY DEF SuperInv, ChipInv
<1>4. ProgInv'
  <2>1. pc \in {"knock", "read", "relock"} => FALSE
    BY DEF FindPc
  <2>2. pc \in FindPc => name = "findchip"
    OBVIOUS
  <2> QED
    BY <1>1, <1>3, <2>1, <2>2 DEF ProgInv, FindPc, ToshPc
<1>5. LockInv'
  BY <1>1 DEF LockInv, CanLock
<1> QED
  BY <1>2, <1>4, <1>5 DEF SuperInv

(* The steps smcinit and tosh2450-smcinit have for themselves. *)
LEMMA SmcStepInv ==
  ASSUME SuperInv, UnbindTty \/ HubCheck \/ BridgeStep \/ ProbeStep
  PROVE  SuperInv'
<1>0. ChipInv /\ ProgInv /\ prog.k \in Nat /\ open \in BOOLEAN
  BY DEF SuperInv, ChipInv, ProgInv
<1>1. prog.pc \in {"tty", "hub", "bridge", "probe"} /\ chip' = chip
  BY DEF UnbindTty, HubCheck, BridgeStep, ProbeStep, hardware
<1>2. prog.name \notin {"findchip", "tosh1800"}
  BY <1>0, <1>1 DEF ProgInv, FindPc, ToshPc
<1>3. open' \in BOOLEAN /\ (chip.key = <<>> => open')
  <2>1. open' = open \/ \E port : open' = Unlocked(port, <<\h55>>)
    BY Zenon DEF UnbindTty, HubCheck, BridgeStep, ProbeStep
  <2>2. \A port : Unlocked(port, <<\h55>>) \in BOOLEAN
    BY <1>0 DEF Unlocked
  <2>3. chip.key = <<>> => open /\ \A port : Unlocked(port, <<\h55>>)
    BY <1>0, KeyFacts DEF ChipInv
  <2> QED
    BY <1>0, <2>1, <2>2, <2>3
<1>4. \E pc \in {"end", "hub", "bridge", "probe", "regs"}, k \in Nat, port \in {prog'.port} :
        Moves(pc, k, port)
  <2>1. CASE UnbindTty
    <3>1. Moves("end", prog.k, prog.port) \/ Moves("hub", 1, prog.port)
      BY <1>0, <2>1, MovesFacts DEF UnbindTty
    <3> QED
      BY <1>0, <3>1 DEF Moves
  <2>2. CASE HubCheck
    <3>1. Moves("end", prog.k, prog.port) \/ Moves("bridge", 1, prog.port)
      BY <1>0, <2>2, MovesFacts DEF HubCheck
    <3> QED
      BY <1>0, <3>1 DEF Moves
  <2>3. CASE BridgeStep
    <3>1. Moves("bridge", prog.k + 1, prog.port) \/ Moves("probe", 1, prog.port)
      BY <1>0, <2>3, MovesFacts DEF BridgeStep
    <3> QED
      BY <1>0, <3>1 DEF Moves
  <2>4. CASE ProbeStep
    <3> DEFINE port == CfgBases[prog.name][prog.k]
    <3>1. \/ Moves("end", prog.k, prog.port)
          \/ Moves("probe", prog.k + 1, prog.port)
          \/ prog' = [prog EXCEPT !.pc = "regs", !.k = 1, !.port = port]
      <4> HIDE DEF port
      <4> QED
        BY <1>0, <2>4, MovesFacts DEF ProbeStep, port
    <3> HIDE DEF port
    <3>2. prog' = [prog EXCEPT !.pc = "regs", !.k = 1, !.port = port]
            => Moves("regs", 1, port)
      BY <1>0, ExceptMoves
    <3> QED
      BY <1>0, <3>1, <3>2 DEF Moves
  <2> QED
    BY <2>1, <2>2, <2>3, <2>4
<1>5. PICK pc \in {"end", "hub", "bridge", "probe", "regs"}, k \in Nat, port \in {prog'.port} :
        Moves(pc, k, port)
  BY <1>4
<1>6. pc \notin FindPc
  BY <1>5 DEF FindPc
<1> QED
  BY <1>1, <1>2, <1>3, <1>5, <1>6, OtherProgram

(* tosh1800-smcinit compares nothing it has written. *)
LEMMA ToshTable ==
  ASSUME NEW a, NEW k \in 1 .. 8
  PROVE  Tosh1800Table(a)[k].check = FALSE /\ Len(Tosh1800Table(a)) = 8
BY DEF Tosh1800Table, Write, WriteIf, Modify

(* One register of a table. *)
LEMMA RegStepInv ==
  ASSUME SuperInv, RegStep
  PROVE  SuperInv'
<1>0. ChipInv /\ ProgInv /\ prog.k \in Nat /\ open \in BOOLEAN
  BY DEF SuperInv, ChipInv, ProgInv
<1>1. prog.pc = "regs" /\ chip' = chip /\ open' = open
  BY DEF RegStep, hardware
<1>2. open' \in BOOLEAN /\ (chip.key = <<>> => open')
  BY <1>0, <1>1 DEF ChipInv
<1>3. prog.name # "findchip"
  BY <1>0, <1>1 DEF ProgInv, FindPc
<1>4. \/ Ends("failed") /\ Table[prog.k].check
      \/ GoesTo("regs", prog.k + 1) /\ prog.k < Len(Table)
      \/ GoesTo("leave", 1)
  BY Zenon DEF RegStep
<1>5. \/ Moves("end", prog.k, prog.port) /\ Table[prog.k].check
      \/ Moves("regs", prog.k + 1, prog.port) /\ prog.k < Len(Table)
      \/ Moves("leave", 1, prog.port)
  BY <1>0, <1>4, MovesFacts
<1>6. CASE prog.name # "tosh1800"
  BY <1>0, <1>1, <1>2, <1>3, <1>5, <1>6, OtherProgram DEF FindPc
<1>7. CASE prog.name = "tosh1800"
  <2>1. Table = Tosh1800Table(prog.args)
    BY <1>7 DEF Table
  <2>2. prog.k \in 1 .. 8
    BY <1>0, <1>1, <1>7 DEF ProgInv
  <2>3. Table[prog.k].check = FALSE /\ Len(Table) = 8
    BY <2>1, <2>2, ToshTable
  <2>4. ~prog.wasOpen => CanLock(prog.port, \hAA)
    BY <1>1, <1>7 DEF SuperInv, LockInv
  <2>5. PICK port \in {prog.port} : TRUE
    OBVIOUS
  <2>6. ~prog.wasOpen => CanLock(port, \hAA)'
    BY <1>1, <2>4, <2>5 DEF CanLock, Locked
  <2>7. CASE Moves("regs", prog.k + 1, prog.port) /\ prog.k < Len(Table)
    <3>1. prog.k + 1 \in 1 .. 8 /\ prog.k + 1 \in Nat /\ Moves("regs", prog.k + 1, port)
      BY <2>2, <2>3, <2>5, <2>7
    <3> QED
      BY <1>1, <1>2, <1>7, <2>6, <3>1, ToshProgram DEF ToshPc
  <2>8. CASE Moves("leave", 1, prog.port)
    <3>1. Moves("leave", 1, port)
      BY <2>5, <2>8
    <3> QED
      BY <1>1, <1>2, <1>7, <2>6, <3>1, ToshProgram DEF ToshPc
  <2> QED
    BY <1>5, <2>3, <2>7, <2>8
<1> QED
  BY <1>6, <1>7

(* Leaving the configuration state. *)
LEMMA LeaveStepInv ==
  ASSUME SuperInv, LeaveStep
  PROVE  SuperInv'
<1>0. ChipInv /\ ProgInv /\ prog.k \in Nat /\ open \in BOOLEAN
  BY DEF SuperInv, ChipInv, ProgInv
<1>1. prog.pc = "leave" /\ chip' = chip /\ open' = (open /\ ~Locked(prog.port, \hAA))
  BY DEF LeaveStep, hardware
<1>2. open' \in BOOLEAN /\ (chip.key = <<>> => open')
  BY <1>0, <1>1, KeyFacts DEF ChipInv
<1>3. prog.name # "findchip"
  BY <1>0, <1>1 DEF ProgInv, FindPc
<1>4. Moves("decode", 1, prog.port) \/ Moves("end", prog.k, prog.port)
  BY <1>0, MovesFacts DEF LeaveStep
<1>5. CASE prog.name # "tosh1800"
  BY <1>0, <1>1, <1>2, <1>3, <1>4, <1>5, OtherProgram DEF FindPc
<1>6. CASE prog.name = "tosh1800"
  <2>1. ~prog.wasOpen => CanLock(prog.port, \hAA)
    BY <1>1, <1>6 DEF SuperInv, LockInv
  <2>2. ~prog.wasOpen => ~open'
    BY <1>1, <2>1 DEF CanLock
  <2> QED
    BY <1>0, <1>1, <1>2, <1>4, <1>6, <2>2, ToshProgram DEF ToshPc
<1> QED
  BY <1>5, <1>6

(* -b, and the decoding of ports in the bridge. *)
LEMMA ToshOtherInv ==
  ASSUME SuperInv, Skipped1800 \/ Decode1800
  PROVE  SuperInv'
<1>0. ChipInv /\ ProgInv /\ prog.k \in Nat /\ open \in BOOLEAN
  BY DEF SuperInv, ChipInv, ProgInv
<1>1. prog.pc \in {"skipped", "decode"} /\ chip' = chip /\ open' = open
  BY DEF Skipped1800, Decode1800, hardware
<1>2. open' \in BOOLEAN /\ (chip.key = <<>> => open')
  BY <1>0, <1>1 DEF ChipInv
<1>3. prog.name # "findchip"
  BY <1>0, <1>1 DEF ProgInv, FindPc
<1>4. Moves("decode", 2, prog.port) \/ Moves("end", prog.k, prog.port)
  <2>1. GoesTo("decode", 2) \/ \E how : Ends(how)
    BY Zenon DEF Skipped1800, Decode1800
  <2> QED
    BY <1>0, <2>1, MovesFacts
<1>5. CASE prog.name # "tosh1800"
  BY <1>0, <1>1, <1>2, <1>3, <1>4, <1>5, OtherProgram DEF FindPc
<1>6. CASE prog.name = "tosh1800"
  <2>1. ~prog.wasOpen => ~open'
    BY <1>1, <1>6 DEF SuperInv, LockInv
  <2> QED
    BY <1>0, <1>1, <1>2, <1>4, <1>6, <2>1, ToshProgram DEF ToshPc
<1> QED
  BY <1>5, <1>6

(* Reading the version in configuration state, and entering it again. *)
LEMMA ToshEnterInv ==
  ASSUME SuperInv, Probe1800 \/ Enter1800
  PROVE  SuperInv'
<1>0. ChipInv /\ ProgInv /\ prog.k \in Nat /\ open \in BOOLEAN
  BY DEF SuperInv, ChipInv, ProgInv
<1>1. prog.pc \in {"probe1800", "enter1800"} /\ chip' = chip
  BY DEF Probe1800, Enter1800, hardware
<1>2. prog.name # "findchip"
  BY <1>0, <1>1 DEF ProgInv, FindPc
<1>3. CASE Ends("failed") /\ open' = open
  <2>1. Moves("end", prog.k, prog.port)
    BY <1>0, <1>3, MovesFacts
  <2>2. open' \in BOOLEAN /\ (chip.key = <<>> => open')
    BY <1>0, <1>3 DEF ChipInv
  <2>3. CASE prog.name # "tosh1800"
    BY <1>0, <1>1, <1>2, <2>1, <2>2, <2>3, OtherProgram DEF FindPc
  <2>4. CASE prog.name = "tosh1800"
    <3>1. ~prog.wasOpen => ~open'
      BY <1>1, <1>3, <2>4 DEF SuperInv, LockInv
    <3> QED
      BY <1>0, <1>1, <2>1, <2>2, <2>4, <3>1, ToshProgram DEF ToshPc
  <2> QED
    BY <2>3, <2>4
<1>4. ASSUME NEW pc \in {"unprobe1800", "regs"}, NEW k \in Nat, NEW port,
             pc = "regs" => k \in 1 .. 8,
             Moves(pc, k, port), open' = Unlocked(port, <<\h55>>)
      PROVE  SuperInv'
  <2>1. open' \in BOOLEAN /\ (chip.key = <<>> => open')
    <3>1. Unlocked(port, <<\h55>>) \in BOOLEAN
      BY <1>0 DEF Unlocked
    <3> QED
      BY <1>0, <1>4, <3>1, KeyFacts
  <2>2. CASE prog.name # "tosh1800"
    BY <1>1, <1>2, <1>4, <2>1, <2>2, OtherProgram DEF FindPc
  <2>3. CASE prog.name = "tosh1800"
    <3>1. ~prog.wasOpen => ~open
      BY <1>1, <2>3 DEF SuperInv, LockInv
    <3>2. ~prog.wasOpen => (open' => Locked(port, \hAA))
      BY <1>0, <1>4, <3>1, KeyFacts
    <3>3. ~prog.wasOpen => CanLock(port, \hAA)'
      BY <1>1, <3>2 DEF CanLock, Locked
    <3> QED
      BY <1>1, <1>4, <2>1, <2>3, <3>3, ToshProgram DEF ToshPc
  <2> QED
    BY <2>2, <2>3
<1>5. CASE Probe1800
  <2>1. CASE ~(Ends("failed") /\ open' = open)
    <3> DEFINE port == prog.args.cfg
               k == IF InOf(open', port, \h0D) = Bits(\h5A) THEN 1 ELSE 0
    <3>1. /\ open' = Unlocked(port, <<\h55>>)
          /\ prog' = [prog EXCEPT !.pc = "unprobe1800", !.port = port, !.k = k]
      BY <1>5, <2>1, Zenon DEF Probe1800
    <3>2. k \in Nat
      OBVIOUS
    <3> HIDE DEF port, k
    <3>3. Moves("unprobe1800", k, port)
      BY <1>0, <3>1, ExceptMovesPort
    <3> QED
      BY <1>4, <3>1, <3>2, <3>3
  <2> QED
    BY <1>3, <2>1
<1>6. CASE Enter1800
  <2>1. Moves("regs", 1, prog.port)
    BY <1>0, <1>6, MovesFacts DEF Enter1800
  <2>2. open' = Unlocked(prog.port, <<\h55>>)
    BY <1>6 DEF Enter1800
  <2> QED
    BY <1>4, <2>1, <2>2
<1> QED
  BY <1>5, <1>6

(* Leaving configuration state after the version was read. *)
LEMMA UnprobeInv ==
  ASSUME SuperInv, Unprobe1800
  PROVE  SuperInv'
<1>0. ChipInv /\ ProgInv /\ prog.k \in Nat /\ open \in BOOLEAN
  BY DEF SuperInv, ChipInv, ProgInv
<1>1. /\ prog.pc = "unprobe1800" /\ chip' = chip
      /\ open' = (open /\ ~Locked(prog.port, \hAA))
  BY DEF Unprobe1800, hardware
<1>2. open' \in BOOLEAN /\ (chip.key = <<>> => open')
  BY <1>0, <1>1, KeyFacts DEF ChipInv
<1>3. prog.name # "findchip"
  BY <1>0, <1>1 DEF ProgInv, FindPc
<1>4. Moves("enter1800", 1, prog.port) \/ Moves("end", prog.k, prog.port)
  BY <1>0, MovesFacts DEF Unprobe1800
<1>5. CASE prog.name # "tosh1800"
  BY <1>0, <1>1, <1>2, <1>3, <1>4, <1>5, OtherProgram DEF FindPc
<1>6. CASE prog.name = "tosh1800"
  <2>1. ~prog.wasOpen => CanLock(prog.port, \hAA)
    BY <1>1, <1>6 DEF SuperInv, LockInv
  <2>2. ~prog.wasOpen => ~open'
    BY <1>1, <2>1 DEF CanLock
  <2> QED
    BY <1>0, <1>1, <1>2, <1>4, <1>6, <2>2, ToshProgram DEF ToshPc
<1> QED
  BY <1>5, <1>6
-----------------------------------------------------------------------------
(* findchip ends, or goes on to a try of its table. *)
LEMMA NextTryMoves ==
  ASSUME ProgInv, NEW k \in Nat, NEW stop, NextTry(k, stop)
  PROVE  \/ Moves("end", prog.k, prog.port) /\ done' = "ok"
         \/ \E pc \in {"read", "knock"}, j \in 1 .. Len(Tries), port \in {0} :
              Moves(pc, j, port) /\ j > k /\ done' = done
<1> DEFINE later == {j \in k + 1 .. Len(Tries) :
                       /\ Tries[j].fam \in prog.args
                       /\ stop => Tries[j].fam # Tries[k].fam}
           pc == IF Tries[Min(later)].fam = "NSC" THEN "read" ELSE "knock"
<1>1. IF later = {} THEN Ends("ok")
      ELSE prog' = [prog EXCEPT !.pc = pc, !.k = Min(later), !.port = 0] /\ done' = done
  BY Zenon DEF NextTry
<1>2. later \subseteq 1 .. Len(Tries) /\ later \in SUBSET Nat /\ \A j \in later : j > k
  BY TriesLen
<1>3. pc \in {"read", "knock"}
  OBVIOUS
<1> HIDE DEF later, pc
<1>4. CASE later = {}
  BY <1>1, <1>4, MovesFacts
<1>5. CASE later # {}
  <2>1. PICK j \in 1 .. Len(Tries) : j = Min(later) /\ j > k
    BY <1>2, <1>5, MinInSet
  <2>2. Moves(pc, j, 0)
    BY <1>1, <1>5, <2>1, ExceptMoves
  <2> QED
    BY <1>1, <1>3, <1>5, <2>1, <2>2
<1> QED
  BY <1>4, <1>5

(* After a try the chip is locked again if it was when findchip started. *)
LEMMA NextTryInv ==
  ASSUME SuperInv, prog.name = "findchip", chip' = chip,
         open' \in BOOLEAN, chip.key = <<>> => open',
         NEW k \in Nat, NEW stop, NextTry(k, stop),
         ~prog.wasOpen => ~open'
  PROVE  SuperInv'
<1>0. ProgInv /\ prog.k \in Nat
  BY DEF SuperInv, ProgInv
<1>1. CASE Moves("end", prog.k, prog.port)
  BY <1>0, <1>1, FindProgram
<1>2. ASSUME NEW pc \in {"read", "knock"}, NEW j \in 1 .. Len(Tries), NEW port,
             Moves(pc, j, port)
      PROVE  SuperInv'
  <2>1. j \in Nat /\ pc \in FindPc \cup {"end"}
    BY <1>2, TriesLen DEF FindPc
  <2>2. ~prog.wasOpen => CanLock(Tries[j].port, Tries[j].end)'
    BY DEF CanLock
  <2> QED
    BY <1>2, <2>1, <2>2, FindProgram
<1> QED
  BY <1>0, <1>1, <1>2, NextTryMoves

(* findchip asks for its ports, and tries the first chip. *)
LEMMA IopermInv ==
  ASSUME SuperInv, Ioperm
  PROVE  SuperInv'
<1>0. ChipInv /\ ProgInv /\ prog.k \in Nat /\ open \in BOOLEAN
  BY DEF SuperInv, ChipInv, ProgInv
<1>1. prog.pc = "ioperm" /\ chip' = chip /\ open' = open
  BY DEF Ioperm, hardware
<1>2. prog.name = "findchip"
  BY <1>0, <1>1 DEF ProgInv, FindPc
<1>3. open' \in BOOLEAN /\ (chip.key = <<>> => open')
  BY <1>0, <1>1 DEF ChipInv
<1>4. ~prog.wasOpen => ~open'
  BY <1>1, <1>2 DEF SuperInv, LockInv
<1>5. CASE Ends("failed")
  <2>1. Moves("end", prog.k, prog.port)
    BY <1>0, <1>5, MovesFacts
  <2> QED
    BY <1>0, <1>1, <1>2, <1>3, <1>4, <2>1, FindProgram
<1>6. CASE NextTry(0, FALSE)
  BY <1>1, <1>2, <1>3, <1>4, <1>6, NextTryInv
<1> QED
  BY <1>5, <1>6 DEF Ioperm

(* The key of a chip is written: if that opens it, the exit byte of the    *)
(* same try locks it.                                                      *)
LEMMA KnockInv ==
  ASSUME SuperInv, Knock
  PROVE  SuperInv'
<1>0. ChipInv /\ ProgInv /\ prog.k \in Nat /\ open \in BOOLEAN
  BY DEF SuperInv, ChipInv, ProgInv
<1>1. /\ prog.pc = "knock" /\ chip' = chip
      /\ open' = Unlocked(Tries[prog.k].port, Tries[prog.k].key)
  BY DEF Knock, hardware
<1>2. prog.name = "findchip" /\ prog.k \in 1 .. Len(Tries)
  BY <1>0, <1>1 DEF ProgInv, FindPc
<1>3. Moves("read", prog.k, prog.port)
  BY <1>0, MovesFacts DEF Knock
<1>4. open' \in BOOLEAN /\ (chip.key = <<>> => open')
  <2>1. Unlocked(Tries[prog.k].port, Tries[prog.k].key) \in BOOLEAN
    BY <1>0 DEF Unlocked
  <2> QED
    BY <1>0, <1>1, <2>1, KeyFacts
<1>5. PICK k \in 1 .. Len(Tries) : k = prog.k
  BY <1>2
<1>6. ~prog.wasOpen => ~open
  BY <1>1, <1>2 DEF SuperInv, LockInv
<1>7. ~prog.wasOpen => (open' => Locked(Tries[k].port, Tries[k].end))
  BY <1>0, <1>1, <1>5, <1>6, KeyFacts
<1>8. ~prog.wasOpen => CanLock(Tries[k].port, Tries[k].end)'
  BY <1>1, <1>7 DEF CanLock, Locked
<1>9. Moves("read", k, prog.port) /\ k \in Nat
  BY <1>0, <1>3, <1>5
<1> QED
  BY <1>1, <1>2, <1>4, <1>5, <1>8, <1>9, FindProgram DEF FindPc

(* Reading changes nothing about the lock; a port that findchip may not    *)
(* touch ends it by a signal, which promises nothing.                      *)
LEMMA ReadInv ==
  ASSUME SuperInv, Read
  PROVE  SuperInv'
<1>0. ChipInv /\ ProgInv /\ prog.k \in Nat /\ open \in BOOLEAN
  BY DEF SuperInv, ChipInv, ProgInv
<1>1. prog.pc = "read" /\ chip' = chip /\ open' = open
  BY Zenon DEF Read, hardware
<1>2. prog.name = "findchip" /\ prog.k \in 1 .. Len(Tries)
  BY <1>0, <1>1 DEF ProgInv, FindPc
<1>3. open' \in BOOLEAN /\ (chip.key = <<>> => open')
  BY <1>0, <1>1 DEF ChipInv
<1>4. \/ Ends("fault")
      \/ GoesTo("relock", prog.k)
      \/ \E over : prog' = [prog EXCEPT !.pc = "relock", !.port = over]
  BY Zenon DEF Read
<1>5. \/ Moves("end", prog.k, prog.port) /\ done' = "fault"
      \/ \E over : Moves("relock", prog.k, over)
  <2>1. ASSUME NEW over, prog' = [prog EXCEPT !.pc = "relock", !.port = over]
        PROVE  Moves("relock", prog.k, over)
    <3>1. PICK n \in {prog.name}, a \in {prog.args}, c \in {prog.pc}, i \in {prog.k},
               t \in {prog.port}, w \in {prog.wasOpen} :
            prog = [name |-> n, args |-> a, pc |-> c, k |-> i, port |-> t, wasOpen |-> w]
      BY <1>0, Zenon DEF ProgInv
    <3> QED
      BY <2>1, <3>1 DEF Moves
  <2> QED
    BY <1>0, <1>4, <2>1, MovesFacts
<1>6. CASE Moves("end", prog.k, prog.port) /\ done' = "fault"
  BY <1>0, <1>1, <1>2, <1>3, <1>6, FindProgram
<1>7. ASSUME NEW over, Moves("relock", prog.k, over)
      PROVE  SuperInv'
  <2>1. PICK k \in 1 .. Len(Tries) : k = prog.k
    BY <1>2
  <2>2. ~prog.wasOpen => CanLock(Tries[k].port, Tries[k].end)
    BY <1>1, <1>2, <2>1 DEF SuperInv, LockInv
  <2>3. ~prog.wasOpen => CanLock(Tries[k].port, Tries[k].end)'
    BY <1>1, <2>2 DEF CanLock, Locked
  <2>4. Moves("relock", k, over) /\ k \in Nat
    BY <1>0, <1>7, <2>1
  <2> QED
    BY <1>1, <1>2, <1>3, <2>1, <2>3, <2>4, FindProgram DEF FindPc
<1> QED
  BY <1>5, <1>6, <1>7

(* The exit byte locks what the key of the same try has opened. *)
LEMMA RelockInv ==
  ASSUME SuperInv, Relock
  PROVE  SuperInv'
<1>0. ChipInv /\ ProgInv /\ prog.k \in Nat /\ open \in BOOLEAN
  BY DEF SuperInv, ChipInv, ProgInv
<1>1. /\ prog.pc = "relock" /\ chip' = chip
      /\ open' = (open /\ ~Locked(Tries[prog.k].port, Tries[prog.k].end))
  BY DEF Relock, hardware
<1>2. prog.name = "findchip" /\ prog.k \in 1 .. Len(Tries)
  BY <1>0, <1>1 DEF ProgInv, FindPc
<1>3. open' \in BOOLEAN /\ (chip.key = <<>> => open')
  BY <1>0, <1>1, <1>2, KeyFacts DEF ChipInv
<1>4. ~prog.wasOpen => CanLock(Tries[prog.k].port, Tries[prog.k].end)
  BY <1>1, <1>2 DEF SuperInv, LockInv
<1>5. ~prog.wasOpen => ~open'
  BY <1>1, <1>4 DEF CanLock
<1>6. PICK stop \in {prog.port = 1} : NextTry(prog.k, stop)
  BY DEF Relock
<1> QED
  BY <1>0, <1>1, <1>2, <1>3, <1>5, <1>6, NextTryInv
-----------------------------------------------------------------------------
(* Being killed and being reaped. *)
LEMMA KillReapInv ==
  ASSUME SuperInv, Kill \/ Reap
  PROVE  SuperInv'
<1>0. ChipInv /\ ProgInv /\ prog.k \in Nat /\ open \in BOOLEAN
  BY DEF SuperInv, ChipInv, ProgInv
<1>1. chip' = chip /\ open' = open
  BY DEF Kill, Reap, hardware
<1>2. ChipInv'
  BY <1>0, <1>1 DEF ChipInv
<1>3. CASE Kill
  <2>1. Moves("end", prog.k, prog.port) /\ done' = "killed"
    BY <1>0, <1>3, MovesFacts DEF Kill
  <2>2. /\ prog'.name = prog.name /\ prog'.pc = "end" /\ prog'.k = prog.k
        /\ prog'.wasOpen = prog.wasOpen
        /\ prog' = [name |-> prog'.name, args |-> prog'.args, pc |-> prog'.pc,
                    k |-> prog'.k, port |-> prog'.port, wasOpen |-> prog'.wasOpen]
    BY <2>1 DEF Moves
  <2>3. ProgInv'
    BY <1>0, <2>2 DEF ProgInv, FindPc
  <2>4. LockInv'
    BY <2>1, <2>2 DEF LockInv
  <2> QED
    BY <1>2, <2>3, <2>4 DEF SuperInv
<1>4. CASE Reap
  <2>1. /\ prog'.name = "none" /\ prog'.pc = "none" /\ prog'.k = 0
        /\ prog'.wasOpen = FALSE
        /\ prog' = [name |-> prog'.name, args |-> prog'.args, pc |-> prog'.pc,
                    k |-> prog'.k, port |-> prog'.port, wasOpen |-> prog'.wasOpen]
    BY <1>4 DEF Reap, Idle
  <2>2. ProgInv'
    <3>1. prog'.wasOpen \in BOOLEAN
      <4>1. prog'.wasOpen = FALSE
        BY <2>1
      <4> QED
        BY <4>1, Zenon
    <3>2. prog'.k \in Nat /\ prog'.pc \notin FindPc
      BY <2>1 DEF FindPc
    <3> QED
      BY <2>1, <3>1, <3>2 DEF ProgInv, FindPc
  <2>3. LockInv'
    BY <2>1 DEF LockInv
  <2> QED
    BY <1>2, <2>2, <2>3 DEF SuperInv
<1> QED
  BY <1>3, <1>4

(* Initially no program runs, and only a chip without a key is open. *)
LEMMA SuperInitInv == Init => SuperInv
<1> SUFFICES ASSUME Init PROVE SuperInv
  OBVIOUS
<1>1. PICK m \in Machines :
        chip = [kind |-> m.kind, base |-> m.base, key |-> m.key, exit |-> m.exit]
  BY DEF Init, SuperInit
<1>2. open = (chip.key = <<>>) /\ prog = Idle
  BY DEF Init, SuperInit
<1>3. ChipInv
  <2>1. chip.base = m.base /\ chip.key = m.key /\ chip.exit = m.exit
    BY <1>1
  <2> QED
    BY <1>2, <2>1 DEF ChipInv
<1>4. ProgInv
  BY <1>2 DEF ProgInv, Idle, FindPc
<1>5. LockInv
  BY <1>2 DEF LockInv, Idle
<1> QED
  BY <1>3, <1>4, <1>5 DEF SuperInv

(* Every step keeps the invariant. *)
LEMMA SuperNextInv == SuperInv /\ [Next]_vars => SuperInv'
<1> SUFFICES ASSUME SuperInv, [Next]_vars
             PROVE  SuperInv'
  OBVIOUS
<1>1. CASE StartSmcInit
  <2>1. ASSUME NEW a, Start("smcinit", a, IF a.tty THEN "tty" ELSE "hub")
        PROVE  SuperInv'
    BY <2>1, StartInv DEF FindPc
  <2>2. ASSUME Start("tosh2450", Tosh2450Args, "hub")
        PROVE  SuperInv'
    BY <2>2, StartInv DEF FindPc
  <2>3. ASSUME NEW a, Start("tosh1800", a, IF a.skipSmc THEN "skipped" ELSE "probe1800")
        PROVE  SuperInv'
    BY <2>3, StartInv DEF FindPc
  <2> QED
    BY <1>1, <2>1, <2>2, <2>3, Zenon DEF StartSmcInit
<1>2. CASE StartFindChip
  BY <1>2, StartInv DEF StartFindChip
<1>3. CASE SmcInitStep
  BY <1>3, SmcStepInv, RegStepInv, LeaveStepInv, ToshOtherInv, ToshEnterInv, UnprobeInv
     DEF SmcInitStep
<1>4. CASE FindChipStep
  BY <1>4, IopermInv, KnockInv, ReadInv, RelockInv DEF FindChipStep
<1>5. CASE Kill \/ Reap
  BY <1>5, KillReapInv
<1>6. CASE UNCHANGED vars
  BY <1>6 DEF vars, SuperInv, ChipInv, ProgInv, LockInv, CanLock, Locked
<1> QED
  BY <1>1, <1>2, <1>3, <1>4, <1>5, <1>6 DEF Next
-----------------------------------------------------------------------------
(* The powers of two of a word. *)
Pow == <<1, 2, 4, 8, 16, 32, 64, 128, 256, 512, 1024, 2048, 4096, 8192, 16384, 32768>>

(* The weights of the bits of a word. *)
LEMMA Weights == \A b \in Word : 2^b = Pow[b + 1]
<1>1. /\ 2^0 = 1 /\ 2^1 = 2 /\ 2^2 = 4 /\ 2^3 = 8 /\ 2^4 = 16 /\ 2^5 = 32 /\ 2^6 = 64
      /\ 2^7 = 128 /\ 2^8 = 256 /\ 2^9 = 512 /\ 2^10 = 1024 /\ 2^11 = 2048
      /\ 2^12 = 4096 /\ 2^13 = 8192 /\ 2^14 = 16384 /\ 2^15 = 32768
  OBVIOUS
<1>2. ASSUME NEW b \in Word
      PROVE  2^b = Pow[b + 1]
  <2>1. \/ b = 0 \/ b = 1 \/ b = 2 \/ b = 3 \/ b = 4 \/ b = 5 \/ b = 6 \/ b = 7
        \/ b = 8 \/ b = 9 \/ b = 10 \/ b = 11 \/ b = 12 \/ b = 13 \/ b = 14 \/ b = 15
    BY <1>2 DEF Word
  <2>2. CASE b = 0  BY <1>1, <2>2 DEF Pow
  <2>3. CASE b = 1  BY <1>1, <2>3 DEF Pow
  <2>4. CASE b = 2  BY <1>1, <2>4 DEF Pow
  <2>5. CASE b = 3  BY <1>1, <2>5 DEF Pow
  <2>6. CASE b = 4  BY <1>1, <2>6 DEF Pow
  <2>7. CASE b = 5  BY <1>1, <2>7 DEF Pow
  <2>8. CASE b = 6  BY <1>1, <2>8 DEF Pow
  <2>9. CASE b = 7  BY <1>1, <2>9 DEF Pow
  <2>10. CASE b = 8  BY <1>1, <2>10 DEF Pow
  <2>11. CASE b = 9  BY <1>1, <2>11 DEF Pow
  <2>12. CASE b = 10  BY <1>1, <2>12 DEF Pow
  <2>13. CASE b = 11  BY <1>1, <2>13 DEF Pow
  <2>14. CASE b = 12  BY <1>1, <2>14 DEF Pow
  <2>15. CASE b = 13  BY <1>1, <2>15 DEF Pow
  <2>16. CASE b = 14  BY <1>1, <2>16 DEF Pow
  <2>17. CASE b = 15  BY <1>1, <2>17 DEF Pow
  <2> QED
    BY <2>1, <2>2, <2>3, <2>4, <2>5, <2>6, <2>7, <2>8, <2>9,
       <2>10, <2>11, <2>12, <2>13, <2>14, <2>15, <2>16, <2>17
<1> QED
  BY <1>2

(* The bits of a number, without powers. *)
LEMMA BitsByWeight ==
  ASSUME NEW n \in Nat
  PROVE  Bits(n) = {b \in Word : (n \div Pow[b + 1]) % 2 = 1}
BY Weights DEF Bits

(* The constants of the tables as sets of bits. *)
LEMMA BitsLow ==
  /\ Bits(\h01) = {0} /\ Bits(\h03) = {0, 1} /\ Bits(\h04) = {2} /\ Bits(\h05) = {0, 2}
  /\ Bits(\h06) = {1, 2} /\ Bits(\h07) = {0, 1, 2} /\ Bits(\h08) = {3}
  /\ Bits(\h09) = {0, 3} /\ Bits(\h0F) = {0, 1, 2, 3}
BY BitsByWeight DEF Word, Pow

(* Larger ones. *)
LEMMA BitsMiddle ==
  /\ Bits(\h20) = {5} /\ Bits(\h26) = {1, 2, 5}
  /\ Bits(\h29) = {0, 3, 5} /\ Bits(\h38) = {3, 4, 5} /\ Bits(\h40) = {6}
  /\ Bits(\h5A) = {1, 3, 4, 6} /\ Bits(\h7A) = {1, 3, 4, 5, 6}
  /\ Bits(\h80) = {7} /\ Bits(\h88) = {3, 7} 
BY BitsByWeight DEF Word, Pow

(* The largest. *)
LEMMA BitsHigh ==
  /\ Bits(\h97) = {0, 1, 2, 4, 7}
  /\ Bits(\hC7) = {0, 1, 2, 6, 7} /\ Bits(\hF0) = {4, 5, 6, 7}
  /\ Bits(\hFE) = {1, 2, 3, 4, 5, 6, 7} /\ Bits(\h130) = {4, 5, 8}
  /\ Bits(\h3F8) = 3 .. 9 /\ Bits(\hFF8) = 3 .. 11
BY BitsByWeight DEF Word, Pow

(* The ids of Winbond chips. *)
LEMMA WinbondBits ==
  WinbondIds = {{0, 1, 4, 5, 6}, {2, 4, 5, 6}, {0, 1, 3}, {2, 3}, {0, 2, 3}}
<1>1. /\ Bits(\h73) = {0, 1, 4, 5, 6} /\ Bits(\h74) = {2, 4, 5, 6}
      /\ Bits(\h0B) = {0, 1, 3} /\ Bits(\h0C) = {2, 3} /\ Bits(\h0D) = {0, 2, 3}
  BY BitsByWeight DEF Word, Pow
<1> QED
  BY <1>1 DEF WinbondIds

(* The order in which the registers are written. *)
SmcOrder == <<\h24, \h25, \h28, \h2B, \h2C, \h0C, \h07, \h0A, \h02, \h00>>
Tosh1800Order == <<\h25, \h2B, \h2C, \h28, \h0C, \h07, \h02, \h00>>

(* The table of a program, and the order of its registers. *)
TableOf(name, a) == CASE name = "smcinit" -> SmcTable(a)
                      [] name = "tosh2450" -> Tosh2450Table
                      [] OTHER -> Tosh1800Table(a)

OrderOf(name) == IF name \in {"smcinit", "tosh2450"} THEN SmcOrder ELSE Tosh1800Order

(* Register file f has the value entry w of a table gives it. *)
Holds(f, w) ==
  /\ (IF w.reg = \h2C THEN 0 .. 3 ELSE Byte) \cap w.put \subseteq f[w.reg]
  /\ f[w.reg] \subseteq w.keep \cup w.put
  /\ w.check => f[w.reg] = w.put

(* Every entry is of the register its table has at this place. *)
Ordered(t, order) ==
  Len(t) = Len(order) /\ \A k \in 1 .. Len(order) : t[k].reg = order[k]

(* No table is empty. *)
LEMMA OrderLen ==
  ASSUME NEW name
  PROVE  Len(OrderOf(name)) \in Nat /\ Len(OrderOf(name)) > 0
BY DEF OrderOf, SmcOrder, Tosh1800Order

(* The tables are in their order. *)
LEMMA TableOrder ==
  ASSUME NEW name, NEW a
  PROVE  Ordered(TableOf(name, a), OrderOf(name))
<1>0. Len(SmcOrder) = 10 /\ Len(Tosh1800Order) = 8
  BY DEF SmcOrder, Tosh1800Order
<1>1. ASSUME NEW check, NEW sir, NEW irq, NEW fir, NEW dma
      PROVE  Ordered(UartTable(check, sir, irq, fir, dma), SmcOrder)
  BY <1>0 DEF Ordered, UartTable, SmcOrder, Write, WriteIf, Modify
<1>2. CASE name = "smcinit"
  <2>1. TableOf(name, a) = SmcTable(a) /\ OrderOf(name) = SmcOrder
    BY <1>2 DEF TableOf, OrderOf
  <2> DEFINE sir == Shr(Bits(a.sir) \cap Bits(\hFF8), 2)
             irq == Bits(a.irq)
             fir == Shr(Bits(a.fir) \cap Bits(\hFF8), 3)
             dma == Bits(a.dma)
  <2>2. SmcTable(a) = UartTable(TRUE, sir, irq, fir, dma)
    BY DEF SmcTable
  <2> HIDE DEF sir, irq, fir, dma
  <2>3. Ordered(UartTable(TRUE, sir, irq, fir, dma), SmcOrder)
    BY <1>1
  <2> QED
    BY <1>0, <2>1, <2>2, <2>3
<1>3. CASE name = "tosh2450"
  <2>1. TableOf(name, a) = Tosh2450Table /\ OrderOf(name) = SmcOrder
    BY <1>3 DEF TableOf, OrderOf
  <2> DEFINE sir == Bits(\hFE)
             irq == Bits(7)
             fir == Bits(\h26)
             dma == Bits(1)
  <2>2. Ordered(Tosh2450Table, SmcOrder)
    <3>1. Tosh2450Table = UartTable(FALSE, sir, irq, fir, dma)
      BY Zenon DEF Tosh2450Table
    <3> HIDE DEF sir, irq, fir, dma
    <3>2. Ordered(UartTable(FALSE, sir, irq, fir, dma), SmcOrder)
      BY <1>1
    <3> QED
      BY <3>1, <3>2, Zenon
  <2> QED
    BY <1>0, <2>1, <2>2
<1>4. CASE name \notin {"smcinit", "tosh2450"}
  <2>1. TableOf(name, a) = Tosh1800Table(a) /\ OrderOf(name) = Tosh1800Order
    BY <1>4 DEF TableOf, OrderOf
  <2>2. Ordered(Tosh1800Table(a), Tosh1800Order)
    BY <1>0 DEF Ordered, Tosh1800Table, Tosh1800Order, Write, WriteIf, Modify
  <2> QED
    BY <1>0, <2>1, <2>2
<1> QED
  BY <1>2, <1>3, <1>4

(* No register is written twice. *)
LEMMA OrderDistinct ==
  ASSUME NEW name, NEW j \in 1 .. Len(OrderOf(name)),
         NEW k \in 1 .. Len(OrderOf(name)), j # k
  PROVE  OrderOf(name)[j] # OrderOf(name)[k]
<1> DEFINE Place(r) == CASE r = \h24 -> 1 [] r = \h25 -> 2 [] r = \h28 -> 3 [] r = \h2B -> 4
                         [] r = \h2C -> 5 [] r = \h0C -> 6 [] r = \h07 -> 7 [] r = \h0A -> 8
                         [] r = \h02 -> 9 [] OTHER -> 10
           Place1800(r) == CASE r = \h25 -> 1 [] r = \h2B -> 2 [] r = \h2C -> 3 [] r = \h28 -> 4
                         [] r = \h0C -> 5 [] r = \h07 -> 6 [] r = \h02 -> 7 [] OTHER -> 8
<1>1. \A i \in 1 .. 10 : Place(SmcOrder[i]) = i
  BY SMTT(60) DEF SmcOrder
<1>2. \A i \in 1 .. 8 : Place1800(Tosh1800Order[i]) = i
  BY SMTT(60) DEF Tosh1800Order
<1>3. Len(SmcOrder) = 10 /\ Len(Tosh1800Order) = 8
  BY DEF SmcOrder, Tosh1800Order
<1> HIDE DEF Place, Place1800
<1> QED
  BY <1>1, <1>2, <1>3 DEF OrderOf

(* The registers of the tables. *)
SmcRegs == {\h00, \h02, \h07, \h0A, \h0C, \h24, \h25, \h28, \h2B, \h2C}

(* No others are written. *)
LEMMA OrderRegs ==
  ASSUME NEW name, NEW k \in 1 .. Len(OrderOf(name))
  PROVE  OrderOf(name)[k] \in SmcRegs
<1>1. \A i \in 1 .. 10 : SmcOrder[i] \in SmcRegs
  BY DEF SmcOrder, SmcRegs
<1>2. \A i \in 1 .. 8 : Tosh1800Order[i] \in SmcRegs
  BY DEF Tosh1800Order, SmcRegs
<1>3. Len(SmcOrder) = 10 /\ Len(Tosh1800Order) = 8
  BY DEF SmcOrder, Tosh1800Order
<1> QED
  BY <1>1, <1>2, <1>3 DEF OrderOf

(* A port shifted down and up again. *)
LEMMA Shifts ==
  /\ \A s \in SUBSET (3 .. 11) : Shl(Shr(s, 2), 2) = s /\ Shl(Shr(s, 3), 3) = s
  /\ \A s \in SUBSET (3 .. 9) : Shr(s, 2) \subseteq Byte
  /\ \A s \in SUBSET (3 .. 10) : Shr(s, 3) \subseteq Byte
<1>1. ASSUME NEW s \in SUBSET (3 .. 11), NEW n \in {2, 3}
      PROVE  Shl(Shr(s, n), n) = s
  <2>1. ASSUME NEW x \in s
        PROVE  x \in Shl(Shr(s, n), n)
    <3>1. x \in Int /\ x >= n /\ (x - n) + n = x
      BY <1>1
    <3>2. x - n \in Shr(s, n)
      BY <3>1 DEF Shr
    <3> QED
      BY <3>1, <3>2 DEF Shl
  <2>2. ASSUME NEW y \in Shl(Shr(s, n), n)
        PROVE  y \in s
    <3>1. PICK b \in Shr(s, n) : y = b + n
      BY DEF Shl
    <3>2. PICK c \in s : b = c - n
      BY DEF Shr
    <3>3. c \in Int /\ (c - n) + n = c
      BY <1>1
    <3> QED
      BY <3>1, <3>2, <3>3
  <2> QED
    BY <2>1, <2>2
<1>2. ASSUME NEW s \in SUBSET (3 .. 9), NEW b \in Shr(s, 2)
      PROVE  b \in Byte
  BY <1>2 DEF Shr, Byte
<1>3. ASSUME NEW s \in SUBSET (3 .. 10), NEW b \in Shr(s, 3)
      PROVE  b \in Byte
  BY <1>3 DEF Shr, Byte
<1> QED
  BY <1>1, <1>2, <1>3

(* All entries of table t have been written. *)
Held(f, t) == \A j \in 1 .. Len(t) : Holds(f, t[j])

(* What the common table leaves behind. *)
UartLeft(f, check, sir, irq, fir, dma) ==
  /\ check => f[\h25] = sir /\ f[\h28] = irq /\ f[\h2B] = fir /\ f[\h2C] = dma
  /\ f[\h25] \subseteq sir /\ Byte \cap sir \subseteq f[\h25]
  /\ f[\h28] \subseteq irq /\ Byte \cap irq \subseteq f[\h28]
  /\ f[\h2B] \subseteq fir /\ Byte \cap fir \subseteq f[\h2B]
  /\ f[\h2C] \subseteq dma /\ 0 .. 3 \cap dma \subseteq f[\h2C]
  /\ IrdaMode(f) /\ Powered(f) /\ 7 \in f[\h00]

(* So it does. *)
LEMMA UartHeld ==
  ASSUME NEW f \in [Reg -> SUBSET Byte], NEW check \in BOOLEAN, NEW sir, NEW irq,
         NEW fir, NEW dma, Held(f, UartTable(check, sir, irq, fir, dma))
  PROVE  UartLeft(f, check, sir, irq, fir, dma)
<1> DEFINE t == UartTable(check, sir, irq, fir, dma)
<1>0. Len(t) = 10 /\ \A j \in 1 .. 10 : Holds(f, t[j])
  BY DEF Held, UartTable
<1>1. Holds(f, t[2]) /\ Holds(f, t[3]) /\ Holds(f, t[4]) /\ Holds(f, t[5])
  BY <1>0
<1>2. Holds(f, t[6]) /\ Holds(f, t[7]) /\ Holds(f, t[9]) /\ Holds(f, t[10])
  BY <1>0
<1>3. /\ t[2] = WriteIf(check, \h25, sir) /\ t[3] = WriteIf(check, \h28, irq)
      /\ t[4] = WriteIf(check, \h2B, fir) /\ t[5] = WriteIf(check, \h2C, dma)
      /\ t[6] = Modify(\h0C, Bits(\hC7), Bits(\h88)) /\ t[7] = Modify(\h07, Byte, Bits(\h20))
      /\ t[9] = Write(\h02, Bits(\h80)) /\ t[10] = Modify(\h00, Byte, Bits(\h80))
  BY DEF UartTable
<1> HIDE DEF t
<1>4. /\ check => f[\h25] = sir /\ f[\h28] = irq /\ f[\h2B] = fir /\ f[\h2C] = dma
      /\ f[\h25] \subseteq sir /\ Byte \cap sir \subseteq f[\h25]
      /\ f[\h28] \subseteq irq /\ Byte \cap irq \subseteq f[\h28]
      /\ f[\h2B] \subseteq fir /\ Byte \cap fir \subseteq f[\h2B]
      /\ f[\h2C] \subseteq dma /\ 0 .. 3 \cap dma \subseteq f[\h2C]
  <2>1. ASSUME NEW r, NEW put, Holds(f, WriteIf(check, r, put))
        PROVE  /\ check => f[r] = put
               /\ f[r] \subseteq put
               /\ (IF r = \h2C THEN 0 .. 3 ELSE Byte) \cap put \subseteq f[r]
    BY <2>1 DEF Holds, WriteIf
  <2> QED
    BY <1>1, <1>3, <2>1
<1>5. 7 \in f[\h02] /\ 5 \in f[\h07] /\ 7 \in f[\h00]
  BY <1>2, <1>3, BitsMiddle DEF Holds, Write, WriteIf, Modify, Byte
<1>6. f[\h0C] \cap {3, 4, 5} = {3}
  BY <1>2, <1>3, BitsMiddle, BitsHigh DEF Holds, Modify, Byte
<1> QED
  BY <1>4, <1>5, <1>6, BitsLow, BitsMiddle DEF UartLeft, IrdaMode, Powered

(* What smcinit leaves behind. *)
LEMMA SmcHeld ==
  ASSUME NEW f \in [Reg -> SUBSET Byte], NEW a, Held(f, TableOf("smcinit", a))
  PROVE  ReadBack(f, a) /\ IrdaMode(f) /\ Powered(f) /\ 7 \in f[\h00]
<1> DEFINE sir == Shr(Bits(a.sir) \cap Bits(\hFF8), 2)
           irq == Bits(a.irq)
           fir == Shr(Bits(a.fir) \cap Bits(\hFF8), 3)
           dma == Bits(a.dma)
<1>1. TableOf("smcinit", a) = UartTable(TRUE, sir, irq, fir, dma)
  BY DEF TableOf, SmcTable
<1>4. /\ Bits(a.sir) \cap Bits(\hFF8) \in SUBSET (3 .. 11)
      /\ Bits(a.fir) \cap Bits(\hFF8) \in SUBSET (3 .. 11)
  BY BitsHigh
<1>5. Shl(sir, 2) = Bits(a.sir) \cap Bits(\hFF8) /\ Shl(fir, 3) = Bits(a.fir) \cap Bits(\hFF8)
  BY <1>4, Shifts
<1> HIDE DEF sir, irq, fir, dma
<1>2. Held(f, UartTable(TRUE, sir, irq, fir, dma))
  BY <1>1
<1>3. /\ f[\h25] = sir /\ f[\h28] = irq /\ f[\h2B] = fir /\ f[\h2C] = dma
      /\ IrdaMode(f) /\ Powered(f) /\ 7 \in f[\h00]
  <2>1. UartLeft(f, TRUE, sir, irq, fir, dma)
    BY <1>2, UartHeld
  <2> QED
    BY <2>1 DEF UartLeft
<1> QED
  BY <1>3, <1>5 DEF ReadBack, irq, dma

(* What smcinit has compared is what was asked for, if that can be         *)
(* expressed.                                                              *)
LEMMA ReadBackAnswers ==
  ASSUME NEW f, NEW a, ReadBack(f, a), Expressible(a)
  PROVE  Answers(f, a)
<1>1. /\ Bits(a.sir) \cap Bits(\hFF8) = Bits(a.sir)
      /\ Bits(a.fir) \cap Bits(\hFF8) = Bits(a.fir)
  <2>1. 3 .. 9 \subseteq Bits(\hFF8) /\ 3 .. 10 \subseteq Bits(\hFF8)
    BY BitsHigh
  <2> QED
    BY <2>1 DEF Expressible
<1>2. Bits(a.irq) \cap Bits(\h0F) = Bits(a.irq)
  BY BitsLow DEF Expressible
<1> QED
  BY <1>1, <1>2 DEF ReadBack, Answers

(* What tosh2450-smcinit leaves behind. *)
LEMMA Tosh2450Held ==
  ASSUME NEW f \in [Reg -> SUBSET Byte], NEW a, Held(f, TableOf("tosh2450", a))
  PROVE  ReadBack(f, Tosh2450Args) /\ IrdaMode(f) /\ Powered(f) /\ 7 \in f[\h00]
<1> DEFINE sir == Bits(\hFE)
           irq == Bits(7)
           fir == Bits(\h26)
           dma == Bits(1)
<1>1. TableOf("tosh2450", a) = UartTable(FALSE, sir, irq, fir, dma)
  BY DEF TableOf, Tosh2450Table
<1>4. sir \subseteq Byte /\ irq \subseteq Byte /\ fir \subseteq Byte /\ dma \subseteq 0 .. 3
  BY BitsLow, BitsMiddle, BitsHigh DEF Byte
<1> HIDE DEF sir, irq, fir, dma
<1>2. Held(f, UartTable(FALSE, sir, irq, fir, dma))
  BY <1>1
<1>3. /\ f[\h25] \subseteq sir /\ Byte \cap sir \subseteq f[\h25]
      /\ f[\h28] \subseteq irq /\ Byte \cap irq \subseteq f[\h28]
      /\ f[\h2B] \subseteq fir /\ Byte \cap fir \subseteq f[\h2B]
      /\ f[\h2C] \subseteq dma /\ 0 .. 3 \cap dma \subseteq f[\h2C]
      /\ IrdaMode(f) /\ Powered(f) /\ 7 \in f[\h00]
  <2>1. UartLeft(f, FALSE, sir, irq, fir, dma)
    BY <1>2, UartHeld
  <2> QED
    BY <2>1 DEF UartLeft
<1>5. f[\h25] = sir /\ f[\h28] = irq /\ f[\h2B] = fir /\ f[\h2C] = dma
  BY <1>3, <1>4
<1>6. /\ Shl(Bits(\hFE), 2) = Bits(\h3F8) \cap Bits(\hFF8)
      /\ Shl(Bits(\h26), 3) = Bits(\h130) \cap Bits(\hFF8)
  BY BitsMiddle, BitsHigh DEF Shl
<1> QED
  BY <1>3, <1>5, <1>6 DEF ReadBack, Tosh2450Args, sir, irq, fir, dma

(* What tosh1800-smcinit leaves behind. *)
LEMMA Tosh1800Held ==
  ASSUME NEW f \in [Reg -> SUBSET Byte], NEW a, Held(f, TableOf("tosh1800", a))
  PROVE  /\ Expressible(a) => Answers(f, a)
         /\ Powered(f) /\ 7 \in f[\h00]
<1> DEFINE t == Tosh1800Table(a)
<1>1. TableOf("tosh1800", a) = t /\ Len(t) = 8
  BY DEF TableOf, Tosh1800Table
<1>2. /\ t[1] = Write(\h25, Shr(Bits(a.sir), 2) \cap Byte)
      /\ t[2] = Write(\h2B, Shr(Bits(a.fir), 3) \cap Byte)
      /\ t[3] = Write(\h2C, Bits(a.dma) \cap Bits(\h0F))
      /\ t[4] = Modify(\h28, Bits(\hF0), Bits(a.irq) \cap Bits(\h0F))
      /\ t[6] = Modify(\h07, Byte, Bits(\h20))
      /\ t[7] = Modify(\h02, Byte, Bits(\h80)) /\ t[8] = Modify(\h00, Byte, Bits(\h80))
  BY DEF Tosh1800Table
<1> HIDE DEF t
<1>3. /\ Holds(f, t[1]) /\ Holds(f, t[2]) /\ Holds(f, t[3]) /\ Holds(f, t[4])
      /\ Holds(f, t[6]) /\ Holds(f, t[7]) /\ Holds(f, t[8])
  BY <1>1 DEF Held
<1>4. 7 \in f[\h02] /\ 5 \in f[\h07] /\ 7 \in f[\h00]
  BY <1>2, <1>3, BitsMiddle DEF Holds, Modify, Byte
<1>5. /\ f[\h25] = Shr(Bits(a.sir), 2) \cap Byte
      /\ f[\h2B] = Shr(Bits(a.fir), 3) \cap Byte
      /\ f[\h2C] = Bits(a.dma) \cap Bits(\h0F)
  BY <1>2, <1>3, BitsLow DEF Holds, Write, WriteIf, Byte
<1>6. f[\h28] \cap Bits(\h0F) = Bits(a.irq) \cap Bits(\h0F)
  BY <1>2, <1>3, BitsLow, BitsHigh DEF Holds, Modify, Byte
<1>7. ASSUME Expressible(a)
      PROVE  Answers(f, a)
  <2>1. /\ Shl(f[\h25], 2) = Bits(a.sir) /\ Shl(f[\h2B], 3) = Bits(a.fir)
    <3>1. Bits(a.sir) \in SUBSET (3 .. 9) /\ Bits(a.fir) \in SUBSET (3 .. 10)
      BY <1>7 DEF Expressible
    <3>2. Bits(a.sir) \in SUBSET (3 .. 11) /\ Bits(a.fir) \in SUBSET (3 .. 11)
      BY <3>1
    <3>3. f[\h25] = Shr(Bits(a.sir), 2) /\ f[\h2B] = Shr(Bits(a.fir), 3)
      BY <1>5, <3>1, Shifts
    <3> QED
      BY <3>2, <3>3, Shifts
  <2>2. f[\h2C] = Bits(a.dma) /\ f[\h28] \cap Bits(\h0F) = Bits(a.irq)
    BY <1>5, <1>6, <1>7, BitsLow DEF Expressible
  <2> QED
    BY <2>1, <2>2 DEF Answers
<1> QED
  BY <1>4, <1>7 DEF Powered
-----------------------------------------------------------------------------
(* The hardware is that of machine m, but for what programs write: findchip *)
(* the logical device and the bank, the initialisers their registers, and  *)
(* they only write to a chip with one of their ids.                        *)
Built(m) ==
  /\ chip.kind = m.kind /\ chip.base = m.base /\ chip.key = m.key /\ chip.exit = m.exit
  /\ \A r \in Reg \ {\h07, IRCC_MASTER} :
       regs[r] = m.regs[r] \/ (m.regs[\h0D] \in InitialisedIds /\ r \in SmcRegs)

(* The registers have their widths, and are those of a machine. *)
RegsInv ==
  /\ regs \in [Reg -> SUBSET Byte] /\ bridge \in [BridgeReg -> SUBSET Word]
  /\ \E m \in Machines : Built(m)

(* The steps of smcinit and tosh2450-smcinit; an initialiser returns 0. *)
SmcPc == {"tty", "hub", "bridge", "probe", "regs", "leave"}
EndsWell == prog.pc = "end" /\ done = "ok" /\ prog.name \in Initialiser

(* Where an initialiser is, and in which entry of its table. *)
PlaceInv ==
  /\ prog.name \in Initialiser \cup {"findchip", "none"}
  /\ prog.name = "none" => prog.pc = "none"
  /\ prog.name = "tosh2450" => prog.args = Tosh2450Args
  /\ prog.name \in {"smcinit", "tosh2450"} => prog.pc \in SmcPc \cup {"end"}
  /\ prog.pc # "end" => done = "none"
  /\ prog.pc = "bridge" => prog.k \in 1 .. 4
  /\ prog.pc = "regs" => prog.k \in 1 .. Len(OrderOf(prog.name))
  /\ prog.pc = "decode" => prog.k \in {1, 2}

(* The chip it writes to is there, has one of the ids, and is open while   *)
(* the table is written, and locked afterwards.                            *)
FoundInv ==
  /\ prog.pc \in {"regs", "leave"} \/ (prog.pc = "unprobe1800" /\ prog.k = 1)
       => open /\ prog.port = chip.base /\ regs[\h0D] \in InitialisedIds
  /\ prog.pc = "enter1800" => prog.port = chip.base /\ regs[\h0D] \in InitialisedIds
  /\ prog.pc = "decode" \/ EndsWell => ~open

(* What the table says is in the registers, as far as it has been written. *)
TableInv ==
  LET t == TableOf(prog.name, prog.args)
  IN /\ prog.pc = "regs" => \A j \in 1 .. prog.k - 1 : Holds(regs, t[j])
     /\ prog.pc \in {"leave", "decode"} \/ EndsWell => Held(regs, t)

(* The same for the bridge. *)
BridgeInv ==
  prog.name \in {"smcinit", "tosh2450"} =>
    /\ (\/ prog.pc = "bridge" /\ prog.k > 2
        \/ prog.pc \in {"probe", "regs", "leave"} \/ EndsWell)
         => bridge["LPC_EN"] \cap {0, 1} = {0}
    /\ prog.pc \in {"probe", "regs", "leave"} \/ EndsWell
         => bridge["GEN2_DEC"] = Bits(\h131)

(* The bridge decodes port p, if it can. *)
Decoded(b, p) == p \in DOMAIN AliPorts => AliPorts[p].mask \subseteq b[AliPorts[p].reg]

(* tosh1800-smcinit decodes sirbase before firbase. *)
DecodeInv ==
  prog.name = "tosh1800" =>
    /\ prog.pc = "decode" /\ prog.k = 2 => Decoded(bridge, prog.args.sir)
    /\ EndsWell /\ ~prog.args.skipDecoding /\ ~prog.args.print
         => Decoded(bridge, prog.args.sir) /\ Decoded(bridge, prog.args.fir)

(* What holds while an initialiser runs. *)
SetupInv == PlaceInv /\ FoundInv /\ TableInv /\ BridgeInv /\ DecodeInv
-----------------------------------------------------------------------------
(* A chip with one of the ids is of the kind the initialisers are for. *)
LEMMA IdChip ==
  ASSUME RegsInv, regs[\h0D] \in InitialisedIds
  PROVE  chip.kind = "LPC47N227" /\ chip.key = <<\h55>> /\ chip.exit = \hAA
<1>1. PICK m \in Machines : Built(m)
  BY DEF RegsInv
<1>2. \h0D \in Reg \ {\h07, IRCC_MASTER} /\ \h0D \notin SmcRegs
  BY DEF Reg, IRCC_MASTER, SmcRegs
<1>3. regs[\h0D] = m.regs[\h0D]
  BY <1>1, <1>2 DEF Built
<1>4. m.kind = "LPC47N227" /\ m.key = <<\h55>> /\ m.exit = \hAA
  BY <1>1, <1>3, IdAssumption
<1> QED
  BY <1>1, <1>4 DEF Built

(* An id is read only from a chip that is there and open. *)
LEMMA IdIsRead ==
  ASSUME NEW o \in BOOLEAN, NEW port, InOf(o, port, \h0D) \in InitialisedIds
  PROVE  o /\ port = chip.base /\ regs[\h0D] \in InitialisedIds
<1>1. Byte \notin InitialisedIds
  <2>1. 0 \in Byte /\ 0 \notin Bits(\h5A) /\ 0 \notin Bits(\h7A)
    BY BitsMiddle DEF Byte
  <2> QED
    BY <2>1 DEF InitialisedIds
<1> QED
  BY <1>1 DEF InOf

(* The program goes on at this place. *)
After(pc, k, port) ==
  /\ prog'.name = prog.name /\ prog'.args = prog.args /\ prog'.pc = pc /\ prog'.k = k
  /\ prog'.port = port

(* So it does with every move. *)
LEMMA MovesAfter ==
  ASSUME ProgInv
  PROVE  /\ \A pc, k, port : Moves(pc, k, port) => After(pc, k, port)
         /\ \A pc, k : GoesTo(pc, k) => After(pc, k, prog.port) /\ done' = done
         /\ \A how : Ends(how) => After("end", prog.k, prog.port) /\ done' = how
<1>1. \A pc, k, port : Moves(pc, k, port) => After(pc, k, port)
  BY DEF Moves, After
<1> QED
  BY <1>1, MovesFacts

(* Nothing is promised by a program that does not end well. *)
LEMMA SetupOver ==
  ASSUME SetupInv, prog.pc # "none", NEW k, NEW port, After("end", k, port), done' # "ok"
  PROVE  SetupInv'
<1>1. PlaceInv'
  BY DEF SetupInv, PlaceInv, After
<1>2. ~EndsWell'
  BY DEF EndsWell
<1>3. FoundInv' /\ TableInv'
  BY <1>2 DEF FoundInv, TableInv, After
<1>4. BridgeInv' /\ DecodeInv'
  BY <1>2 DEF BridgeInv, DecodeInv, After
<1> QED
  BY <1>1, <1>3, <1>4 DEF SetupInv

(* Nor by one that has not written anything yet. *)
LEMMA SetupBegins ==
  ASSUME NEW name \in Initialiser \cup {"findchip", "none"}, NEW args, NEW pc,
         prog'.name = name, prog'.args = args, prog'.pc = pc, prog'.k = 1, done' = "none",
         pc \in {"tty", "hub", "bridge", "skipped", "probe1800"} \cup FindPc,
         name = "tosh2450" => args = Tosh2450Args,
         name \in {"smcinit", "tosh2450"} => pc \in SmcPc,
         name # "none"
  PROVE  SetupInv'
<1>1. PlaceInv'
  BY DEF PlaceInv, FindPc
<1>2. ~EndsWell'
  BY DEF EndsWell
<1>3. FoundInv' /\ TableInv'
  BY <1>2 DEF FoundInv, TableInv, FindPc
<1>4. BridgeInv' /\ DecodeInv'
  BY <1>2 DEF BridgeInv, DecodeInv, FindPc
<1> QED
  BY <1>1, <1>3, <1>4 DEF SetupInv

(* findchip promises nothing of the kind. *)
LEMMA SetupFind ==
  ASSUME SetupInv, prog.name = "findchip", NEW pc \in FindPc \cup {"end"}, NEW k, NEW port,
         After(pc, k, port), pc # "end" => done' = "none"
  PROVE  SetupInv'
<1>1. PlaceInv'
  BY DEF SetupInv, PlaceInv, After, FindPc, Initialiser
<1>2. ~EndsWell'
  BY DEF EndsWell, After, Initialiser
<1>3. FoundInv' /\ TableInv'
  BY <1>2 DEF FoundInv, TableInv, After, FindPc
<1>4. BridgeInv' /\ DecodeInv'
  BY <1>2 DEF BridgeInv, DecodeInv, After
<1> QED
  BY <1>1, <1>3, <1>4 DEF SetupInv

(* A program starts. *)
LEMMA StartSetup ==
  ASSUME SetupInv, StartSmcInit \/ StartFindChip
  PROVE  SetupInv'
<1>1. ASSUME NEW name \in Initialiser \cup {"findchip", "none"}, NEW args, NEW pc,
             Start(name, args, pc),
             pc \in {"tty", "hub", "skipped", "probe1800", "ioperm"},
             name = "tosh2450" => args = Tosh2450Args,
             name \in {"smcinit", "tosh2450"} => pc \in SmcPc,
             name # "none"
      PROVE  SetupInv'
  <2>1. /\ prog'.name = name /\ prog'.args = args /\ prog'.pc = pc /\ prog'.k = 1
        /\ done' = done /\ prog = Idle
    BY <1>1 DEF Start
  <2>2. done = "none"
    BY <2>1 DEF SetupInv, PlaceInv, Idle
  <2> QED
    BY <1>1, <2>1, <2>2, SetupBegins DEF FindPc
<1>2. ASSUME NEW a, Start("smcinit", a, IF a.tty THEN "tty" ELSE "hub")
      PROVE  SetupInv'
  BY <1>1, <1>2 DEF Initialiser, SmcPc
<1>3. ASSUME Start("tosh2450", Tosh2450Args, "hub")
      PROVE  SetupInv'
  BY <1>1, <1>3 DEF Initialiser, SmcPc
<1>4. ASSUME NEW a, Start("tosh1800", a, IF a.skipSmc THEN "skipped" ELSE "probe1800")
      PROVE  SetupInv'
  BY <1>1, <1>4 DEF Initialiser
<1>5. ASSUME NEW f, Start("findchip", f, "ioperm")
      PROVE  SetupInv'
  BY <1>1, <1>5
<1> QED
  BY <1>2, <1>3, <1>4, <1>5, Zenon DEF StartSmcInit, StartFindChip

(* Of the steps of an initialiser, whose they are. *)
LEMMA WhoseStep ==
  ASSUME ProgInv, PlaceInv
  PROVE  /\ prog.pc \in {"tty", "hub", "bridge", "probe"} => prog.name \in {"smcinit", "tosh2450"}
         /\ prog.pc \in {"regs", "leave"} => prog.name \in Initialiser
         /\ prog.pc \in {"skipped", "probe1800", "unprobe1800", "enter1800", "decode"}
              => prog.name = "tosh1800"
BY DEF ProgInv, PlaceInv, FindPc, ToshPc, SmcPc, Initialiser

(* The tty is freed, and the hub is looked at. *)
LEMMA HubSetup ==
  ASSUME SuperInv, SetupInv, UnbindTty \/ HubCheck
  PROVE  SetupInv'
<1>0. ProgInv /\ PlaceInv /\ prog.k \in Nat
  BY DEF SuperInv, SetupInv, ProgInv
<1>1. prog.pc \in {"tty", "hub"}
  BY DEF UnbindTty, HubCheck
<1>2. prog.name \in {"smcinit", "tosh2450"} /\ done = "none"
  BY <1>0, <1>1, WhoseStep DEF PlaceInv
<1>3. \/ Ends("failed")
      \/ GoesTo("hub", 1)
      \/ GoesTo("bridge", 1)
  BY Zenon DEF UnbindTty, HubCheck
<1>4. \/ After("end", prog.k, prog.port) /\ done' = "failed"
      \/ \E pc \in {"hub", "bridge"} : After(pc, 1, prog.port) /\ done' = "none"
  BY <1>0, <1>2, <1>3, MovesAfter
<1>5. CASE After("end", prog.k, prog.port) /\ done' = "failed"
  BY <1>1, <1>5, SetupOver
<1>6. ASSUME NEW pc \in {"hub", "bridge"}, After(pc, 1, prog.port), done' = "none"
      PROVE  SetupInv'
  <2>1. /\ prog'.name = prog.name /\ prog'.args = prog.args /\ prog'.pc = pc /\ prog'.k = 1
    BY <1>6 DEF After
  <2>2. prog.name \in Initialiser \cup {"findchip", "none"} /\ prog.name # "none" /\ pc \in SmcPc
    BY <1>2, <1>6 DEF Initialiser, SmcPc
  <2>3. prog.name = "tosh2450" => prog.args = Tosh2450Args
    BY <1>0 DEF PlaceInv
  <2> QED
    BY <1>6, <2>1, <2>2, <2>3, SetupBegins
<1> QED
  BY <1>4, <1>5, <1>6

(* One register of the bridge. *)
LEMMA BridgeSetup ==
  ASSUME SuperInv, SetupInv, RegsInv, BridgeStep
  PROVE  SetupInv'
<1>0. ProgInv /\ PlaceInv /\ BridgeInv /\ prog.pc = "bridge" /\ prog.k \in 1 .. 4
  BY DEF SuperInv, SetupInv, PlaceInv, BridgeStep
<1>1. prog.name \in {"smcinit", "tosh2450"} /\ done = "none"
  BY <1>0, WhoseStep DEF PlaceInv
<1> DEFINE t == BridgeTable(prog.name)
           w == t[prog.k]
<1>2. Len(t) = 4
  BY DEF BridgeTable
<1>3. bridge' = [bridge EXCEPT ![w.reg] = (@ \cap w.keep) \cup w.put]
  BY DEF BridgeStep
<1>4. /\ prog.k = 1 => w.reg = "COM_DEC"
      /\ prog.k = 2 => w = Modify("LPC_EN", Word \ {1}, {0})
      /\ prog.k = 3 => w.reg = "PCI_DMA_C"
      /\ prog.k = 4 => w = Write("GEN2_DEC", Bits(\h131))
  <2>1. /\ t[1].reg = "COM_DEC"
        /\ t[2] = Modify("LPC_EN", Word \ {1}, {0})
        /\ t[4] = Write("GEN2_DEC", Bits(\h131))
    BY DEF BridgeTable, Write, WriteIf
  <2>2. t[3].reg = "PCI_DMA_C"
    BY DEF BridgeTable, Write, WriteIf, Modify
  <2> HIDE DEF t
  <2> QED
    BY <2>1, <2>2
<1>5. IF prog.k < 4 THEN GoesTo("bridge", prog.k + 1) ELSE GoesTo("probe", 1)
  BY <1>2, Zenon DEF BridgeStep
<1> HIDE DEF t, w
<1>6. /\ prog.k < 4 => After("bridge", prog.k + 1, prog.port)
      /\ prog.k = 4 => After("probe", 1, prog.port)
      /\ done' = "none"
  BY <1>0, <1>1, <1>5, MovesAfter
<1>7. /\ prog'.name = prog.name /\ prog'.args = prog.args
      /\ prog.k < 4 => prog'.pc = "bridge" /\ prog'.k = prog.k + 1
      /\ prog.k = 4 => prog'.pc = "probe"
  BY <1>0, <1>6 DEF After
<1>8. bridge \in [BridgeReg -> SUBSET Word] /\ {"LPC_EN", "GEN2_DEC"} \subseteq BridgeReg
  BY DEF RegsInv, BridgeReg
<1>9. /\ prog.k > 2 => bridge["LPC_EN"] \cap {0, 1} = {0}
  BY <1>0, <1>1 DEF BridgeInv
<1>10. prog.k >= 2 => bridge'["LPC_EN"] \cap {0, 1} = {0}
  <2>1. CASE prog.k = 2
    <3>1. w.reg = "LPC_EN" /\ w.keep = Word \ {1} /\ w.put = {0}
      BY <1>4, <2>1 DEF Modify
    <3> QED
      BY <1>3, <1>8, <3>1
  <2>2. CASE prog.k = 3
    BY <1>3, <1>4, <1>8, <1>9, <2>2
  <2>3. CASE prog.k = 4
    <3>1. w.reg = "GEN2_DEC"
      BY <1>4, <2>3 DEF Write, WriteIf
    <3> QED
      BY <1>3, <1>8, <1>9, <2>3, <3>1
  <2> QED
    BY <1>0, <2>1, <2>2, <2>3
<1>11. prog.k = 4 => bridge'["GEN2_DEC"] = Bits(\h131)
  <2>1. prog.k = 4 => w.reg = "GEN2_DEC" /\ w.keep = {} /\ w.put = Bits(\h131)
    BY <1>4 DEF Write, WriteIf
  <2> QED
    BY <1>3, <1>8, <2>1
<1>12. PlaceInv'
  BY <1>0, <1>1, <1>6, <1>7 DEF PlaceInv, SmcPc
<1>13. prog'.pc \in {"bridge", "probe"} /\ ~EndsWell'
  BY <1>0, <1>7 DEF EndsWell
<1>14. BridgeInv'
  BY <1>0, <1>7, <1>10, <1>11, <1>13 DEF BridgeInv
<1>15. FoundInv' /\ TableInv' /\ DecodeInv'
  BY <1>13 DEF FoundInv, TableInv, DecodeInv
<1> QED
  BY <1>12, <1>14, <1>15 DEF SetupInv

(* The chip is looked for. *)
LEMMA ProbeSetup ==
  ASSUME SuperInv, SetupInv, RegsInv, ProbeStep
  PROVE  SetupInv'
<1>0. ProgInv /\ PlaceInv /\ BridgeInv /\ prog.pc = "probe" /\ prog.k \in Nat /\ ChipInv
  BY DEF SuperInv, SetupInv, ProgInv, ProbeStep
<1>1. prog.name \in {"smcinit", "tosh2450"} /\ done = "none"
  BY <1>0, WhoseStep DEF PlaceInv
<1> DEFINE port == CfgBases[prog.name][prog.k]
<1>2. /\ open' = Unlocked(port, <<\h55>>)
      /\ \/ /\ InOf(open', port, \h0D) \in ChipIds[prog.name]
            /\ prog' = [prog EXCEPT !.pc = "regs", !.k = 1, !.port = port] /\ done' = done
         \/ GoesTo("probe", prog.k + 1)
         \/ Ends("failed")
  BY Zenon DEF ProbeStep
<1>3. regs' = regs /\ bridge' = bridge /\ chip' = chip
  BY DEF ProbeStep, hardware
<1> HIDE DEF port
<1>4. open' \in BOOLEAN
  BY <1>0, <1>2 DEF Unlocked, ChipInv
<1>5. CASE Ends("failed")
  <2>1. After("end", prog.k, prog.port) /\ done' = "failed"
    BY <1>0, <1>5, MovesAfter
  <2> QED
    BY <1>0, <2>1, SetupOver
<1>6. CASE GoesTo("probe", prog.k + 1)
  <2>1. After("probe", prog.k + 1, prog.port) /\ done' = "none"
    BY <1>0, <1>1, <1>6, MovesAfter
  <2>2. ~EndsWell'
    BY <2>1 DEF After, EndsWell
  <2>3. PlaceInv'
    BY <1>0, <1>1, <2>1 DEF PlaceInv, After, SmcPc
  <2>4. FoundInv' /\ TableInv' /\ DecodeInv'
    BY <2>1, <2>2 DEF FoundInv, TableInv, DecodeInv, After
  <2>5. BridgeInv'
    BY <1>0, <1>1, <1>3, <2>1, <2>2 DEF BridgeInv, After
  <2> QED
    BY <2>3, <2>4, <2>5 DEF SetupInv
<1>7. CASE /\ InOf(open', port, \h0D) \in ChipIds[prog.name]
           /\ prog' = [prog EXCEPT !.pc = "regs", !.k = 1, !.port = port] /\ done' = done
  <2>1. Moves("regs", 1, port)
    BY <1>0, <1>7, ExceptMoves
  <2>2. After("regs", 1, port) /\ done' = "none"
    BY <1>0, <1>1, <1>7, <2>1, MovesAfter
  <2>3. ChipIds[prog.name] \subseteq InitialisedIds
    BY <1>1 DEF ChipIds, InitialisedIds
  <2>4. open' /\ port = chip.base /\ regs[\h0D] \in InitialisedIds
    BY <1>4, <1>7, <2>3, IdIsRead
  <2>5. ~EndsWell'
    BY <2>2 DEF After, EndsWell
  <2>6. PlaceInv'
    <3>0. Len(OrderOf(prog.name)) \in Nat /\ Len(OrderOf(prog.name)) > 0
      BY OrderLen
    <3>1. 1 \in 1 .. Len(OrderOf(prog.name))
      BY <3>0
    <3> QED
      BY <1>0, <1>1, <2>2, <3>1 DEF PlaceInv, After, SmcPc
  <2>7. FoundInv'
    BY <1>3, <2>2, <2>4, <2>5 DEF FoundInv, After
  <2>8. TableInv' /\ DecodeInv'
    BY <2>2, <2>5 DEF TableInv, DecodeInv, After
  <2>9. BridgeInv'
    BY <1>0, <1>1, <1>3, <2>2, <2>5 DEF BridgeInv, After
  <2> QED
    BY <2>6, <2>7, <2>8, <2>9 DEF SetupInv
<1> QED
  BY <1>2, <1>5, <1>6, <1>7

(* Writing one register leaves the other entries of a table alone. *)
LEMMA OtherEntries ==
  ASSUME NEW f, NEW g, NEW name, NEW a,
         NEW k \in 1 .. Len(OrderOf(name)), NEW j \in 1 .. Len(OrderOf(name)), j # k,
         \A r \in Reg \ {TableOf(name, a)[k].reg} : g[r] = f[r],
         Holds(f, TableOf(name, a)[j])
  PROVE  Holds(g, TableOf(name, a)[j])
<1>1. Ordered(TableOf(name, a), OrderOf(name))
  BY TableOrder
<1> DEFINE t == TableOf(name, a)
<1>2. t[j].reg = OrderOf(name)[j] /\ t[k].reg = OrderOf(name)[k]
  BY <1>1 DEF Ordered
<1>3. OrderOf(name)[j] # OrderOf(name)[k] /\ OrderOf(name)[j] \in SmcRegs
  BY OrderDistinct, OrderRegs
<1>4. SmcRegs \subseteq Reg
  BY DEF SmcRegs, Reg
<1>5. t[j].reg \in Reg \ {t[k].reg}
  BY <1>2, <1>3, <1>4
<1> HIDE DEF t
<1>6. g[t[j].reg] = f[t[j].reg]
  BY <1>5 DEF t
<1> QED
  BY <1>6 DEF Holds, t

(* What a step of the table does. *)
LEMMA RegStepFacts ==
  ASSUME SuperInv, SetupInv, RegsInv, RegStep,
         NEW t, t = TableOf(prog.name, prog.args), NEW k, k = prog.k
  PROVE  /\ k \in 1 .. Len(OrderOf(prog.name)) /\ t[k].reg \in SmcRegs /\ t[k].reg \in Reg
         /\ Len(t) = Len(OrderOf(prog.name))
         /\ regs' \in [Reg -> SUBSET Byte]
         /\ \A r \in Reg \ {t[k].reg} : regs'[r] = regs[r]
         /\ \/ Ends("failed")
            \/ /\ Holds(regs', t[k])
               /\ \/ k < Len(t) /\ GoesTo("regs", k + 1)
                  \/ k = Len(t) /\ GoesTo("leave", 1)
<1>0. PlaceInv /\ FoundInv /\ prog.pc = "regs"
  BY DEF SetupInv, RegStep
<1>1. k \in 1 .. Len(OrderOf(prog.name)) /\ open /\ prog.port = chip.base
  BY <1>0 DEF PlaceInv, FoundInv
<1>2. Ordered(t, OrderOf(prog.name))
  BY TableOrder
<1>3. t[k].reg = OrderOf(prog.name)[k] /\ Len(t) = Len(OrderOf(prog.name))
  BY <1>1, <1>2 DEF Ordered
<1>4. t[k].reg \in SmcRegs /\ t[k].reg \in Reg
  <2>1. OrderOf(prog.name)[k] \in SmcRegs
    BY <1>1, OrderRegs
  <2>2. SmcRegs \subseteq Reg
    BY DEF SmcRegs, Reg
  <2> QED
    BY <1>3, <2>1, <2>2
<1>5. Table = t
  BY DEF Table, TableOf
<1>6. PICK w : w = t[k]
  OBVIOUS
<1>7. /\ Out(prog.port, w.reg, w.keep, w.put)
      /\ \/ w.check /\ regs'[w.reg] # w.put /\ Ends("failed")
         \/ /\ ~(w.check /\ regs'[w.reg] # w.put)
            /\ \/ k < Len(t) /\ GoesTo("regs", k + 1)
               \/ ~(k < Len(t)) /\ GoesTo("leave", 1)
  BY <1>5, <1>6, Zenon DEF RegStep
<1> DEFINE v == Implemented(w.reg) \cap ((regs[w.reg] \cap w.keep) \cup w.put)
<1>8. regs' = [regs EXCEPT ![w.reg] = v]
  BY <1>1, <1>7 DEF Out
<1>9. /\ Implemented(w.reg) \subseteq Byte
      /\ (IF w.reg = \h2C THEN 0 .. 3 ELSE Byte) \subseteq Implemented(w.reg)
  BY DEF Implemented, Byte
<1>10. v \subseteq Byte /\ v \subseteq w.keep \cup w.put
       /\ (IF w.reg = \h2C THEN 0 .. 3 ELSE Byte) \cap w.put \subseteq v
  BY <1>9
<1> HIDE DEF v
<1>11. regs \in [Reg -> SUBSET Byte]
  BY DEF RegsInv
<1>12. /\ regs' \in [Reg -> SUBSET Byte] /\ regs'[w.reg] = v
       /\ \A r \in Reg \ {w.reg} : regs'[r] = regs[r]
  BY <1>4, <1>6, <1>8, <1>10, <1>11
<1>13. ~(w.check /\ regs'[w.reg] # w.put) => Holds(regs', w)
  BY <1>10, <1>12 DEF Holds
<1>14. k \in Int /\ Len(t) \in Int /\ k =< Len(t)
  <2>1. Len(OrderOf(prog.name)) \in Nat
    BY OrderLen
  <2> QED
    BY <1>1, <1>3, <2>1
<1>15. ~(k < Len(t)) => k = Len(t)
  BY <1>14
<1>16. \/ Ends("failed")
       \/ /\ Holds(regs', t[k])
          /\ \/ k < Len(t) /\ GoesTo("regs", k + 1)
             \/ k = Len(t) /\ GoesTo("leave", 1)
  BY <1>6, <1>7, <1>13, <1>15, Zenon
<1> QED
  BY <1>1, <1>3, <1>4, <1>6, <1>12, <1>16

(* One register of a table. *)
LEMMA RegSetup ==
  ASSUME SuperInv, SetupInv, RegsInv, RegStep
  PROVE  SetupInv'
<1>0. /\ ProgInv /\ PlaceInv /\ FoundInv /\ TableInv /\ BridgeInv /\ prog.pc = "regs"
      /\ prog.k \in Nat
  BY DEF SuperInv, SetupInv, ProgInv, RegStep
<1>1. prog.name \in Initialiser /\ done = "none"
  BY <1>0, WhoseStep DEF PlaceInv
<1>2. chip' = chip /\ open' = open /\ bridge' = bridge
  BY DEF RegStep, hardware
<1>3. open /\ prog.port = chip.base /\ regs[\h0D] \in InitialisedIds
  BY <1>0 DEF FoundInv
<1>4. PICK t, k : t = TableOf(prog.name, prog.args) /\ k = prog.k
  OBVIOUS
<1>5. /\ k \in 1 .. Len(OrderOf(prog.name)) /\ t[k].reg \in SmcRegs
      /\ Len(t) = Len(OrderOf(prog.name))
      /\ \A r \in Reg \ {t[k].reg} : regs'[r] = regs[r]
      /\ \/ Ends("failed")
         \/ /\ Holds(regs', t[k])
            /\ \/ k < Len(t) /\ GoesTo("regs", k + 1)
               \/ k = Len(t) /\ GoesTo("leave", 1)
  BY <1>4, RegStepFacts
<1>6. CASE Ends("failed")
  <2>1. After("end", prog.k, prog.port) /\ done' = "failed"
    BY <1>0, <1>6, MovesAfter
  <2> QED
    BY <1>0, <2>1, SetupOver
<1>7. CASE /\ Holds(regs', t[k])
           /\ \/ k < Len(t) /\ GoesTo("regs", k + 1)
              \/ k = Len(t) /\ GoesTo("leave", 1)
  <2>1. /\ \/ k < Len(t) /\ After("regs", k + 1, prog.port)
           \/ k = Len(t) /\ After("leave", 1, prog.port)
        /\ done' = "none"
    BY <1>0, <1>1, <1>7, MovesAfter
  <2>2. /\ prog'.name = prog.name /\ prog'.args = prog.args /\ prog'.port = prog.port
        /\ k < Len(t) => prog'.pc = "regs" /\ prog'.k = k + 1
        /\ ~(k < Len(t)) => prog'.pc = "leave"
        /\ prog'.pc \in {"regs", "leave"} /\ ~EndsWell'
    <3>1. Len(t) \in Nat
      BY <1>5, OrderLen
    <3> QED
      BY <1>5, <2>1, <3>1 DEF After, EndsWell
  <2>3. regs'[\h0D] = regs[\h0D]
    BY <1>5 DEF SmcRegs, Reg
  <2>4. FoundInv'
    BY <1>2, <1>3, <2>2, <2>3 DEF FoundInv
  <2>5. Len(t) \in Nat /\ k \in Nat
    BY <1>5, OrderLen
  <2>6. PlaceInv'
    <3>1. prog'.pc = "regs" => prog'.k \in 1 .. Len(OrderOf(prog'.name))
      BY <1>5, <2>2, <2>5
    <3> QED
      BY <1>0, <1>1, <2>1, <2>2, <3>1 DEF PlaceInv, SmcPc, Initialiser
  <2>7. \A j \in 1 .. k : Holds(regs', t[j])
    <3>1. ASSUME NEW j \in 1 .. k - 1
          PROVE  Holds(regs', t[j])
      <4>1. Holds(regs, t[j])
        BY <1>0, <1>4, <3>1 DEF TableInv
      <4>2. j \in 1 .. Len(OrderOf(prog.name)) /\ j # k
        BY <1>5, <2>5, <3>1
      <4> QED
        BY <1>4, <1>5, <4>1, <4>2, OtherEntries
    <3> QED
      BY <1>7, <2>5, <3>1
  <2>8. TableInv'
    <3>1. TableOf(prog.name, prog.args)' = t
      BY <1>4, <2>2
    <3>2. prog'.pc = "regs" => \A j \in 1 .. prog'.k - 1 : Holds(regs', t[j])
      BY <2>2, <2>5, <2>7
    <3>3. prog'.pc = "leave" => Held(regs', t)
      BY <1>5, <2>2, <2>5, <2>7 DEF Held
    <3> QED
      BY <2>2, <3>1, <3>2, <3>3 DEF TableInv
  <2>9. BridgeInv' /\ DecodeInv'
    BY <1>0, <1>2, <2>2 DEF BridgeInv, DecodeInv
  <2> QED
    BY <2>4, <2>6, <2>8, <2>9 DEF SetupInv
<1> QED
  BY <1>5, <1>6, <1>7

(* Leaving the configuration state locks the chip. *)
LEMMA LeaveSetup ==
  ASSUME SuperInv, SetupInv, RegsInv, LeaveStep
  PROVE  SetupInv'
<1>0. /\ ProgInv /\ PlaceInv /\ FoundInv /\ TableInv /\ BridgeInv /\ prog.pc = "leave"
      /\ prog.k \in Nat
  BY DEF SuperInv, SetupInv, ProgInv, LeaveStep
<1>1. prog.name \in Initialiser /\ done = "none"
  BY <1>0, WhoseStep DEF PlaceInv
<1>2. chip' = chip /\ regs' = regs /\ bridge' = bridge
  BY DEF LeaveStep, hardware
<1>3. open /\ prog.port = chip.base /\ regs[\h0D] \in InitialisedIds
  BY <1>0 DEF FoundInv
<1>4. ~open'
  <2>1. chip.exit = \hAA
    BY <1>3, IdChip
  <2> QED
    BY <1>3, <2>1 DEF LeaveStep, Locked
<1>5. \/ prog.name = "tosh1800" /\ ~prog.args.skipDecoding /\ GoesTo("decode", 1)
      \/ ~(prog.name = "tosh1800" /\ ~prog.args.skipDecoding) /\ Ends("ok")
  BY Zenon DEF LeaveStep
<1>6. \/ /\ prog.name = "tosh1800" /\ ~prog.args.skipDecoding
         /\ After("decode", 1, prog.port) /\ done' = "none"
      \/ /\ ~(prog.name = "tosh1800" /\ ~prog.args.skipDecoding)
         /\ After("end", prog.k, prog.port) /\ done' = "ok"
  BY <1>0, <1>1, <1>5, MovesAfter
<1>7. prog'.name = prog.name /\ prog'.args = prog.args /\ prog'.pc \in {"decode", "end"}
  BY <1>6 DEF After
<1>8. PlaceInv'
  BY <1>0, <1>1, <1>6 DEF PlaceInv, After, Initialiser
<1>9. FoundInv'
  BY <1>4, <1>7 DEF FoundInv
<1>10. TableInv'
  <2>1. Held(regs, TableOf(prog.name, prog.args))
    BY <1>0 DEF TableInv
  <2> QED
    BY <1>2, <1>7, <2>1 DEF TableInv
<1>11. BridgeInv'
  BY <1>0, <1>2, <1>7 DEF BridgeInv
<1>12. DecodeInv'
  BY <1>6, <1>7 DEF DecodeInv, After, EndsWell
<1> QED
  BY <1>8, <1>9, <1>10, <1>11, <1>12 DEF SetupInv

(* The version is read. *)
LEMMA Probe1800Setup ==
  ASSUME SuperInv, SetupInv, Probe1800
  PROVE  SetupInv'
<1>0. ProgInv /\ PlaceInv /\ prog.pc = "probe1800" /\ prog.k \in Nat /\ ChipInv
  BY Zenon DEF SuperInv, SetupInv, ProgInv, Probe1800
<1>1. prog.name = "tosh1800" /\ done = "none"
  BY <1>0, WhoseStep DEF PlaceInv
<1> DEFINE port == prog.args.cfg
           k == IF InOf(open', port, \h0D) = Bits(\h5A) THEN 1 ELSE 0
<1>2. \/ Ends("failed")
      \/ /\ open' = Unlocked(port, <<\h55>>) /\ done' = done
         /\ prog' = [prog EXCEPT !.pc = "unprobe1800", !.port = port, !.k = k]
  BY Zenon DEF Probe1800
<1>3. regs' = regs /\ chip' = chip
  BY DEF Probe1800, hardware
<1>4. k = 1 => InOf(open', port, \h0D) = Bits(\h5A)
  OBVIOUS
<1> HIDE DEF port, k
<1>5. CASE Ends("failed")
  <2>1. After("end", prog.k, prog.port) /\ done' = "failed"
    BY <1>0, <1>5, MovesAfter
  <2> QED
    BY <1>0, <2>1, SetupOver
<1>6. CASE /\ open' = Unlocked(port, <<\h55>>) /\ done' = done
           /\ prog' = [prog EXCEPT !.pc = "unprobe1800", !.port = port, !.k = k]
  <2>1. Moves("unprobe1800", k, port)
    BY <1>0, <1>6, ExceptMovesPort
  <2>2. /\ prog'.name = "tosh1800" /\ prog'.pc = "unprobe1800" /\ prog'.k = k
        /\ prog'.port = port /\ done' = "none"
    BY <1>0, <1>1, <1>6, <2>1, MovesAfter DEF After
  <2>3. open' \in BOOLEAN
    BY <1>0, <1>6 DEF Unlocked, ChipInv
  <2>4. k = 1 => open' /\ port = chip.base /\ regs[\h0D] \in InitialisedIds
    BY <1>4, <2>3, IdIsRead DEF InitialisedIds
  <2>5. PlaceInv'
    BY <2>2 DEF PlaceInv, Initialiser
  <2>6. ~EndsWell'
    BY <2>2 DEF EndsWell
  <2>7. FoundInv'
    BY <1>3, <2>2, <2>4, <2>6 DEF FoundInv
  <2>8. TableInv' /\ BridgeInv' /\ DecodeInv'
    BY <2>2, <2>6 DEF TableInv, BridgeInv, DecodeInv
  <2> QED
    BY <2>5, <2>7, <2>8 DEF SetupInv
<1> QED
  BY <1>2, <1>5, <1>6

(* It is looked up, and the chip is entered again. *)
LEMMA Enter1800Setup ==
  ASSUME SuperInv, SetupInv, RegsInv, Unprobe1800 \/ Enter1800 \/ Skipped1800
  PROVE  SetupInv'
<1>0. ProgInv /\ PlaceInv /\ FoundInv /\ prog.k \in Nat /\ ChipInv
  BY DEF SuperInv, SetupInv, ProgInv
<1>1. prog.pc \in {"unprobe1800", "enter1800", "skipped"}
  BY DEF Unprobe1800, Enter1800, Skipped1800
<1>2. prog.name = "tosh1800" /\ done = "none"
  BY <1>0, <1>1, WhoseStep DEF PlaceInv
<1>3. regs' = regs /\ chip' = chip
  BY DEF Unprobe1800, Enter1800, Skipped1800, hardware
<1>4. \/ Ends("failed")
      \/ prog.pc = "unprobe1800" /\ prog.k = 1 /\ GoesTo("enter1800", 1)
      \/ /\ prog.pc = "enter1800" /\ open' = Unlocked(prog.port, <<\h55>>)
         /\ GoesTo("regs", 1)
  BY Zenon DEF Unprobe1800, Enter1800, Skipped1800
<1>5. CASE Ends("failed")
  <2>1. After("end", prog.k, prog.port) /\ done' = "failed"
    BY <1>0, <1>5, MovesAfter
  <2> QED
    BY <1>1, <2>1, SetupOver
<1>6. CASE prog.pc = "unprobe1800" /\ prog.k = 1 /\ GoesTo("enter1800", 1)
  <2>1. /\ prog'.name = "tosh1800" /\ prog'.pc = "enter1800" /\ prog'.k = 1
        /\ prog'.port = prog.port /\ done' = "none"
    BY <1>0, <1>2, <1>6, MovesAfter DEF After
  <2>2. PlaceInv' /\ ~EndsWell'
    BY <2>1 DEF PlaceInv, Initialiser, EndsWell
  <2>3. FoundInv'
    BY <1>0, <1>3, <1>6, <2>1, <2>2 DEF FoundInv
  <2>4. TableInv' /\ BridgeInv' /\ DecodeInv'
    BY <2>1, <2>2 DEF TableInv, BridgeInv, DecodeInv
  <2> QED
    BY <2>2, <2>3, <2>4 DEF SetupInv
<1>7. CASE /\ prog.pc = "enter1800" /\ open' = Unlocked(prog.port, <<\h55>>)
           /\ GoesTo("regs", 1)
  <2>1. /\ prog'.name = "tosh1800" /\ prog'.pc = "regs" /\ prog'.k = 1
        /\ prog'.port = prog.port /\ done' = "none"
    BY <1>0, <1>2, <1>7, MovesAfter DEF After
  <2>2. prog.port = chip.base /\ regs[\h0D] \in InitialisedIds
    BY <1>0, <1>7 DEF FoundInv
  <2>3. open'
    <3>1. chip.key = <<\h55>>
      BY <2>2, IdChip
    <3>2. <<\h55>> \in Seq(Nat) /\ Len(<<\h55>>) = 1
      OBVIOUS
    <3>3. SubSeq(<<\h55>>, 1, Len(<<\h55>>)) = <<\h55>>
      BY <3>2, SubSeqFull, Zenon
    <3> QED
      BY <1>7, <2>2, <3>1, <3>2, <3>3 DEF Unlocked
  <2>4. ~EndsWell'
    BY <2>1 DEF EndsWell
  <2>5. PlaceInv'
    <3>0. Len(OrderOf("tosh1800")) \in Nat /\ Len(OrderOf("tosh1800")) > 0
      BY OrderLen
    <3>1. 1 \in 1 .. Len(OrderOf("tosh1800"))
      BY <3>0
    <3> QED
      BY <2>1, <3>1 DEF PlaceInv, Initialiser
  <2>6. FoundInv'
    BY <1>3, <2>1, <2>2, <2>3, <2>4 DEF FoundInv
  <2>7. TableInv' /\ BridgeInv' /\ DecodeInv'
    BY <2>1, <2>4 DEF TableInv, BridgeInv, DecodeInv
  <2> QED
    BY <2>5, <2>6, <2>7 DEF SetupInv
<1> QED
  BY <1>4, <1>5, <1>6, <1>7

(* The registers of the bridge with the ports. *)
LEMMA AliRegs ==
  ASSUME NEW p \in DOMAIN AliPorts
  PROVE  AliPorts[p].reg \in {"B0", "B4"} /\ AliPorts[p].mask \subseteq Word
BY DEF AliPorts, Bits, Word

(* Decoding a port keeps those that are decoded. *)
LEMMA DecodedKept ==
  ASSUME RegsInv, NEW p, set_ali1533_port(p)
  PROVE  /\ Decoded(bridge', p)
         /\ \A q : Decoded(bridge, q) => Decoded(bridge', q)
         /\ bridge' \in [BridgeReg -> SUBSET Word]
<1>1. bridge \in [BridgeReg -> SUBSET Word] /\ {"B0", "B4"} \subseteq BridgeReg
  BY DEF RegsInv, BridgeReg
<1>2. CASE p \notin DOMAIN AliPorts
  BY <1>1, <1>2 DEF set_ali1533_port, Decoded
<1>3. CASE p \in DOMAIN AliPorts
  <2>1. PICK r, m : r = AliPorts[p].reg /\ m = AliPorts[p].mask
    OBVIOUS
  <2>2. r \in BridgeReg /\ m \subseteq Word
    BY <1>1, <1>3, <2>1, AliRegs
  <2>3. bridge' = [bridge EXCEPT ![r] = @ \cup m]
    BY <1>3, <2>1 DEF set_ali1533_port
  <2>4. /\ m \subseteq bridge'[r]
        /\ \A s \in BridgeReg : bridge[s] \subseteq bridge'[s]
        /\ bridge' \in [BridgeReg -> SUBSET Word]
    BY <1>1, <2>2, <2>3
  <2>5. ASSUME NEW q, Decoded(bridge, q)
        PROVE  Decoded(bridge', q)
    <3>1. q \in DOMAIN AliPorts => AliPorts[q].reg \in BridgeReg
      BY <1>1, AliRegs
    <3> QED
      BY <2>4, <2>5, <3>1 DEF Decoded
  <2>6. Decoded(bridge', p)
    BY <2>1, <2>4 DEF Decoded
  <2> QED
    BY <2>4, <2>5, <2>6
<1> QED
  BY <1>2, <1>3

(* The decoding of the two ports. *)
LEMMA DecodeSetup ==
  ASSUME SuperInv, SetupInv, RegsInv, Decode1800
  PROVE  SetupInv'
<1>0. /\ ProgInv /\ PlaceInv /\ FoundInv /\ TableInv /\ DecodeInv /\ prog.pc = "decode"
      /\ prog.k \in {1, 2}
  BY DEF SuperInv, SetupInv, PlaceInv, Decode1800
<1>1. prog.name = "tosh1800" /\ done = "none"
  BY <1>0, WhoseStep DEF PlaceInv
<1>2. regs' = regs /\ chip' = chip /\ open' = open
  BY DEF Decode1800, hardware
<1> DEFINE p == IF prog.k = 1 THEN prog.args.sir ELSE prog.args.fir
<1>3. \/ Ends("failed")
      \/ prog.args.print /\ Ends("ok")
      \/ /\ set_ali1533_port(p)
         /\ \/ prog.k = 1 /\ GoesTo("decode", 2)
            \/ prog.k # 1 /\ Ends("ok")
  BY Zenon DEF Decode1800
<1>4. ~open /\ Held(regs, TableOf(prog.name, prog.args))
  BY <1>0 DEF FoundInv, TableInv
<1>5. CASE Ends("failed")
  <2>1. After("end", prog.k, prog.port) /\ done' = "failed"
    BY <1>0, <1>5, MovesAfter
  <2> QED
    BY <1>0, <2>1, SetupOver
<1>6. ASSUME NEW pc \in {"decode", "end"}, NEW k, NEW port, After(pc, k, port),
             pc = "decode" => done' = "none" /\ k = 2 /\ Decoded(bridge', prog.args.sir),
             pc = "end" => \/ prog.args.print
                           \/ Decoded(bridge', prog.args.sir) /\ Decoded(bridge', prog.args.fir)
      PROVE  SetupInv'
  <2>1. /\ prog'.name = prog.name /\ prog'.args = prog.args /\ prog'.pc = pc /\ prog'.k = k
    BY <1>6 DEF After
  <2>2. PlaceInv'
    BY <1>1, <1>6, <2>1 DEF PlaceInv, Initialiser
  <2>3. FoundInv'
    BY <1>2, <1>4, <1>6, <2>1 DEF FoundInv
  <2>4. TableInv'
    BY <1>2, <1>4, <1>6, <2>1 DEF TableInv
  <2>5. BridgeInv'
    BY <1>1, <2>1 DEF BridgeInv
  <2>6. DecodeInv'
    BY <1>6, <2>1 DEF DecodeInv, EndsWell
  <2> QED
    BY <2>2, <2>3, <2>4, <2>5, <2>6 DEF SetupInv
<1>7. CASE prog.args.print /\ Ends("ok")
  <2>1. After("end", prog.k, prog.port)
    BY <1>0, <1>7, MovesAfter
  <2> QED
    BY <1>6, <1>7, <2>1
<1>8. CASE /\ set_ali1533_port(p)
           /\ \/ prog.k = 1 /\ GoesTo("decode", 2)
              \/ prog.k # 1 /\ Ends("ok")
  <2>1. /\ Decoded(bridge', p)
        /\ \A q : Decoded(bridge, q) => Decoded(bridge', q)
    <3> HIDE DEF p
    <3> QED
      BY <1>8, DecodedKept
  <2>2. CASE prog.k = 1 /\ GoesTo("decode", 2)
    <3>1. After("decode", 2, prog.port) /\ done' = "none"
      BY <1>0, <1>1, <2>2, MovesAfter
    <3> QED
      BY <1>6, <2>1, <2>2, <3>1
  <2>3. CASE prog.k # 1 /\ Ends("ok")
    <3>1. After("end", prog.k, prog.port)
      BY <1>0, <2>3, MovesAfter
    <3>2. Decoded(bridge, prog.args.sir)
      BY <1>0, <1>1, <2>3 DEF DecodeInv
    <3> QED
      BY <1>6, <2>1, <2>3, <3>1, <3>2
  <2> QED
    BY <1>8, <2>2, <2>3
<1> QED
  BY <1>3, <1>5, <1>7, <1>8

(* findchip's steps. *)
LEMMA FindSetup ==
  ASSUME SuperInv, SetupInv, FindChipStep
  PROVE  SetupInv'
<1>0. ProgInv /\ PlaceInv /\ prog.k \in Nat
  BY DEF SuperInv, SetupInv, ProgInv
<1>1. prog.pc \in FindPc
  BY Zenon DEF FindChipStep, Ioperm, Knock, Read, Relock, FindPc
<1>2. prog.name = "findchip" /\ done = "none"
  BY <1>0, <1>1 DEF ProgInv, PlaceInv, FindPc
<1>3. \/ \E how : Ends(how)
      \/ GoesTo("read", prog.k)
      \/ GoesTo("relock", prog.k)
      \/ \E over : prog' = [prog EXCEPT !.pc = "relock", !.port = over] /\ done' = done
      \/ \E stop : NextTry(0, stop) \/ NextTry(prog.k, stop)
  BY Zenon DEF FindChipStep, Ioperm, Knock, Read, Relock
<1>4. ASSUME NEW over, prog' = [prog EXCEPT !.pc = "relock", !.port = over]
      PROVE  Moves("relock", prog.k, over)
  <2>1. PICK n \in {prog.name}, a \in {prog.args}, c \in {prog.pc}, i \in {prog.k},
             t \in {prog.port}, w \in {prog.wasOpen} :
          prog = [name |-> n, args |-> a, pc |-> c, k |-> i, port |-> t, wasOpen |-> w]
    BY <1>0, Zenon DEF ProgInv
  <2> QED
    BY <1>4, <2>1 DEF Moves
<1>5. \E pc \in {"end", "read", "relock", "knock"} : \E k, port :
        After(pc, k, port) /\ (pc # "end" => done' = "none")
  <2>1. CASE \E how : Ends(how)
    BY <1>0, <2>1, MovesAfter
  <2>2. CASE GoesTo("read", prog.k) \/ GoesTo("relock", prog.k)
    BY <1>0, <1>2, <2>2, MovesAfter
  <2>3. ASSUME NEW over, prog' = [prog EXCEPT !.pc = "relock", !.port = over], done' = done
        PROVE  After("relock", prog.k, over) /\ done' = "none"
    BY <1>0, <1>2, <1>4, <2>3, MovesAfter
  <2>4. ASSUME NEW stop, NEW k \in Nat, NextTry(k, stop)
        PROVE  \E pc \in {"end", "read", "knock"} : \E j, port :
                 After(pc, j, port) /\ (pc # "end" => done' = "none")
    <3>1. \/ Moves("end", prog.k, prog.port) /\ done' = "ok"
          \/ \E pc \in {"read", "knock"}, j \in 1 .. Len(Tries), port \in {0} :
               Moves(pc, j, port) /\ j > k /\ done' = done
      BY <1>0, <2>4, NextTryMoves
    <3> QED
      BY <1>0, <1>2, <3>1, MovesAfter
  <2> QED
    BY <1>0, <1>3, <2>1, <2>2, <2>3, <2>4
<1>6. ASSUME NEW pc \in {"end", "read", "relock", "knock"}, NEW k, NEW port,
             After(pc, k, port), pc # "end" => done' = "none"
      PROVE  SetupInv'
  BY <1>2, <1>6, SetupFind DEF FindPc
<1> QED
  BY <1>5, <1>6

(* Initially nothing is promised. *)
LEMMA InitSetup ==
  ASSUME Init
  PROVE  SetupInv
<1>1. prog.name = "none" /\ prog.pc = "none" /\ done = "none"
  BY DEF Init, SuperInit, Idle
<1>2. PlaceInv /\ FoundInv /\ TableInv /\ BridgeInv /\ DecodeInv
  BY <1>1 DEF PlaceInv, FoundInv, TableInv, BridgeInv, DecodeInv, EndsWell, Initialiser
<1> QED
  BY <1>2 DEF SetupInv

(* Every step keeps what is promised. *)
LEMMA NextSetup ==
  ASSUME SuperInv, SetupInv, RegsInv, [Next]_vars
  PROVE  SetupInv'
<1>0. ProgInv
  BY DEF SuperInv
<1>1. CASE StartSmcInit \/ StartFindChip
  BY <1>1, StartSetup
<1>2. CASE SmcInitStep
  BY <1>2, HubSetup, BridgeSetup, ProbeSetup, RegSetup, LeaveSetup, Probe1800Setup,
     Enter1800Setup, DecodeSetup DEF SmcInitStep
<1>3. CASE FindChipStep
  BY <1>3, FindSetup
<1>4. CASE Kill
  <2>1. prog.pc # "none" /\ Ends("killed")
    BY <1>4 DEF Kill
  <2>2. After("end", prog.k, prog.port) /\ done' = "killed"
    BY <1>0, <2>1, MovesAfter
  <2> QED
    BY <2>1, <2>2, SetupOver
<1>5. CASE Reap
  <2>1. prog'.name = "none" /\ prog'.pc = "none" /\ done' = "none"
    BY <1>5 DEF Reap, Idle
  <2>2. PlaceInv' /\ ~EndsWell'
    BY <2>1 DEF PlaceInv, Initialiser, EndsWell
  <2>3. FoundInv' /\ TableInv' /\ BridgeInv' /\ DecodeInv'
    BY <2>1, <2>2 DEF FoundInv, TableInv, BridgeInv, DecodeInv
  <2> QED
    BY <2>2, <2>3 DEF SetupInv
<1>6. CASE UNCHANGED vars
  BY <1>6 DEF vars, SetupInv, PlaceInv, FoundInv, TableInv, BridgeInv, DecodeInv, EndsWell
<1> QED
  BY <1>1, <1>2, <1>3, <1>4, <1>5, <1>6 DEF Next
-----------------------------------------------------------------------------
(* A step that writes only what programs may write. *)
LEMMA KeepsRegs ==
  ASSUME RegsInv, chip' = chip, regs' \in [Reg -> SUBSET Byte],
         bridge' \in [BridgeReg -> SUBSET Word],
         \A r \in Reg \ {\h07, IRCC_MASTER} :
           regs'[r] = regs[r] \/ (r \in SmcRegs /\ regs[\h0D] \in InitialisedIds)
  PROVE  RegsInv'
<1>1. PICK m \in Machines : Built(m)
  BY DEF RegsInv
<1>2. \h0D \in Reg \ {\h07, IRCC_MASTER} /\ \h0D \notin SmcRegs
  BY DEF Reg, IRCC_MASTER, SmcRegs
<1>3. regs[\h0D] = m.regs[\h0D]
  BY <1>1, <1>2 DEF Built
<1>4. Built(m)'
  BY <1>1, <1>3 DEF Built
<1> QED
  BY <1>4 DEF RegsInv

(* A step that writes nothing. *)
LEMMA SameRegs ==
  ASSUME RegsInv, chip' = chip, regs' = regs, bridge' = bridge
  PROVE  RegsInv'
BY KeepsRegs DEF RegsInv

(* One register of the bridge. *)
LEMMA BridgeRegs ==
  ASSUME SetupInv, RegsInv, BridgeStep
  PROVE  RegsInv'
<1>0. prog.pc = "bridge" /\ prog.k \in 1 .. 4
  BY DEF SetupInv, PlaceInv, BridgeStep
<1> DEFINE t == BridgeTable(prog.name)
           w == t[prog.k]
<1>1. bridge' = [bridge EXCEPT ![w.reg] = (@ \cap w.keep) \cup w.put]
  BY DEF BridgeStep
<1>2. w.put \subseteq Word
  <2>1. \A n : Bits(n) \subseteq Word
    BY DEF Bits
  <2>2. /\ t[1].put = Bits(\h10) /\ t[2].put = {0} /\ t[4].put = Bits(\h131)
        /\ t[3].put = Bits(\hC0C0) \/ t[3].put = Bits(\hC00C)
    BY DEF BridgeTable, Write, WriteIf, Modify
  <2>3. {0} \subseteq Word
    BY DEF Word
  <2> HIDE DEF t
  <2> QED
    BY <1>0, <2>1, <2>2, <2>3
<1> HIDE DEF t, w
<1>3. bridge \in [BridgeReg -> SUBSET Word] /\ regs \in [Reg -> SUBSET Byte]
  BY DEF RegsInv
<1>4. bridge' \in [BridgeReg -> SUBSET Word]
  BY <1>1, <1>2, <1>3
<1>5. chip' = chip /\ regs' = regs
  BY DEF BridgeStep, hardware
<1> QED
  BY <1>3, <1>4, <1>5, KeepsRegs

(* One register of a table. *)
LEMMA RegStepRegs ==
  ASSUME SuperInv, SetupInv, RegsInv, RegStep
  PROVE  RegsInv'
<1>1. PICK t, k : t = TableOf(prog.name, prog.args) /\ k = prog.k
  OBVIOUS
<1>2. /\ t[k].reg \in SmcRegs /\ regs' \in [Reg -> SUBSET Byte]
      /\ \A r \in Reg \ {t[k].reg} : regs'[r] = regs[r]
  BY <1>1, RegStepFacts
<1>3. regs[\h0D] \in InitialisedIds
  BY DEF SetupInv, FoundInv, RegStep
<1>4. chip' = chip /\ bridge' = bridge /\ bridge \in [BridgeReg -> SUBSET Word]
  BY DEF RegStep, hardware, RegsInv
<1> QED
  BY <1>2, <1>3, <1>4, KeepsRegs

(* What findchip writes. *)
LEMMA ProbeWritesFacts ==
  ASSUME RegsInv, NEW t, NEW fir, ProbeWrites(t, fir)
  PROVE  /\ regs' \in [Reg -> SUBSET Byte]
         /\ \A r \in Reg \ {\h07, IRCC_MASTER} : regs'[r] = regs[r]
         /\ LogicalDevice(t) = {} => regs'[\h07] = regs[\h07]
<1>0. regs \in [Reg -> SUBSET Byte] /\ \h07 \in Reg /\ \h07 # IRCC_MASTER
  BY DEF RegsInv, Reg, IRCC_MASTER
<1>1. UNION {Bits(d) : d \in LogicalDevice(t)} \subseteq Byte
  <2>1. LogicalDevice(t) \subseteq {5, 6}
    BY DEF LogicalDevice
  <2>2. Bits(5) \subseteq Byte /\ Bits(6) \subseteq Byte
    BY BitsLow DEF Byte
  <2> QED
    BY <2>1, <2>2
<1>2. Bits(3) \subseteq Byte
  BY BitsLow DEF Byte
<1> DEFINE new(r) == CASE r = \h07 /\ LogicalDevice(t) # {} ->
                            UNION {Bits(d) : d \in LogicalDevice(t)}
                       [] r = IRCC_MASTER /\ t.fam = "SMC" /\ fir # 0 /\ Permitted(fir + 7) ->
                            (regs[r] \cap Bits(\hF0)) \cup Bits(3)
                       [] OTHER -> regs[r]
<1>3. regs' = [r \in Reg |-> new(r)]
  BY Zenon DEF ProbeWrites
<1>4. \A r \in Reg : new(r) \subseteq Byte
  BY <1>0, <1>1, <1>2
<1>5. /\ \A r \in Reg \ {\h07, IRCC_MASTER} : new(r) = regs[r]
      /\ LogicalDevice(t) = {} => new(\h07) = regs[\h07]
  BY <1>0
<1> HIDE DEF new
<1> QED
  BY <1>0, <1>3, <1>4, <1>5

(* findchip's reading. *)
LEMMA ReadRegs ==
  ASSUME RegsInv, Read
  PROVE  RegsInv'
<1>1. \/ regs' = regs
      \/ \E t, fir : ProbeWrites(t, fir)
  BY Zenon DEF Read
<1>2. chip' = chip /\ bridge' = bridge
  BY Zenon DEF Read, hardware
<1>3. CASE regs' = regs
  BY <1>2, <1>3, SameRegs
<1>4. ASSUME NEW t, NEW fir, ProbeWrites(t, fir)
      PROVE  RegsInv'
  <2>1. /\ regs' \in [Reg -> SUBSET Byte]
        /\ \A r \in Reg \ {\h07, IRCC_MASTER} : regs'[r] = regs[r]
    BY <1>4, ProbeWritesFacts
  <2> QED
    BY <1>2, <2>1, KeepsRegs DEF RegsInv
<1> QED
  BY <1>1, <1>3, <1>4

(* The decoding of a port. *)
LEMMA DecodeRegs ==
  ASSUME RegsInv, Decode1800
  PROVE  RegsInv'
<1>1. \/ bridge' = bridge
      \/ \E p : set_ali1533_port(p)
  BY Zenon DEF Decode1800
<1>2. bridge' \in [BridgeReg -> SUBSET Word]
  BY <1>1, DecodedKept DEF RegsInv
<1>3. chip' = chip /\ regs' = regs /\ regs \in [Reg -> SUBSET Byte]
  BY DEF Decode1800, hardware, RegsInv
<1> QED
  BY <1>2, <1>3, KeepsRegs

(* The registers are those the machine was built with. *)
LEMMA InitRegs ==
  ASSUME Init
  PROVE  RegsInv
<1>1. PICK m \in Machines :
        /\ chip = [kind |-> m.kind, base |-> m.base, key |-> m.key, exit |-> m.exit]
        /\ regs = m.regs
  BY DEF Init, SuperInit
<1>2. regs \in [Reg -> SUBSET Byte]
  BY <1>1, IdAssumption
<1>3. bridge = [r \in BridgeReg |-> {}]
  BY DEF Init, SuperInit
<1>4. bridge \in [BridgeReg -> SUBSET Word]
  BY <1>3
<1>5. Built(m)
  BY <1>1 DEF Built
<1> QED
  BY <1>2, <1>4, <1>5 DEF RegsInv

(* Every step writes only what it may. *)
LEMMA NextRegs ==
  ASSUME SuperInv, SetupInv, RegsInv, [Next]_vars
  PROVE  RegsInv'
<1>1. CASE StartSmcInit \/ StartFindChip \/ Kill \/ Reap
  <2>1. chip' = chip /\ regs' = regs /\ bridge' = bridge
    BY <1>1, Zenon DEF StartSmcInit, StartFindChip, Start, Kill, Reap, hardware
  <2> QED
    BY <2>1, SameRegs
<1>2. CASE \/ UnbindTty \/ HubCheck \/ ProbeStep \/ LeaveStep
           \/ Skipped1800 \/ Probe1800 \/ Unprobe1800 \/ Enter1800
           \/ Ioperm \/ Knock \/ Relock
  <2>1. chip' = chip /\ regs' = regs /\ bridge' = bridge
    BY <1>2, Zenon DEF UnbindTty, HubCheck, ProbeStep, LeaveStep,
       Skipped1800, Probe1800, Unprobe1800, Enter1800, Ioperm, Knock, Relock, hardware
  <2> QED
    BY <2>1, SameRegs
<1>3. CASE BridgeStep \/ RegStep \/ Read \/ Decode1800
  BY <1>3, BridgeRegs, RegStepRegs, ReadRegs, DecodeRegs
<1>4. CASE UNCHANGED vars
  BY <1>4, SameRegs DEF vars
<1> QED
  BY <1>1, <1>2, <1>3, <1>4 DEF Next, SmcInitStep, FindChipStep
-----------------------------------------------------------------------------
(* A try of findchip's table: an SMC chip, an NSC chip or a way to unlock  *)
(* a Winbond chip, and the registers in which it looks for an id.          *)
TryShape(t) ==
  \/ /\ t.fam = "SMC" /\ t.chip.cid \in {\h0D, \h20}
     /\ t.chip.id \in {\h03, \h04, \h29, \h07, \h09}
  \/ t.fam = "NSC" /\ t.chip.cid \in {\h05, \h08}
  \/ t.fam = "WINBOND"

(* All tries have this shape. *)
LEMMA TriesShape ==
  ASSUME NEW k \in 1 .. Len(Tries)
  PROVE  TryShape(Tries[k])
<1> DEFINE A == [i \in 1 .. 12 |->
                   LET c == SmcChips[(i + 1) \div 2]
                   IN [fam |-> "SMC", chip |-> c, key |-> c.key, end |-> \hAA,
                       port |-> IF i % 2 = 1 THEN \h3F0 ELSE \h370]]
           B == [i \in 1 .. 6 |->
                   LET c == NscChips[(i + 2) \div 3]
                   IN [fam |-> "NSC", chip |-> c, key |-> <<>>, end |-> -1,
                       port |-> c.ports[((i - 1) % 3) + 1]]]
           S == {A[i] : i \in 1 .. 12} \cup {B[i] : i \in 1 .. 6}
                  \cup {Efers[i] : i \in 1 .. 6}
<1>1. DOMAIN A = 1 .. 12 /\ DOMAIN B = 1 .. 6 /\ Tries = A \o B \o Efers
  BY Zenon DEF Tries
<1>2. Efers \in Seq({Efers[i] : i \in 1 .. 6})
  BY DEF Efers
<1>3. \A i \in 1 .. 12 : TryShape(A[i])
  <2>1. \A j \in 1 .. 6 : /\ SmcChips[j].cid \in {\h0D, \h20}
                          /\ SmcChips[j].id \in {\h03, \h04, \h29, \h07, \h09}
    BY DEF SmcChips
  <2>2. \A i \in 1 .. 12 : (i + 1) \div 2 \in 1 .. 6
    OBVIOUS
  <2>3. ASSUME NEW i \in 1 .. 12
        PROVE  TryShape(A[i])
    <3>1. A[i].fam = "SMC" /\ A[i].chip = SmcChips[(i + 1) \div 2]
      OBVIOUS
    <3> HIDE DEF A
    <3> QED
      BY <2>1, <2>2, <3>1 DEF TryShape
  <2> QED
    BY <2>3
<1>4. \A i \in 1 .. 6 : TryShape(B[i])
  <2>1. \A j \in 1 .. 2 : NscChips[j].cid \in {\h05, \h08}
    BY DEF NscChips
  <2>2. \A i \in 1 .. 6 : (i + 2) \div 3 \in 1 .. 2
    OBVIOUS
  <2>3. ASSUME NEW i \in 1 .. 6
        PROVE  TryShape(B[i])
    <3>1. B[i].fam = "NSC" /\ B[i].chip = NscChips[(i + 2) \div 3]
      OBVIOUS
    <3> HIDE DEF B
    <3> QED
      BY <2>1, <2>2, <3>1 DEF TryShape
  <2> QED
    BY <2>3
<1>5. \A i \in 1 .. 6 : TryShape(Efers[i])
  BY SMTT(60) DEF TryShape, Efers, Efer
<1>8. A \in [1 .. 12 -> {A[i] : i \in 1 .. 12}] /\ B \in [1 .. 6 -> {B[i] : i \in 1 .. 6}]
  OBVIOUS
<1> HIDE DEF A, B
<1>6. Tries \in Seq(S)
  <2>1. A \in Seq(S) /\ B \in Seq(S) /\ Efers \in Seq(S)
    <3>1. A \in [1 .. 12 -> S] /\ B \in [1 .. 6 -> S]
      BY <1>8
    <3>2. {Efers[i] : i \in 1 .. 6} \subseteq S
      OBVIOUS
    <3>3. Efers \in Seq(S)
      <4> HIDE DEF S
      <4> QED
        BY <1>2, <3>2, SeqMonotonic
    <3> HIDE DEF S
    <3>4. \A n \in Nat : [1 .. n -> S] \subseteq Seq(S)
      BY SeqDef, Zenon
    <3> QED
      BY <3>1, <3>3, <3>4
  <2> HIDE DEF S
  <2>2. A \o B \in Seq(S)
    BY <2>1, ConcatProperties
  <2> QED
    BY <1>1, <2>1, <2>2, ConcatProperties
<1>7. \A s \in S : TryShape(s)
  BY <1>3, <1>4, <1>5
<1> HIDE DEF S
<1> QED
  BY <1>6, <1>7, ElementOfSeq

(* The registers with ids, and with the bits compared for a Winbond chip. *)
IdRegs == {\h05, \h08, \h09, \h0C, \h0D, \h16, \h20, \h21, \h26}

(* Only these matter. *)
LEMMA SameIds ==
  ASSUME NEW t, TryShape(t), NEW f, NEW g, \A r \in IdRegs : f[r] = g[r]
  PROVE  (Recognised(f, t) => Recognised(g, t)) /\ NameOf(f, t) = NameOf(g, t)
<1>1. /\ f[\h05] = g[\h05] /\ f[\h08] = g[\h08] /\ f[\h09] = g[\h09] /\ f[\h0C] = g[\h0C]
      /\ f[\h0D] = g[\h0D] /\ f[\h16] = g[\h16] /\ f[\h20] = g[\h20] /\ f[\h21] = g[\h21]
      /\ f[\h26] = g[\h26]
  BY DEF IdRegs
<1>2. t.fam \in {"SMC", "NSC"} => f[t.chip.cid] = g[t.chip.cid]
  BY <1>1 DEF TryShape
<1>3. Recognised(f, t) => Recognised(g, t)
  <2>1. CASE t.fam = "SMC"
    BY <1>2, <2>1 DEF Recognised
  <2>2. CASE t.fam = "NSC"
    BY <1>2, <2>2 DEF Recognised
  <2>3. CASE t.fam = "WINBOND"
    BY <1>1, <2>3 DEF Recognised
  <2> QED
    BY <2>1, <2>2, <2>3 DEF TryShape
<1>4. NameOf(f, t) = NameOf(g, t)
  BY <1>1 DEF NameOf
<1> QED
  BY <1>3, <1>4

(* What is recognised is there and open: the 0xff of an empty port is the  *)
(* id of no chip.                                                          *)
LEMMA FoundIsThere ==
  ASSUME RegsInv, NEW t, TryShape(t), Identified(t)
  PROVE  open /\ Fits(t, chip.base, regs)
<1> DEFINE f == [r \in Reg |-> In(t.port, r)]
<1>0. Recognised(f, t) /\ (t.fam = "NSC" => open /\ t.port = chip.base)
  BY DEF Identified
<1>1. ASSUME ~(open /\ t.port = chip.base)
      PROVE  FALSE
  <2>1. \A r \in Reg : f[r] = Byte
    BY <1>1 DEF In, InOf
  <2>2. IdRegs \subseteq Reg
    BY DEF IdRegs, Reg
  <2> HIDE DEF f
  <2>3. f[\h0D] = Byte /\ f[\h20] = Byte /\ f[\h09] = Byte
    BY <2>1, <2>2 DEF IdRegs
  <2>4. CASE t.fam = "SMC"
    <3>1. 7 \notin Bits(t.chip.id)
      BY <2>4, BitsLow, BitsMiddle DEF TryShape
    <3>2. f[t.chip.cid] = Byte
      BY <2>3, <2>4 DEF TryShape
    <3>3. f[t.chip.cid] = Bits(t.chip.id)
      BY <1>0, <2>4, Zenon DEF Recognised
    <3> QED
      BY <3>1, <3>2, <3>3 DEF Byte
  <2>5. CASE t.fam = "WINBOND"
    <3>1. Byte # Bits(\h97)
      BY BitsHigh DEF Byte
    <3>2. Byte \cap Bits(\h0F) \notin WinbondIds
      <4>1. Byte \cap Bits(\h0F) = {0, 1, 2, 3}
        BY BitsLow DEF Byte
      <4> QED
        BY <4>1, WinbondBits
    <3>3. f[\h20] = Bits(\h97) \/ f[\h09] \cap Bits(\h0F) \in WinbondIds
      BY <1>0, <2>5 DEF Recognised
    <3> QED
      BY <2>3, <3>1, <3>2, <3>3
  <2> QED
    BY <1>0, <1>1, <2>4, <2>5 DEF TryShape
<1>2. f = regs
  BY <1>1 DEF RegsInv, In, InOf
<1> QED
  BY <1>0, <1>1, <1>2 DEF Fits

(* What fits the chip is the try of its own kind, and one only. *)
LEMMA Fitting ==
  ASSUME RegsInv, NEW k \in 1 .. Len(Tries), Fits(Tries[k], chip.base, regs)
  PROVE  /\ NameOf(regs, Tries[k]) = chip.kind
         /\ LogicalDevice(Tries[k]) # {} => chip.kind \in HasLogicalDevices
         /\ \A j \in 1 .. Len(Tries) : Fits(Tries[j], chip.base, regs) => j = k
<1>1. PICK m \in Machines : Built(m)
  BY DEF RegsInv
<1>2. /\ m.regs \in [Reg -> SUBSET Byte]
      /\ m.regs[\h0D] \in InitialisedIds =>
           \A j \in 1 .. Len(Tries), v \in SUBSET Byte :
             ~Fits(Tries[j], m.base, [m.regs EXCEPT ![\h0C] = v])
      /\ \A j \in 1 .. Len(Tries) : Fits(Tries[j], m.base, m.regs) =>
           /\ NameOf(m.regs, Tries[j]) = m.kind
           /\ LogicalDevice(Tries[j]) # {} => m.kind \in HasLogicalDevices
           /\ \A i \in 1 .. Len(Tries) : Fits(Tries[i], m.base, m.regs) => i = j
  BY <1>1, IdAssumption
<1>3. /\ regs \in [Reg -> SUBSET Byte] /\ \h0C \in Reg
      /\ \A r \in IdRegs : r \in Reg \ {\h07, IRCC_MASTER} /\ (r \in SmcRegs => r = \h0C)
  <2>1. IdRegs \subseteq Reg \ {\h07, IRCC_MASTER}
    BY DEF IdRegs, Reg, IRCC_MASTER
  <2>2. \A r \in IdRegs : r \in SmcRegs => r = \h0C
    BY DEF IdRegs, SmcRegs
  <2>3. \h0C \in Reg
    BY DEF Reg
  <2> QED
    BY <2>1, <2>2, <2>3 DEF RegsInv
<1>4. chip.kind = m.kind /\ chip.base = m.base
  BY <1>1 DEF Built
<1>5. ASSUME m.regs[\h0D] \in InitialisedIds
      PROVE  FALSE
  <2> DEFINE v == regs[\h0C]
             g == [m.regs EXCEPT ![\h0C] = v]
  <2>1. v \in SUBSET Byte
    BY <1>3
  <2>2. \A r \in IdRegs : regs[r] = g[r]
    BY <1>1, <1>2, <1>3 DEF Built
  <2>3. ~Fits(Tries[k], m.base, g)
    BY <1>2, <1>5, <2>1
  <2> HIDE DEF v, g
  <2>4. Recognised(regs, Tries[k]) => Recognised(g, Tries[k])
    BY <2>2, TriesShape, SameIds
  <2> QED
    BY <1>4, <2>3, <2>4 DEF Fits
<1>6. \A r \in IdRegs : regs[r] = m.regs[r]
  BY <1>1, <1>3, <1>5 DEF Built
<1>7. \A j \in 1 .. Len(Tries) :
        /\ Fits(Tries[j], chip.base, regs) => Fits(Tries[j], m.base, m.regs)
        /\ NameOf(regs, Tries[j]) = NameOf(m.regs, Tries[j])
  BY <1>4, <1>6, TriesShape, SameIds DEF Fits
<1> QED
  BY <1>2, <1>4, <1>7

(* The tries findchip has still to make. *)
Ahead == CASE prog.pc \in {"knock", "read"} -> prog.k .. Len(Tries)
           [] prog.pc = "relock" -> prog.k + 1 .. Len(Tries)
           [] OTHER -> {}

(* Something is printed only by findchip and only once: after that, no try *)
(* that is still ahead fits the chip.                                      *)
ReportInv ==
  \/ reports = {}
  \/ /\ prog.name = "findchip" /\ prog.pc \in {"knock", "read", "relock", "end"}
     /\ \E i : reports = {i} /\ i.name = chip.kind /\ i.base = chip.base
     /\ \A k \in Ahead : ~Fits(Tries[k], chip.base, regs)

(* What is printed has the name and the port of the chip that fits. *)
LEMMA DescribedAs ==
  ASSUME RegsInv, NEW t, TryShape(t), open, t.port = chip.base, NEW i \in Described(t)
  PROVE  i.base = t.port /\ i.name = NameOf(regs, t)
<1>2. \A name, p : probe_69(name, p).name = name /\ probe_69(name, p).base = p
  BY DEF probe_69, Info
<1>3. \A name, p : probe_58(name, p).name = name /\ probe_58(name, p).base = p
  BY DEF probe_58, Info
<1>4. \A name, p : nsc_probe_108(name, p).name = name /\ nsc_probe_108(name, p).base = p
  BY DEF nsc_probe_108, Info
<1>5. \A name, p : nsc_probe_338(name, p).name = name /\ nsc_probe_338(name, p).base = p
  BY DEF nsc_probe_338, Info
<1>6. \A p : w83977_info(p).name = WinbondChips[In(p, \h21)] /\ w83977_info(p).base = p
  BY DEF w83977_info, Info
<1>7. \A p, d : /\ w83877_info(p, d).name = WinbondChips[In(p, \h09) \cap Bits(\h0F)]
               /\ w83877_info(p, d).base = p
  BY DEF w83877_info, Info
<1>8. In(t.port, \h21) = regs[\h21] /\ In(t.port, \h09) = regs[\h09]
  BY DEF In, InOf
<1>9. CASE t.fam = "SMC"
  <2>1. i = probe_69(t.chip.name, t.port) \/ i = probe_58(t.chip.name, t.port)
    BY <1>9 DEF Described
  <2>2. i.name = t.chip.name /\ i.base = t.port
    BY <1>2, <1>3, <2>1
  <2> QED
    BY <1>9, <2>2 DEF NameOf
<1>10. CASE t.fam = "NSC"
  <2>1. i = nsc_probe_108(t.chip.name, t.port) \/ i = nsc_probe_338(t.chip.name, t.port)
    BY <1>10 DEF Described
  <2>2. i.name = t.chip.name /\ i.base = t.port
    BY <1>4, <1>5, <2>1
  <2> QED
    BY <1>10, <2>2 DEF NameOf
<1>11. CASE t.fam = "WINBOND" /\ t.chip.type = "W83977"
  <2>1. i = w83977_info(t.port)
    BY <1>11 DEF Described
  <2>2. i.name = WinbondChips[In(t.port, \h21)] /\ i.base = t.port
    BY <1>6, <2>1
  <2> QED
    BY <1>8, <1>11, <2>2 DEF NameOf
<1>12. CASE t.fam = "WINBOND" /\ t.chip.type # "W83977"
  <2>1. \E d : i = w83877_info(t.port, d)
    BY <1>12 DEF Described
  <2>2. i.name = WinbondChips[In(t.port, \h09) \cap Bits(\h0F)] /\ i.base = t.port
    BY <1>7, <2>1
  <2> QED
    BY <1>8, <1>12, <2>2 DEF NameOf
<1> QED
  BY <1>9, <1>10, <1>11, <1>12 DEF TryShape

(* A step that prints nothing and makes the tries ahead fewer. *)
LEMMA SameReport ==
  ASSUME ReportInv, chip' = chip, regs' = regs, reports' = reports, prog'.name = prog.name,
         prog.pc \in {"knock", "read", "relock", "end"}
           => prog'.pc \in {"knock", "read", "relock", "end"} /\ Ahead' \subseteq Ahead
  PROVE  ReportInv'
<1>1. CASE reports = {}
  BY <1>1 DEF ReportInv
<1>2. CASE reports # {}
  <2>1. /\ prog.name = "findchip" /\ prog.pc \in {"knock", "read", "relock", "end"}
        /\ \E i : reports = {i} /\ i.name = chip.kind /\ i.base = chip.base
        /\ \A k \in Ahead : ~Fits(Tries[k], chip.base, regs)
    BY <1>2 DEF ReportInv
  <2>2. /\ prog'.name = "findchip" /\ prog'.pc \in {"knock", "read", "relock", "end"}
        /\ \E i : reports' = {i} /\ i.name = chip'.kind /\ i.base = chip'.base
    BY <2>1
  <2>3. \A k \in Ahead' : ~Fits(Tries[k], chip.base, regs)'
    BY <2>1 DEF Fits
  <2> QED
    BY <2>2, <2>3 DEF ReportInv
<1> QED
  BY <1>1, <1>2

(* The next try is behind the present one. *)
LEMMA NextTryReport ==
  ASSUME ProgInv, ReportInv, chip' = chip, regs' = regs, reports' = reports,
         prog.pc \in {"ioperm", "relock"}, NEW k \in Nat, prog.pc = "relock" => k = prog.k,
         NEW stop, NextTry(k, stop)
  PROVE  ReportInv'
<1>1. \/ Moves("end", prog.k, prog.port)
      \/ \E pc \in {"read", "knock"}, j \in 1 .. Len(Tries), port \in {0} :
           Moves(pc, j, port) /\ j > k
  BY NextTryMoves
<1>2. CASE Moves("end", prog.k, prog.port)
  <2>1. prog'.pc = "end" /\ prog'.name = prog.name
    BY <1>2 DEF Moves
  <2>2. Ahead' = {}
    BY <2>1 DEF Ahead
  <2> QED
    BY <2>1, <2>2, SameReport
<1>3. ASSUME NEW pc \in {"read", "knock"}, NEW j \in 1 .. Len(Tries), NEW port,
             Moves(pc, j, port), j > k
      PROVE  ReportInv'
  <2>1. prog'.pc = pc /\ prog'.name = prog.name /\ prog'.k = j
    BY <1>3 DEF Moves
  <2>2. Ahead' = j .. Len(Tries)
    BY <1>3, <2>1 DEF Ahead
  <2>3. prog.pc = "relock" => Ahead = k + 1 .. Len(Tries)
    BY DEF Ahead
  <2>4. j .. Len(Tries) \subseteq k + 1 .. Len(Tries)
    BY <1>3, TriesLen
  <2> QED
    BY <1>3, <2>1, <2>2, <2>3, <2>4, SameReport
<1> QED
  BY <1>1, <1>2, <1>3

(* A chip is recognised, and printed if it has not been. *)
LEMMA ReadReport ==
  ASSUME SuperInv, RegsInv, ReportInv, Read
  PROVE  ReportInv'
<1>0. ProgInv /\ prog.pc = "read" /\ prog.k \in Nat /\ chip' = chip
  BY Zenon DEF SuperInv, ProgInv, Read, hardware
<1>1. prog.name = "findchip" /\ prog.k \in 1 .. Len(Tries)
  BY <1>0 DEF ProgInv, FindPc
<1>2. PICK k \in 1 .. Len(Tries) : k = prog.k
  BY <1>1
<1>3. PICK t : t = Tries[k]
  OBVIOUS
<1>4. TryShape(t)
  BY <1>3, TriesShape
<1>5. \/ ~Identified(t) /\ GoesTo("relock", prog.k) /\ regs' = regs /\ reports' = reports
      \/ /\ Identified(t)
         /\ \E i \in Described(t) :
              /\ ProbeWrites(t, i.fir)
              /\ \/ Ends("fault") /\ reports' = reports
                 \/ /\ reports' = reports \cup {i}
                    /\ \E over : prog' = [prog EXCEPT !.pc = "relock", !.port = over]
  BY <1>2, <1>3, Zenon DEF Read
<1>6. Ahead = k .. Len(Tries) /\ k \in Ahead
  BY <1>0, <1>2, TriesLen DEF Ahead
<1>7. CASE ~Identified(t) /\ GoesTo("relock", prog.k) /\ regs' = regs /\ reports' = reports
  <2>1. prog'.pc = "relock" /\ prog'.name = prog.name /\ prog'.k = k
    BY <1>0, <1>2, <1>7, MovesAfter DEF After
  <2>2. Ahead' = k + 1 .. Len(Tries)
    BY <2>1 DEF Ahead
  <2>3. Ahead' \subseteq Ahead
    BY <1>2, <1>6, <2>2, TriesLen
  <2> QED
    BY <1>0, <1>7, <2>1, <2>3, SameReport
<1>8. ASSUME Identified(t), NEW i \in Described(t), ProbeWrites(t, i.fir),
             \/ Ends("fault") /\ reports' = reports
             \/ /\ reports' = reports \cup {i}
                /\ \E over : prog' = [prog EXCEPT !.pc = "relock", !.port = over]
      PROVE  ReportInv'
  <2>1. open /\ Fits(t, chip.base, regs)
    BY <1>4, <1>8, FoundIsThere
  <2>2. reports = {}
    BY <1>3, <1>6, <2>1 DEF ReportInv
  <2>3. CASE Ends("fault") /\ reports' = reports
    BY <2>2, <2>3 DEF ReportInv
  <2>4. CASE /\ reports' = reports \cup {i}
             /\ \E over : prog' = [prog EXCEPT !.pc = "relock", !.port = over]
    <3>1. \E over : Moves("relock", prog.k, over)
      <4>1. PICK n \in {prog.name}, a \in {prog.args}, c \in {prog.pc}, j \in {prog.k},
                 p \in {prog.port}, w \in {prog.wasOpen} :
              prog = [name |-> n, args |-> a, pc |-> c, k |-> j, port |-> p, wasOpen |-> w]
        BY <1>0, Zenon DEF ProgInv
      <4> QED
        BY <2>4, <4>1 DEF Moves
    <3>2. prog'.pc = "relock" /\ prog'.name = "findchip" /\ prog'.k = k
      BY <1>1, <1>2, <3>1 DEF Moves
    <3>3. Ahead' = k + 1 .. Len(Tries)
      BY <3>2 DEF Ahead
    <3>4. reports' = {i}
      BY <2>2, <2>4
    <3>5. t.port = chip.base
      BY <2>1 DEF Fits
    <3>6. i.base = chip.base /\ i.name = NameOf(regs, t)
      BY <1>4, <1>8, <2>1, <3>5, DescribedAs
    <3>7. /\ NameOf(regs, t) = chip.kind
          /\ \A j \in 1 .. Len(Tries) : Fits(Tries[j], chip.base, regs) => j = k
      BY <1>3, <2>1, Fitting
    <3>8. \A r \in IdRegs : regs'[r] = regs[r]
      <4>1. IdRegs \subseteq Reg \ {\h07, IRCC_MASTER}
        BY DEF IdRegs, Reg, IRCC_MASTER
      <4>2. \A r \in Reg \ {\h07, IRCC_MASTER} : regs'[r] = regs[r]
        BY <1>8, ProbeWritesFacts
      <4> QED
        BY <4>1, <4>2
    <3>9. ASSUME NEW j \in Ahead'
          PROVE  ~Fits(Tries[j], chip.base, regs)'
      <4>1. j \in 1 .. Len(Tries) /\ j # k
        BY <1>2, <3>3, <3>9, TriesLen
      <4>2. Recognised(regs', Tries[j]) => Recognised(regs, Tries[j])
        BY <3>8, <4>1, TriesShape, SameIds
      <4>3. ~Fits(Tries[j], chip.base, regs)
        BY <3>7, <4>1
      <4>4. ~Fits(Tries[j], chip.base, regs')
        BY <4>2, <4>3 DEF Fits
      <4> QED
        BY <1>0, <4>4 DEF Fits
    <3> QED
      BY <1>0, <3>2, <3>4, <3>6, <3>7, <3>9 DEF ReportInv
  <2> QED
    BY <1>8, <2>3, <2>4
<1> QED
  BY <1>5, <1>7, <1>8

(* Every step keeps the invariant. *)
LEMMA NextReport ==
  ASSUME SuperInv, RegsInv, ReportInv, [Next]_vars
  PROVE  ReportInv'
<1>0. ProgInv /\ prog.k \in Nat
  BY DEF SuperInv, ProgInv
<1>1. CASE StartSmcInit \/ StartFindChip \/ SmcInitStep
  <2>1. reports' = reports
    BY <1>1, Zenon DEF StartSmcInit, StartFindChip, Start, SmcInitStep, UnbindTty, HubCheck,
       BridgeStep, ProbeStep, RegStep, LeaveStep, Skipped1800, Probe1800, Unprobe1800,
       Enter1800, Decode1800
  <2>2. prog.pc \notin {"knock", "read", "relock", "end"}
    <3>1. CASE SmcInitStep
      BY <3>1, Zenon DEF SmcInitStep, UnbindTty, HubCheck, BridgeStep, ProbeStep, RegStep,
         LeaveStep, Skipped1800, Probe1800, Unprobe1800, Enter1800, Decode1800
    <3>2. CASE StartSmcInit \/ StartFindChip
      <4>1. prog = Idle
        BY <3>2, Zenon DEF StartSmcInit, StartFindChip, Start
      <4> QED
        BY <4>1 DEF Idle
    <3> QED
      BY <1>1, <3>1, <3>2
  <2> QED
    BY <2>1, <2>2 DEF ReportInv
<1>2. CASE Ioperm
  <2>1. /\ prog.pc = "ioperm" /\ chip' = chip /\ regs' = regs /\ reports' = reports
    BY <1>2 DEF Ioperm, hardware
  <2> QED
    BY <2>1 DEF ReportInv
<1>3. CASE Knock
  <2>1. /\ prog.pc = "knock" /\ chip' = chip /\ regs' = regs /\ reports' = reports
        /\ GoesTo("read", prog.k)
    BY <1>3 DEF Knock, hardware
  <2>2. prog'.pc = "read" /\ prog'.name = prog.name /\ prog'.k = prog.k
    BY <1>0, <2>1, MovesAfter DEF After
  <2>3. Ahead' = Ahead
    BY <2>1, <2>2 DEF Ahead
  <2> QED
    BY <2>1, <2>2, <2>3, SameReport
<1>4. CASE Read
  BY <1>4, ReadReport
<1>5. CASE Relock
  <2>1. /\ prog.pc = "relock" /\ chip' = chip /\ regs' = regs /\ reports' = reports
    BY <1>5 DEF Relock, hardware
  <2>2. PICK stop \in {prog.port = 1} : NextTry(prog.k, stop)
    BY <1>5 DEF Relock
  <2> QED
    BY <1>0, <2>1, <2>2, NextTryReport
<1>6. CASE Kill
  <2>1. /\ chip' = chip /\ regs' = regs /\ reports' = reports /\ Ends("killed")
    BY <1>6 DEF Kill, hardware
  <2>2. prog'.pc = "end" /\ prog'.name = prog.name
    BY <1>0, <2>1, MovesAfter DEF After
  <2>3. Ahead' = {}
    BY <2>2 DEF Ahead
  <2> QED
    BY <2>1, <2>2, <2>3, SameReport
<1>7. CASE Reap
  BY <1>7 DEF Reap, ReportInv
<1>8. CASE UNCHANGED vars
  <2>1. chip' = chip /\ regs' = regs /\ reports' = reports /\ prog' = prog
    BY <1>8 DEF vars
  <2>2. Ahead' = Ahead
    BY <2>1 DEF Ahead
  <2> QED
    BY <2>1, <2>2, SameReport
<1> QED
  BY <1>1, <1>2, <1>3, <1>4, <1>5, <1>6, <1>7, <1>8 DEF Next, FindChipStep
-----------------------------------------------------------------------------
(* What holds of the programs and the machine. *)
ToolsInv == SuperInv /\ SetupInv /\ RegsInv /\ ReportInv

(* It holds always. *)
LEMMA ToolsInvariant == Spec => []ToolsInv
<1>1. Init => ToolsInv
  <2>1. Init => ReportInv
    BY DEF Init, SuperInit, ReportInv
  <2> QED
    BY <2>1, SuperInitInv, InitSetup, InitRegs DEF ToolsInv
<1>2. ToolsInv /\ [Next]_vars => ToolsInv'
  BY SuperNextInv, NextSetup, NextRegs, NextReport DEF ToolsInv
<1> QED
  BY <1>1, <1>2, PTL DEF Spec

(***************************************************************************)
(* findchip and tosh1800-smcinit never leave a chip open that they found   *)
(* locked when they end by themselves: on every machine that has the exit  *)
(* bytes the tables of the programs take for granted, with any command     *)
(* line, after any sequence of programs that were killed at any access     *)
(* (probe_smc, probe_nsc, probe_winbond; configure_47N227_smc_ircc).       *)
(***************************************************************************)
THEOREM LocksAgain == Spec => []LeavesLocked
<1>1. ToolsInv => LeavesLocked
  BY DEF ToolsInv, SuperInv, LockInv, LeavesLocked
<1> QED
  BY ToolsInvariant, <1>1, PTL

(***************************************************************************)
(* An initialiser that ends well has configured the chip as asked: on      *)
(* every machine, for every command line and after any sequence of         *)
(* programs killed at any access, the ports, the interrupt and the channel *)
(* are in the registers (what smcinit compared, and all that               *)
(* tosh1800-smcinit can express), the infrared port has power, the         *)
(* configuration is marked valid, the chip is locked and the bridge lets   *)
(* the ports through (set_smc; configure_47N227_smc_ircc,                  *)
(* configure_ali1533_smc_ports_decoding).                                  *)
(***************************************************************************)
THEOREM Configured == Spec => []ConfiguredWhenDone
<1>1. ASSUME ToolsInv
      PROVE  ConfiguredWhenDone
  <2>inv. SuperInv /\ SetupInv /\ RegsInv /\ ReportInv
    BY <1>1 DEF ToolsInv
  <2> SUFFICES ASSUME prog.name \in Initialiser, done = "ok"
               PROVE  LET a == prog.args
                      IN /\ ~open
                         /\ prog.name # "tosh1800" => ReadBack(regs, a) /\ IrdaMode(regs)
                         /\ Expressible(a) => Answers(regs, a)
                         /\ Powered(regs) /\ 7 \in regs[\h00]
                         /\ prog.name # "tosh1800" =>
                              bridge["LPC_EN"] \cap {0, 1} = {0} /\ bridge["GEN2_DEC"] = Bits(\h131)
                         /\ (prog.name = "tosh1800" /\ ~prog.args.skipDecoding /\ ~prog.args.print) =>
                              \A p \in {a.sir, a.fir} \cap DOMAIN AliPorts :
                                AliPorts[p].mask \subseteq bridge[AliPorts[p].reg]
    BY DEF ConfiguredWhenDone
  <2>1. EndsWell
    BY <2>inv DEF SetupInv, PlaceInv, EndsWell
  <2>2. ~open /\ Held(regs, TableOf(prog.name, prog.args)) /\ regs \in [Reg -> SUBSET Byte]
    BY <2>inv, <2>1 DEF SetupInv, FoundInv, TableInv, RegsInv
  <2>3. CASE prog.name = "smcinit"
    <3>1. ReadBack(regs, prog.args) /\ IrdaMode(regs) /\ Powered(regs) /\ 7 \in regs[\h00]
      BY <2>2, <2>3, SmcHeld
    <3>2. Expressible(prog.args) => Answers(regs, prog.args)
      BY <3>1, ReadBackAnswers
    <3>3. bridge["LPC_EN"] \cap {0, 1} = {0} /\ bridge["GEN2_DEC"] = Bits(\h131)
      BY <2>inv, <2>1, <2>3 DEF SetupInv, BridgeInv
    <3> QED
      BY <2>2, <2>3, <3>1, <3>2, <3>3, Zenon
  <2>4. CASE prog.name = "tosh2450"
    <3>0. prog.args = Tosh2450Args
      BY <2>inv, <2>4 DEF SetupInv, PlaceInv
    <3>1. ReadBack(regs, prog.args) /\ IrdaMode(regs) /\ Powered(regs) /\ 7 \in regs[\h00]
      BY <2>2, <2>4, <3>0, Tosh2450Held
    <3>2. Expressible(prog.args) => Answers(regs, prog.args)
      BY <3>1, ReadBackAnswers
    <3>3. bridge["LPC_EN"] \cap {0, 1} = {0} /\ bridge["GEN2_DEC"] = Bits(\h131)
      BY <2>inv, <2>1, <2>4 DEF SetupInv, BridgeInv
    <3> QED
      BY <2>2, <2>4, <3>1, <3>2, <3>3, Zenon
  <2>5. CASE prog.name = "tosh1800"
    <3>1. /\ Expressible(prog.args) => Answers(regs, prog.args)
          /\ Powered(regs) /\ 7 \in regs[\h00]
      BY <2>2, <2>5, Tosh1800Held
    <3>2. ~prog.args.skipDecoding /\ ~prog.args.print
            => Decoded(bridge, prog.args.sir) /\ Decoded(bridge, prog.args.fir)
      BY <2>inv, <2>1, <2>5 DEF SetupInv, DecodeInv
    <3>3. ~prog.args.skipDecoding /\ ~prog.args.print
            => \A p \in {prog.args.sir, prog.args.fir} \cap DOMAIN AliPorts :
                 AliPorts[p].mask \subseteq bridge[AliPorts[p].reg]
      BY <3>2 DEF Decoded
    <3> QED
      BY <2>2, <2>5, <3>1, <3>3, Zenon
  <2> QED
    BY <2>3, <2>4, <2>5 DEF Initialiser
<1> QED
  BY ToolsInvariant, <1>1, PTL

(***************************************************************************)
(* smcinit sets the valid bit of CR00 last: the step that sets it leaves a *)
(* chip whose registers have all been written and compared, whatever       *)
(* killed programs have left in them ("valid config cycle done",           *)
(* smcinit.c).                                                             *)
(***************************************************************************)
THEOREM ValidIsLast == Spec => ValidLast
<1>1. ASSUME ToolsInv, [Next]_vars
      PROVE  [(7 \notin regs[\h00] /\ 7 \in regs'[\h00] /\ prog.name = "smcinit")
               => ReadBack(regs', prog.args) /\ Powered(regs') /\ IrdaMode(regs')]_vars
  <2>inv. SuperInv /\ SetupInv /\ RegsInv /\ ReportInv
    BY <1>1 DEF ToolsInv
  <2> SUFFICES ASSUME 7 \notin regs[\h00], 7 \in regs'[\h00], prog.name = "smcinit"
               PROVE  ReadBack(regs', prog.args) /\ Powered(regs') /\ IrdaMode(regs')
    OBVIOUS
  <2>0. ProgInv /\ \h00 \in Reg /\ \h00 \notin {\h07, IRCC_MASTER}
    BY <2>inv DEF SuperInv, Reg, IRCC_MASTER
  <2>1. RegStep
    <3>1. regs' # regs
      OBVIOUS
    <3>2. ~Read
      BY <2>0 DEF ProgInv, FindPc, Read
    <3> QED
      BY <1>1, <3>1, <3>2, Zenon DEF Next, vars, SmcInitStep, FindChipStep, StartSmcInit,
         StartFindChip, Start, Kill, Reap, UnbindTty, HubCheck, BridgeStep, ProbeStep,
         LeaveStep, Skipped1800, Probe1800, Unprobe1800, Enter1800, Decode1800, Ioperm,
         Knock, Relock
  <2>2. PICK t, k : t = TableOf(prog.name, prog.args) /\ k = prog.k
    OBVIOUS
  <2>3. /\ k \in 1 .. Len(OrderOf(prog.name)) /\ Len(t) = Len(OrderOf(prog.name))
        /\ regs' \in [Reg -> SUBSET Byte]
        /\ \A r \in Reg \ {t[k].reg} : regs'[r] = regs[r]
        /\ \/ Ends("failed")
           \/ /\ Holds(regs', t[k])
              /\ \/ k < Len(t) /\ GoesTo("regs", k + 1)
                 \/ k = Len(t) /\ GoesTo("leave", 1)
    BY <2>inv, <2>1, <2>2, RegStepFacts
  <2>4. t[k].reg = \h00
    BY <2>0, <2>3
  <2>5. OrderOf(prog.name) = SmcOrder /\ Len(SmcOrder) = 10
    BY DEF OrderOf, SmcOrder
  <2>6. k = 10
    <3>1. t[k].reg = SmcOrder[k]
      BY <2>2, <2>3, <2>5, TableOrder DEF Ordered
    <3>2. \A i \in 1 .. 10 : SmcOrder[i] = \h00 => i = 10
      BY DEF SmcOrder
    <3> QED
      BY <2>3, <2>4, <2>5, <3>1, <3>2
  <2>7. Holds(regs', t[k])
    <3>1. t[10] = Modify(\h00, Byte, Bits(\h80))
      BY <2>2 DEF TableOf, SmcTable, UartTable
    <3>2. ~t[10].check
      BY <3>1 DEF Modify
    <3>3. Table = t /\ prog.k = 10
      BY <2>2, <2>6 DEF Table, TableOf
    <3>4. GoesTo("regs", prog.k + 1) \/ GoesTo("leave", 1)
      <4>1. ~Table[prog.k].check
        BY <3>2, <3>3
      <4> QED
        BY <2>1, <4>1, Zenon DEF RegStep
    <3>5. prog'.pc # "end"
      BY <2>0, <3>4, MovesAfter DEF After
    <3> QED
      BY <2>0, <2>3, <3>5, MovesAfter DEF After
  <2>8. \A j \in 1 .. 10 : Holds(regs', t[j])
    <3>1. ASSUME NEW j \in 1 .. 9
          PROVE  Holds(regs', t[j])
      <4>1. Holds(regs, t[j])
        BY <2>inv, <2>1, <2>2, <2>6, <3>1 DEF SetupInv, TableInv, RegStep
      <4>2. j \in 1 .. 10 /\ j # k /\ Len(OrderOf(prog.name)) = 10
        BY <2>5, <2>6, <3>1
      <4>3. j \in 1 .. Len(OrderOf(prog.name)) /\ j # k
        BY <4>2
      <4>4. /\ \A r \in Reg \ {TableOf(prog.name, prog.args)[k].reg} : regs'[r] = regs[r]
            /\ Holds(regs, TableOf(prog.name, prog.args)[j])
            /\ k \in 1 .. Len(OrderOf(prog.name))
        BY <2>2, <2>3, <4>1, Zenon
      <4>5. Holds(regs', TableOf(prog.name, prog.args)[j])
        BY <4>3, <4>4, OtherEntries, Zenon
      <4> QED
        BY <2>2, <4>5, Zenon
    <3> QED
      BY <2>6, <2>7, <3>1
  <2>9. Held(regs', TableOf("smcinit", prog.args))
    BY <2>2, <2>3, <2>5, <2>8 DEF Held
  <2> QED
    BY <2>3, <2>9, SmcHeld
<1> QED
  BY ToolsInvariant, <1>1, PTL DEF Spec, ValidLast

(***************************************************************************)
(* findchip only looks: behind a configuration port it changes nothing but *)
(* the logical device, and that only of a chip with logical devices; it    *)
(* never takes the 0xff of an empty or locked port for an id (probe_smc,   *)
(* probe_nsc, probe_winbond).                                              *)
(***************************************************************************)
THEOREM FindchipOnlyLooks == Spec => OnlyLooks
<1>1. ASSUME ToolsInv, [Next]_vars
      PROVE  [prog.name = "findchip" =>
               /\ bridge' = bridge
               /\ \A r \in Reg \ {IRCC_MASTER} : regs'[r] # regs[r] =>
                    r = \h07 /\ chip.kind \in HasLogicalDevices]_vars
  <2>inv. SuperInv /\ SetupInv /\ RegsInv /\ ReportInv
    BY <1>1 DEF ToolsInv
  <2> SUFFICES ASSUME prog.name = "findchip"
               PROVE  /\ bridge' = bridge
                      /\ \A r \in Reg \ {IRCC_MASTER} : regs'[r] # regs[r] =>
                           r = \h07 /\ chip.kind \in HasLogicalDevices
    OBVIOUS
  <2>0. ProgInv /\ prog.pc \in FindPc \cup {"end"}
    BY <2>inv DEF SuperInv, ProgInv
  <2>1. Read \/ (bridge' = bridge /\ regs' = regs)
    <3>1. ~SmcInitStep
      BY <2>0, Zenon DEF SmcInitStep, UnbindTty, HubCheck, BridgeStep, ProbeStep, RegStep,
         LeaveStep, Skipped1800, Probe1800, Unprobe1800, Enter1800, Decode1800, FindPc
    <3> QED
      BY <1>1, <3>1, Zenon DEF Next, vars, FindChipStep, StartSmcInit, StartFindChip, Start,
         Kill, Reap, Ioperm, Knock, Relock
  <2>2. CASE Read
    <3>1. prog.k \in 1 .. Len(Tries) /\ bridge' = bridge
      BY <2>0, <2>2, Zenon DEF ProgInv, Read
    <3>2. PICK t : t = Tries[prog.k]
      OBVIOUS
    <3>3. \/ regs' = regs
          \/ Identified(t) /\ \E fir : ProbeWrites(t, fir)
      BY <2>2, <3>2, Zenon DEF Read
    <3>4. ASSUME Identified(t), NEW fir, ProbeWrites(t, fir)
          PROVE  \A r \in Reg \ {IRCC_MASTER} : regs'[r] # regs[r] =>
                   r = \h07 /\ chip.kind \in HasLogicalDevices
      <4>1. /\ \A r \in Reg \ {\h07, IRCC_MASTER} : regs'[r] = regs[r]
            /\ LogicalDevice(t) = {} => regs'[\h07] = regs[\h07]
        BY <2>inv, <3>4, ProbeWritesFacts
      <4>2. Fits(t, chip.base, regs)
        BY <2>inv, <3>1, <3>2, <3>4, TriesShape, FoundIsThere
      <4>3. LogicalDevice(t) # {} => chip.kind \in HasLogicalDevices
        BY <2>inv, <3>1, <3>2, <4>2, Fitting
      <4> QED
        BY <4>1, <4>3
    <3> QED
      BY <3>1, <3>3, <3>4
  <2> QED
    BY <2>1, <2>2
<1> QED
  BY ToolsInvariant, <1>1, PTL DEF Spec, OnlyLooks

(***************************************************************************)
(* findchip prints the chip that is built in, at its port, and at most     *)
(* once, on every machine whose chip fits no protocol but its own; also    *)
(* after an initialiser or another findchip was killed (print_info in      *)
(* probe_smc, probe_nsc and probe_winbond).                                *)
(***************************************************************************)
THEOREM FindchipReportsTrue == Spec => []ReportsTrue
<1>1. ASSUME ToolsInv
      PROVE  ReportsTrue
  <2>inv. SuperInv /\ SetupInv /\ RegsInv /\ ReportInv
    BY <1>1 DEF ToolsInv
  <2>1. CASE reports = {}
    <3>1. Cardinality(reports) = 0
      BY <2>1, FS_EmptySet
    <3> QED
      BY <2>1, <3>1 DEF ReportsTrue
  <2>2. ASSUME NEW i, reports = {i}, i.name = chip.kind, i.base = chip.base
        PROVE  ReportsTrue
    <3>1. Cardinality({i}) = 1
      BY FS_Singleton
    <3> QED
      BY <2>2, <3>1 DEF ReportsTrue
  <2> QED
    BY <2>inv, <2>1, <2>2 DEF ReportInv
<1> QED
  BY ToolsInvariant, <1>1, PTL
=============================================================================
