------------------------------- MODULE SuperIO -------------------------------
(***************************************************************************)
(* A machine with one SuperIO chip behind a PCI-ISA bridge, and the one    *)
(* program that is at present configuring or probing it: smcinit and its   *)
(* two Toshiba variants (module SmcInit) or findchip (module FindChip).    *)
(*                                                                         *)
(* The chip and the bridge are hardware, modelled from how the programs    *)
(* use them.  A chip is locked until its key is written to its             *)
(* configuration port; while it is locked, or where no chip is, reads give *)
(* 0xff and writes do nothing.  A register holds a set of bit numbers:     *)
(* & is \cap, | is \cup.  The pair "select a register, read or write it"   *)
(* is one access; every program selects before it reads or writes.         *)
(*                                                                         *)
(* A program may be killed between any two accesses; what it has done to   *)
(* the chip stays, and another program may be started.                     *)
(***************************************************************************)
EXTENDS Integers, Sequences, FiniteSets, FiniteSetsExt

CONSTANT Machines   \* the machines: [hub, kind, base, key, exit, regs]

VARIABLES hub,      \* the bridge that is built in
          chip,     \* the chip that is built in: [kind, base, key, exit]
          open,     \* the chip is in configuration state
          regs,     \* the chip's registers
          bridge,   \* the bridge's registers
          prog,     \* the program: [name, args, pc, k, port, wasOpen]
          done,     \* how it ended: "ok", "failed", "killed", "fault"
          reports   \* what findchip has printed since it was started

hardware == <<hub, chip>>
vars == <<hub, chip, open, regs, bridge, prog, done, reports>>

Byte == 0 .. 7
Word == 0 .. 15
Bits(n) == {b \in Word : (n \div 2^b) % 2 = 1}
Num(s) == MapThenSumSet(LAMBDA b : 2^b, s)
Shl(s, n) == {b + n : b \in s}
Shr(s, n) == {b - n : b \in {c \in s : c >= n}}

(* The master register of the infrared controller, which is not behind the *)
(* configuration port but at offset 7 of the FIR port.                     *)
IRCC_MASTER == \h107

Reg == {\h00, \h01, \h02, \h05, \h07, \h08, \h09, \h0A, \h0B, \h0C, \h0D, \h0E, \h16,
        \h1B, \h1C, \h20, \h21, \h22, \h24, \h25, \h26, \h28, \h2A, \h2B, \h2C,
        \h46, \h47, \h4F, \h60, \h61, \h62, \h63, \h70, \h74, \h75, \hF0, IRCC_MASTER}
BridgeReg == {"COM_DEC", "LPC_EN", "PCI_DMA_C", "GEN2_DEC", "B0", "B4"}

Idle == [name |-> "none", args |-> <<>>, pc |-> "none", k |-> 0, port |-> 0,
         wasOpen |-> FALSE]

SuperInit ==
  /\ \E m \in Machines :
       /\ hub = m.hub
       /\ chip = [kind |-> m.kind, base |-> m.base, key |-> m.key, exit |-> m.exit]
       /\ regs = m.regs
  /\ open = (chip.key = <<>>)
  /\ bridge = [r \in BridgeReg |-> {}]
  /\ prog = Idle /\ done = "none" /\ reports = {}
-----------------------------------------------------------------------------
(* The chip.  CR2C implements four bits. *)
Implemented(r) == IF r = \h2C /\ chip.kind = "LPC47N227" THEN 0 .. 3 ELSE Byte

(* The bytes written to the configuration port contain the key.  A chip    *)
(* that is open takes them for register numbers.                           *)
Unlocked(port, bytes) ==
  \/ open
  \/ /\ port = chip.base /\ Len(chip.key) =< Len(bytes)
     /\ SubSeq(bytes, 1, Len(chip.key)) = chip.key

Locked(port, byte) == port = chip.base /\ byte = chip.exit

InOf(o, port, r) == IF o /\ port = chip.base THEN regs[r] ELSE Byte
In(port, r) == InOf(open, port, r)

(* Register r becomes (r & keep) | put, as far as the chip implements it. *)
Out(port, r, keep, put) ==
  regs' = IF open /\ port = chip.base
          THEN [regs EXCEPT ![r] = Implemented(r) \cap ((@ \cap keep) \cup put)]
          ELSE regs
-----------------------------------------------------------------------------
(* A program is started when none runs, and killed at any time. *)
Start(name, args, pc) ==
  /\ prog = Idle
  /\ prog' = [name |-> name, args |-> args, pc |-> pc, k |-> 1, port |-> 0,
              wasOpen |-> open]
  /\ UNCHANGED <<hardware, open, regs, bridge, done, reports>>

(* The program is over; its record is kept until the next step. *)
Ends(how) == prog' = [prog EXCEPT !.pc = "end"] /\ done' = how

GoesTo(pc, k) == prog' = [prog EXCEPT !.pc = pc, !.k = k] /\ UNCHANGED done

Kill ==
  /\ prog.pc \notin {"none", "end"}
  /\ Ends("killed")
  /\ UNCHANGED <<hardware, open, regs, bridge, reports>>

Reap ==
  /\ prog.pc = "end"
  /\ prog' = Idle /\ done' = "none" /\ reports' = {}
  /\ UNCHANGED <<hardware, open, regs, bridge>>
=============================================================================
