------------------------------ MODULE FindChip ------------------------------
(***************************************************************************)
(* findchip: it tries the protocols of all chips it knows on the ports     *)
(* where they may be, reads the configuration of the chip it recognises    *)
(* and prints it (findchip.c, smc.c, nsc.c, winbond.c).                    *)
(*                                                                         *)
(* A try is: write the key, read, write the exit byte.  Left out: the      *)
(* revision and the half duplex delay, which are printed and nothing else. *)
(***************************************************************************)
EXTENDS SuperIO, SequencesExt

CONSTANTS Families,   \* the command lines: sets of "SMC", "NSC", "WINBOND"
          Garbage     \* what an uninitialised info.dma may be

(* smc.c: the chips, with the bytes that unlock them and where the id is. *)
SmcChips ==
  << [name |-> "FDC37C669", key |-> <<\h55, \h55>>, cid |-> \h0D, id |-> \h03],
     [name |-> "FDC37C669FR", key |-> <<\h55, \h55>>, cid |-> \h0D, id |-> \h04],
     [name |-> "FDC37N869", key |-> <<\h55>>, cid |-> \h0D, id |-> \h29],
     [name |-> "FDC37C93xFR", key |-> <<\h55, \h55>>, cid |-> \h20, id |-> \h03],
     [name |-> "FDC37N957FR", key |-> <<\h55, \h55>>, cid |-> \h20, id |-> \h07],
     [name |-> "FDC37N958FR", key |-> <<\h55, \h55>>, cid |-> \h20, id |-> \h09] >>

(* nsc.c: chips without a key. *)
NscChips ==
  << [name |-> "PC87108", ports |-> <<\h150, \h398, \hEA>>, cid |-> \h05, id |-> \h10],
     [name |-> "PC87338", ports |-> <<\h398, \h15C, \h2E>>, cid |-> \h08, id |-> \hB0] >>

(* winbond.c: the chips by id, and the ways to unlock them.  hefere is 2   *)
(* where the bit is not looked at.                                         *)
WinbondIds == {Bits(\h73), Bits(\h74), Bits(\h0B), Bits(\h0C), Bits(\h0D)}
WinbondChips == [id \in WinbondIds |->
                   CASE id = Bits(\h73) -> "W83977TF" [] id = Bits(\h74) -> "W83977ATF"
                     [] id = Bits(\h0B) -> "W83877AF" [] id = Bits(\h0C) -> "W83877TF"
                     [] OTHER -> "W83877ATF"]
Efer(type, port, key, end, hefras, hefere) ==
  [fam |-> "WINBOND", chip |-> [type |-> type, hefras |-> hefras, hefere |-> hefere],
   port |-> port, key |-> key, end |-> end]
Efers ==
  << Efer("W83977", \h3F0, <<\h87, \h87>>, \hAA, 0, 2),
     Efer("W83977", \h370, <<\h87, \h87>>, \hAA, 1, 2),
     Efer("W83877", \h250, <<\h88>>, \h88, 0, 0),
     Efer("W83877", \h250, <<\h89>>, \h89, 0, 1),
     Efer("W83877", \h3F0, <<\h86, \h86>>, \hAA, 1, 0),
     Efer("W83877", \h3F0, <<\h87, \h87>>, \hAA, 1, 1) >>

(* All tries in the order of main and of the probe functions. *)
Tries ==
  [i \in 1 .. 12 |-> LET c == SmcChips[(i + 1) \div 2]
                     IN [fam |-> "SMC", chip |-> c, key |-> c.key, end |-> \hAA,
                         port |-> IF i % 2 = 1 THEN \h3F0 ELSE \h370]]
  \o [i \in 1 .. 6 |-> LET c == NscChips[(i + 2) \div 3]
                       IN [fam |-> "NSC", chip |-> c, key |-> <<>>, end |-> -1,
                           port |-> c.ports[((i - 1) % 3) + 1]]]
  \o Efers
-----------------------------------------------------------------------------
Info(name, port, sir, fir, irq, dma, enabled) ==
  [name |-> name, base |-> port, sir |-> sir, fir |-> fir, irq |-> irq, dma |-> dma,
   enabled |-> enabled]

(* smc.c *)
probe_69(name, p) ==
  Info(name, p, Num(Shl(In(p, \h25), 2)), Num(Shl(In(p, \h2B), 3)),
       Num(In(p, \h28) \cap Bits(\h0F)), Num(In(p, \h2C)), 7 \in In(p, \h02))

probe_58(name, p) ==
  Info(name, p, Num(Shl(In(p, \h60), 8) \cup In(p, \h61)),
       Num(Shl(In(p, \h62), 8) \cup In(p, \h63)),
       Num(In(p, \h70) \cap Bits(\h0F)), Num(In(p, \h74)), 5 \in In(p, \h22))

(* nsc.c *)
nsc_probe_108(name, p) ==
  LET sir == <<\h3E8, \h2E8, \h3F8, \h2F8>>[Num(In(p, 0) \cap Bits(3)) + 1]
      csrt == In(p, 1)
      irq == <<-1, 3, 4, 5, 7, 9, 11, 15>>[Num(csrt \cap Bits(7)) + 1]
      dma == <<-1, 0, 1, 3>>[Num(Shr(csrt, 3) \cap Bits(3)) + 1]
  IN Info(name, p, sir, sir, irq, dma, 0 \in In(p, 2))

(* In legacy mode COM3 and COM4 have four pairs of addresses. *)
nsc_probe_338(name, p) ==
  LET far == In(p, 1)
      pair == Num(Shr(far, 6)) + 1
      legacy == CASE Shr(far, 4) \cap Bits(3) = {} -> \h3F8
                  [] Shr(far, 4) \cap Bits(3) = {0} -> \h2F8
                  [] Shr(far, 4) \cap Bits(3) = {1} -> <<\h3E8, \h338, \h2E8, \h220>>[pair]
                  [] OTHER -> <<\h2E8, \h238, \h2E0, \h228>>[pair]
      sir == IF 4 \in In(p, \h1B)
             THEN Num(Shl(In(p, \h46) \ {0}, 2) \cup Shl(In(p, \h47) \cap Bits(\hFC), 8))
             ELSE legacy
  IN Info(name, p, sir, sir, Num(Shr(In(p, \h1C), 4)),
          Num(In(p, \h4F) \cap Bits(7)) - 1, 2 \in In(p, 0))

(* winbond.c *)
w83977_info(p) ==
  LET sir == Num(Shl(In(p, \h60), 8) \cup In(p, \h61))
      rx == Num(In(p, \h74))
  IN Info(WinbondChips[In(p, \h21)], p, sir, sir, Num(In(p, \h70) \cap Bits(\h0F)),
          IF rx > 3 THEN -1 ELSE rx, 0 \in In(p, \hF0))

w83877_info(p, dma) ==
  LET sir == Num(Shl(In(p, \h25) \cap Bits(\hFE), 2))
  IN Info(WinbondChips[In(p, \h09) \cap Bits(\h0F)], p, sir, sir,
          Num(In(p, \h28) \cap Bits(\h0F)), dma,
          /\ {4, 3} \subseteq In(p, \h0C)
          /\ In(p, \h0D) \cap Bits(7) \in {Bits(2), Bits(3)}
          /\ 3 \in In(p, \h2C))

(* info.dma is not set when the two channels differ. *)
w83877_dma(p) ==
  LET tx == Num(Shr(In(p, \h2A), 4))  rx == Num(In(p, \h2A) \cap Bits(\h0F))
  IN IF tx = rx THEN {tx} ELSE Garbage
-----------------------------------------------------------------------------
(* Mutant: the id is looked for in register 0x0d of every chip. *)
IdentifiedAnyCid(t) ==
  CASE t.fam = "SMC" -> In(t.port, \h0D) = Bits(t.chip.id)
    [] t.fam = "NSC" -> open /\ t.port = chip.base
                        /\ In(t.port, t.chip.cid) \cap Bits(\hF0) = Bits(t.chip.id)
    [] OTHER -> FALSE

(* Registers with the values r are those of the chip of try t. *)
Recognised(r, t) ==
  CASE t.fam = "SMC" -> r[t.chip.cid] = Bits(t.chip.id)
    [] t.fam = "NSC" -> r[t.chip.cid] \cap Bits(\hF0) = Bits(t.chip.id)
    [] t.fam = "WINBOND" ->
         IF t.chip.type = "W83977"
         THEN /\ (6 \in r[\h26]) <=> (t.chip.hefras = 1)
              /\ r[\h20] = Bits(\h97) /\ r[\h21] \in WinbondIds
         ELSE /\ (0 \in r[\h16]) <=> (t.chip.hefras = 1)
              /\ (5 \in r[\h0C]) <=> (t.chip.hefere = 1)
              /\ r[\h09] \cap Bits(\h0F) \in WinbondIds

(* The name under which it is printed. *)
NameOf(r, t) ==
  CASE t.fam \in {"SMC", "NSC"} -> t.chip.name
    [] t.fam = "WINBOND" ->
         WinbondChips[IF t.chip.type = "W83977" THEN r[\h21] ELSE r[\h09] \cap Bits(\h0F)]

(* The chip of try t has been found at its port.  (nsc.c passes over a     *)
(* port whose index register reads 0xff: nothing answers there.)           *)
Identified(t) ==
  /\ Recognised([r \in Reg |-> In(t.port, r)], t)
  /\ t.fam = "NSC" => open /\ t.port = chip.base

Described(t) ==
  CASE t.fam = "SMC" -> IF t.chip.cid = \h0D THEN {probe_69(t.chip.name, t.port)}
                                            ELSE {probe_58(t.chip.name, t.port)}
    [] t.fam = "NSC" -> IF t.chip.cid = \h05 THEN {nsc_probe_108(t.chip.name, t.port)}
                                            ELSE {nsc_probe_338(t.chip.name, t.port)}
    [] t.fam = "WINBOND" ->
         IF t.chip.type = "W83977" THEN {w83977_info(t.port)}
         ELSE {w83877_info(t.port, d) : d \in w83877_dma(t.port)}

(* The logical device that is selected before its registers are read. *)
LogicalDevice(t) ==
  CASE t.fam = "SMC" -> IF t.chip.cid = \h20 THEN {5} ELSE {}
    [] t.fam = "WINBOND" -> IF t.chip.type = "W83977" THEN {6} ELSE {}
    [] OTHER -> {}

(* main asks for the ports 0 to 0x3fe: an access beyond them is fatal. *)
Permitted(port) == port < \h3FF
-----------------------------------------------------------------------------
StartFindChip == \E f \in Families : Start("findchip", f, "ioperm")

(* The first try of the families asked for, after k; after a chip has been *)
(* found (stop), of another family.                                        *)
NextTry(k, stop) ==
  LET later == {j \in k + 1 .. Len(Tries) :
                  /\ Tries[j].fam \in prog.args
                  /\ stop => Tries[j].fam # Tries[k].fam}
  IN IF later = {} THEN Ends("ok")
     ELSE prog' = [prog EXCEPT !.pc = IF Tries[Min(later)].fam = "NSC" THEN "read" ELSE "knock",
                               !.k = Min(later), !.port = 0] /\ UNCHANGED done

Ioperm ==
  /\ prog.pc = "ioperm"
  /\ Ends("failed") \/ NextTry(0, FALSE)
  /\ UNCHANGED <<hardware, open, regs, bridge, reports>>

Knock ==
  /\ prog.pc = "knock"
  /\ open' = Unlocked(Tries[prog.k].port, Tries[prog.k].key)
  /\ GoesTo("read", prog.k)
  /\ UNCHANGED <<hardware, regs, bridge, reports>>

(* What the probe function writes: the logical device, and through         *)
(* register_bank the bank of the infrared controller at the FIR port fir.  *)
ProbeWrites(t, fir) ==
  regs' = [r \in Reg |->
             CASE r = \h07 /\ LogicalDevice(t) # {} ->
                    UNION {Bits(d) : d \in LogicalDevice(t)}
               [] r = IRCC_MASTER /\ t.fam = "SMC" /\ fir # 0 /\ Permitted(fir + 7) ->
                    (regs[r] \cap Bits(\hF0)) \cup Bits(3)
               [] OTHER -> regs[r]]

(* Mutant: the logical device is selected before the id is looked at. *)
ReadEager ==
  LET t == Tries[prog.k]
  IN /\ prog.pc = "read"
     /\ IF LogicalDevice(t) # {} /\ open /\ t.port = chip.base
        THEN regs' = [regs EXCEPT ![\h07] = UNION {Bits(d) : d \in LogicalDevice(t)}]
        ELSE UNCHANGED regs
     /\ prog' = [prog EXCEPT !.pc = "relock"]
     /\ UNCHANGED <<hardware, open, bridge, done, reports>>

(* The id is compared; the probe function reads and prints.  prog.port     *)
(* remembers whether the family's loop is over.                            *)
Read ==
  LET t == Tries[prog.k]
  IN /\ prog.pc = "read"
     /\ \/ /\ Identified(t)
           /\ \E i \in Described(t) :
                /\ ProbeWrites(t, i.fir)
                /\ IF t.fam = "SMC" /\ i.fir # 0 /\ ~Permitted(i.fir + 7)
                   THEN Ends("fault") /\ UNCHANGED reports
                   ELSE /\ reports' = reports \cup {i}
                        /\ prog' = [prog EXCEPT !.pc = "relock", !.port =
                             IF t.fam = "WINBOND" \/ (t.fam = "SMC" /\ i.fir # 0) THEN 1 ELSE 0]
                        /\ UNCHANGED done
        \/ /\ ~Identified(t)
           /\ GoesTo("relock", prog.k)
           /\ UNCHANGED <<regs, reports>>
     /\ UNCHANGED <<hardware, open, bridge>>

(* Mutant: the exit byte is written only after a chip was found. *)
RelockFound ==
  /\ prog.pc = "relock"
  /\ open' = (open /\ ~(prog.port = 1 /\ Locked(Tries[prog.k].port, Tries[prog.k].end)))
  /\ NextTry(prog.k, prog.port = 1)
  /\ UNCHANGED <<hardware, regs, bridge, reports>>

Relock ==
  /\ prog.pc = "relock"
  /\ open' = (open /\ ~Locked(Tries[prog.k].port, Tries[prog.k].end))
  /\ NextTry(prog.k, prog.port = 1)
  /\ UNCHANGED <<hardware, regs, bridge, reports>>

FindChipStep == Ioperm \/ Knock \/ Read \/ Relock
=============================================================================
