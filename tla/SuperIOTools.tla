---------------------------- MODULE SuperIOTools ----------------------------
(* The programs of SmcInit and FindChip, started one after the other on    *)
(* one machine and killed at any point, and what they promise.             *)
EXTENDS SmcInit, FindChip

(***************************************************************************)
(* What the tables of the programs take for granted about the hardware:    *)
(* the byte a program writes after a key is the one that ends the          *)
(* configuration state of every chip this key opens there, and none of     *)
(* these bytes closes a chip that has no key.                              *)
(***************************************************************************)
Opens(bytes, key) == Len(key) =< Len(bytes) /\ SubSeq(bytes, 1, Len(key)) = key

ASSUME ExitAssumption ==
  \A m \in Machines :
    /\ \A k \in 1 .. Len(Tries) :
         IF m.key = <<>> THEN Tries[k].end # m.exit
         ELSE (Tries[k].port = m.base /\ Opens(Tries[k].key, m.key)) => Tries[k].end = m.exit
    /\ IF m.key = <<>> THEN m.exit # \hAA
       ELSE Opens(<<\h55>>, m.key) => m.exit = \hAA

(* The ids the initialisers accept, and the chips that have logical        *)
(* devices, by the manuals.                                                *)
InitialisedIds == {Bits(\h5A), Bits(\h7A)}
HasLogicalDevices ==
  {"FDC37C93xFR", "FDC37N957FR", "FDC37N958FR", "W83977TF", "W83977ATF"}

(***************************************************************************)
(* What they take for granted about ids.  Only an LPC47N227 has the ids    *)
(* the initialisers look for, and findchip's protocols fit it at none of   *)
(* their ports, whatever is in the one register that they read and the     *)
(* initialisers write (CR0C).  Of any other chip, what fits is the         *)
(* protocol of its own kind, and one only.                                 *)
(***************************************************************************)
Fits(t, base, r) == t.port = base /\ Recognised(r, t)

ASSUME IdAssumption ==
  \A m \in Machines :
    /\ m.regs \in [Reg -> SUBSET Byte]
    /\ m.regs[\h0D] \in InitialisedIds =>
         /\ m.kind = "LPC47N227" /\ m.key = <<\h55>> /\ m.exit = \hAA
         /\ \A k \in 1 .. Len(Tries), v \in SUBSET Byte :
              ~Fits(Tries[k], m.base, [m.regs EXCEPT ![\h0C] = v])
    /\ \A k \in 1 .. Len(Tries) : Fits(Tries[k], m.base, m.regs) =>
         /\ NameOf(m.regs, Tries[k]) = m.kind
         /\ LogicalDevice(Tries[k]) # {} => m.kind \in HasLogicalDevices
         /\ \A j \in 1 .. Len(Tries) : Fits(Tries[j], m.base, m.regs) => j = k

Init == SuperInit

Next == StartSmcInit \/ StartFindChip \/ SmcInitStep \/ FindChipStep \/ Kill \/ Reap

Spec == Init /\ [][Next]_vars
-----------------------------------------------------------------------------
Initialiser == {"smcinit", "tosh2450", "tosh1800"}

(* What was asked for can be expressed: ports are multiples of 8 that the  *)
(* eight bits of CR25 and CR2B reach, interrupt and channel have four.     *)
(* tosh1800-smcinit truncates silently what cannot.                        *)
Expressible(a) ==
  /\ Bits(a.sir) \subseteq 3 .. 9 /\ Bits(a.fir) \subseteq 3 .. 10
  /\ Bits(a.irq) \subseteq 0 .. 3 /\ Bits(a.dma) \subseteq 0 .. 3

(* The chip r answers at the ports, and uses the interrupt and the channel *)
(* of command line a, as findchip's probe_69 reads the same registers.     *)
Answers(r, a) ==
  /\ Shl(r[\h25], 2) = Bits(a.sir) /\ Shl(r[\h2B], 3) = Bits(a.fir)
  /\ r[\h28] \cap Bits(\h0F) = Bits(a.irq) /\ r[\h2C] = Bits(a.dma)

(* What smcinit has compared: of the ports bits 3 to 11 only, but all of   *)
(* CR28, whose upper half is the interrupt of the other UART.              *)
ReadBack(r, a) ==
  /\ Shl(r[\h25], 2) = Bits(a.sir) \cap Bits(\hFF8)
  /\ Shl(r[\h2B], 3) = Bits(a.fir) \cap Bits(\hFF8)
  /\ r[\h28] = Bits(a.irq) /\ r[\h2C] = Bits(a.dma)

Powered(r) == 7 \in r[\h02] /\ 5 \in r[\h07]
IrdaMode(r) == r[\h0C] \cap Bits(\h38) = Bits(\h08)

(***************************************************************************)
(* An initialiser that ends well has configured the chip as asked, marked  *)
(* the configuration valid, locked the chip again and opened the bridge,   *)
(* also when earlier programs were killed half way (set_smc,               *)
(* configure_47N227_smc_ircc).  smcinit ends well only with what it has    *)
(* compared; of a port it compares bits 3 to 11, so that -s 0x13fc is      *)
(* silently 0x3f8.                                                         *)
(***************************************************************************)
ConfiguredWhenDone ==
  (prog.name \in Initialiser /\ done = "ok") =>
    LET a == prog.args
    IN /\ ~open
       /\ prog.name # "tosh1800" => ReadBack(regs, a) /\ IrdaMode(regs)
       /\ Expressible(a) => Answers(regs, a)
       /\ Powered(regs) /\ 7 \in regs[\h00]
       /\ prog.name # "tosh1800" =>
            bridge["LPC_EN"] \cap {0, 1} = {0} /\ bridge["GEN2_DEC"] = Bits(\h131)
       /\ (prog.name = "tosh1800" /\ ~prog.args.skipDecoding /\ ~prog.args.print) =>
            \A p \in {a.sir, a.fir} \cap DOMAIN AliPorts :
              AliPorts[p].mask \subseteq bridge[AliPorts[p].reg]

(* The valid bit of CR00 is written last: a step that sets it leaves a     *)
(* chip that is completely configured, whenever earlier programs were      *)
(* killed ("valid config cycle done", smcinit.c).                          *)
ValidLast ==
  [][(7 \notin regs[\h00] /\ 7 \in regs'[\h00] /\ prog.name = "smcinit")
       => ReadBack(regs', prog.args) /\ Powered(regs') /\ IrdaMode(regs')]_vars

(* A program that finds the chip locked and ends by itself leaves it       *)
(* locked: findchip whatever it finds, tosh1800-smcinit even when it       *)
(* fails.  (smcinit and tosh2450-smcinit leave it open when they fail, and *)
(* findchip when it touches a FIR port beyond those it has asked for.)     *)
LeavesLocked ==
  (/\ done \in {"ok", "failed"} /\ prog.name \in {"findchip", "tosh1800"}
   /\ prog.pc = "end" /\ ~prog.wasOpen) => ~open

(* findchip only looks: the one thing it changes behind a configuration    *)
(* port is the logical device, and only of a chip it recognised, and the   *)
(* one thing elsewhere the bank of the infrared controller (smc.c,         *)
(* winbond.c, nsc.c).                                                      *)
OnlyLooks ==
  [][prog.name = "findchip" =>
       /\ bridge' = bridge
       /\ \A r \in Reg \ {IRCC_MASTER} : regs'[r] # regs[r] =>
            r = \h07 /\ chip.kind \in HasLogicalDevices]_vars

(* What findchip prints is what is built in: the right name, at the right  *)
(* port, once.  No chip answers to the protocol of another, and none is    *)
(* made of the 0xff of an empty port (probe_smc, probe_nsc,                *)
(* probe_winbond), also after a program was killed.                        *)
ReportsTrue ==
  /\ Cardinality(reports) =< 1
  /\ \A i \in reports : i.name = chip.kind /\ i.base = chip.base
=============================================================================
