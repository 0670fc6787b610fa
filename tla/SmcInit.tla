------------------------------- MODULE SmcInit -------------------------------
(***************************************************************************)
(* The programs that set up the IrCC of an SMC LPC47N227 before its driver *)
(* is loaded: smcinit.c, tosh2450-smcinit.c and tosh1800-smcinit.c.  Each  *)
(* is a table of accesses and the steps that walk through it.              *)
(*                                                                         *)
(* done is what set_smc or main returns.  (The exit status of smcinit is   *)
(* that plus ret_val, which is not initialised without -t.)                *)
(***************************************************************************)
EXTENDS SuperIO

CONSTANTS SmcArgs,    \* command lines of smcinit: [sir, fir, irq, dma, tty]
          ToshArgs    \* of tosh1800-smcinit: [cfg, sir, fir, irq, dma, skipDecoding, skipSmc, print]

(* Numbers on a command line have sixteen bits here. *)
ASSUME ArgsAssumption ==
  \A a \in SmcArgs \cup ToshArgs : {a.sir, a.fir, a.irq, a.dma} \subseteq 0 .. 65535

(* The hubs a program knows, the ports where it looks for the chip and the *)
(* chip ids it accepts.                                                    *)
KnownHubs == [smcinit |-> {"8086:24cc", "8086:248c"}, tosh2450 |-> {"8086:24c0"}]
CfgBases == [smcinit |-> <<\h2E, \h4E>>, tosh2450 |-> <<\h2E>>]
ChipIds == [smcinit |-> {Bits(\h5A), Bits(\h7A)}, tosh2450 |-> {Bits(\h5A)}]

(* What the option --tty or a compiled-in value asks for. *)
Tosh2450Args == [sir |-> \h3F8, fir |-> \h130, irq |-> 7, dma |-> 1, tty |-> FALSE]

(* One entry of a table: register r becomes (r & keep) | put; check says   *)
(* that the value is read back and compared.                               *)
WriteIf(check, r, put) == [reg |-> r, keep |-> {}, put |-> put, check |-> check]
Write(r, put) == WriteIf(FALSE, r, put)
Modify(r, keep, put) == [reg |-> r, keep |-> keep, put |-> put, check |-> FALSE]

BridgeTable(name) ==
  << Write("COM_DEC", Bits(\h10)),
     Modify("LPC_EN", Word \ {1}, {0}),
     IF name = "smcinit" THEN Write("PCI_DMA_C", Bits(\hC0C0))
                         ELSE Modify("PCI_DMA_C", Word, Bits(\hC00C)),
     Write("GEN2_DEC", Bits(\h131)) >>

(* Ports, interrupt and channel, which smcinit compares and tosh2450 does  *)
(* not; IrDA mode, power management, infrared port, power, valid           *)
(* configuration.                                                          *)
UartTable(check, sir, irq, fir, dma) ==
  << Write(\h24, {}), WriteIf(check, \h25, sir), WriteIf(check, \h28, irq),
     WriteIf(check, \h2B, fir), WriteIf(check, \h2C, dma),
     Modify(\h0C, Bits(\hC7), Bits(\h88)),
     Modify(\h07, Byte, Bits(\h20)),
     Modify(\h0A, Byte, Bits(\h40)),
     Write(\h02, Bits(\h80)),
     Modify(\h00, Byte, Bits(\h80)) >>

(* Mutant: the configuration is declared valid before the UART is set up. *)
SmcTableEarly(a) ==
  LET t == UartTable(TRUE, Shr(Bits(a.sir) \cap Bits(\hFF8), 2), Bits(a.irq),
                     Shr(Bits(a.fir) \cap Bits(\hFF8), 3), Bits(a.dma))
  IN <<t[10]>> \o SubSeq(t, 1, 9)

SmcTable(a) ==
  UartTable(TRUE, Shr(Bits(a.sir) \cap Bits(\hFF8), 2), Bits(a.irq),
            Shr(Bits(a.fir) \cap Bits(\hFF8), 3), Bits(a.dma))

Tosh2450Table == UartTable(FALSE, Bits(\hFE), Bits(7), Bits(\h26), Bits(1))

(* onebyte &= ~0x38 | 0x08 keeps bit 3 of CR0C and never sets it. *)
Tosh1800Table(a) ==
  << Write(\h25, Shr(Bits(a.sir), 2) \cap Byte),
     Write(\h2B, Shr(Bits(a.fir), 3) \cap Byte),
     Write(\h2C, Bits(a.dma) \cap Bits(\h0F)),
     Modify(\h28, Bits(\hF0), Bits(a.irq) \cap Bits(\h0F)),
     Modify(\h0C, (Byte \ Bits(\h38)) \cup Bits(\h08), {}),
     Modify(\h07, Byte, Bits(\h20)),
     Modify(\h02, Byte, Bits(\h80)),
     Modify(\h00, Byte, Bits(\h80)) >>

Table == CASE prog.name = "smcinit" -> SmcTable(prog.args)
           [] prog.name = "tosh2450" -> Tosh2450Table
           [] OTHER -> Tosh1800Table(prog.args)
-----------------------------------------------------------------------------
StartSmcInit ==
  \/ \E a \in SmcArgs : Start("smcinit", a, IF a.tty THEN "tty" ELSE "hub")
  \/ Start("tosh2450", Tosh2450Args, "hub")
  \/ \E a \in ToshArgs : Start("tosh1800", a, IF a.skipSmc THEN "skipped" ELSE "probe1800")

(* unbind_from_serial: the tty cannot be opened, or its driver refuses. *)
UnbindTty ==
  /\ prog.pc = "tty"
  /\ Ends("failed") \/ GoesTo("hub", 1)
  /\ UNCHANGED <<hardware, open, regs, bridge, reports>>

(* The hub is looked at before anything is written; smcinit also wants to  *)
(* be run by root.                                                         *)
HubCheck ==
  /\ prog.pc = "hub"
  /\ \/ (prog.name = "smcinit" \/ hub \notin KnownHubs[prog.name]) /\ Ends("failed")
     \/ hub \in KnownHubs[prog.name] /\ GoesTo("bridge", 1)
  /\ UNCHANGED <<hardware, open, regs, bridge, reports>>

BridgeStep ==
  /\ prog.pc = "bridge"
  /\ LET t == BridgeTable(prog.name)  w == t[prog.k]
     IN /\ bridge' = [bridge EXCEPT ![w.reg] = (@ \cap w.keep) \cup w.put]
        /\ IF prog.k < Len(t) THEN GoesTo("bridge", prog.k + 1) ELSE GoesTo("probe", 1)
  /\ UNCHANGED <<hardware, open, regs, reports>>

(* The key is written to one of the possible ports and the id is read.  A  *)
(* chip that is not the one wanted is left in configuration state.         *)
ProbeStep ==
  /\ prog.pc = "probe"
  /\ LET port == CfgBases[prog.name][prog.k]
     IN /\ open' = Unlocked(port, <<\h55>>)
        /\ IF InOf(open', port, \h0D) \in ChipIds[prog.name]
           THEN prog' = [prog EXCEPT !.pc = "regs", !.k = 1, !.port = port] /\ UNCHANGED done
           ELSE IF prog.k < Len(CfgBases[prog.name]) THEN GoesTo("probe", prog.k + 1)
           ELSE Ends("failed")
  /\ UNCHANGED <<hardware, regs, bridge, reports>>

(* One register of the table.  outb keeps eight bits of what is asked for; *)
(* the comparison is with all of it.                                       *)
RegStep ==
  /\ prog.pc = "regs"
  /\ LET w == Table[prog.k]
     IN /\ Out(prog.port, w.reg, w.keep, w.put)
        /\ IF w.check /\ regs'[w.reg] # w.put THEN Ends("failed")
           ELSE IF prog.k < Len(Table) THEN GoesTo("regs", prog.k + 1)
           ELSE GoesTo("leave", 1)
  /\ UNCHANGED <<hardware, open, bridge, reports>>

(* Mutant: the configuration state is not left. *)
LeaveStepNot ==
  /\ prog.pc = "leave"
  /\ open' = open
  /\ IF prog.name = "tosh1800" /\ ~prog.args.skipDecoding THEN GoesTo("decode", 1)
     ELSE Ends("ok")
  /\ UNCHANGED <<hardware, regs, bridge, reports>>

LeaveStep ==
  /\ prog.pc = "leave"
  /\ open' = (open /\ ~Locked(prog.port, \hAA))
  /\ IF prog.name = "tosh1800" /\ ~prog.args.skipDecoding THEN GoesTo("decode", 1)
     ELSE Ends("ok")
  /\ UNCHANGED <<hardware, regs, bridge, reports>>
-----------------------------------------------------------------------------
(* tosh1800-smcinit -b: retval is still 0, and the decoding is skipped too. *)
Skipped1800 ==
  /\ prog.pc = "skipped"
  /\ Ends("failed")
  /\ UNCHANGED <<hardware, open, regs, bridge, reports>>

(* configure_smc_ircc reads the version in configuration state, unless the *)
(* ports are refused ...                                                   *)
Probe1800 ==
  /\ prog.pc = "probe1800"
  /\ LET port == prog.args.cfg
     IN \/ /\ open' = Unlocked(port, <<\h55>>)
           /\ prog' = [prog EXCEPT !.pc = "unprobe1800", !.port = port,
                         !.k = IF InOf(open', port, \h0D) = Bits(\h5A) THEN 1 ELSE 0]
           /\ UNCHANGED done
        \/ Ends("failed") /\ UNCHANGED open
  /\ UNCHANGED <<hardware, regs, bridge, reports>>

(* ... leaves that state, and looks the version up ... *)
Unprobe1800 ==
  /\ prog.pc = "unprobe1800"
  /\ open' = (open /\ ~Locked(prog.port, \hAA))
  /\ IF prog.k = 1 THEN GoesTo("enter1800", 1) ELSE Ends("failed")
  /\ UNCHANGED <<hardware, regs, bridge, reports>>

(* ... and configure_47N227_smc_ircc enters it again (it asks for the     *)
(* ports again too, which it already has).                                *)
Enter1800 ==
  /\ prog.pc = "enter1800"
  /\ open' = Unlocked(prog.port, <<\h55>>)
  /\ GoesTo("regs", 1)
  /\ UNCHANGED <<hardware, regs, bridge, reports>>

(* ali1533_ports: the ports whose decoding is known. *)
AliPorts == [p \in {\h130, \h178, \h3F8, \h2F8, \h2E8} |->
               CASE p \in {\h130, \h178} -> [reg |-> "B0", mask |-> Bits(\h80)]
                 [] p = \h3F8 -> [reg |-> "B4", mask |-> Bits(\h80)]
                 [] p = \h2F8 -> [reg |-> "B4", mask |-> Bits(\h30)]
                 [] OTHER -> [reg |-> "B4", mask |-> Bits(\h08)]]

(* An unknown port is reported as enabled, and nothing is done. *)
set_ali1533_port(p) ==
  bridge' = IF p \in DOMAIN AliPorts
            THEN [bridge EXCEPT ![AliPorts[p].reg] = @ \cup AliPorts[p].mask]
            ELSE bridge

(* configure_ali1533_smc_ports_decoding: first sirbase, then firbase. *)
Decode1800 ==
  /\ prog.pc = "decode"
  /\ IF hub # "10b9:1533" THEN Ends("failed") /\ UNCHANGED bridge
     ELSE IF prog.args.print THEN Ends("ok") /\ UNCHANGED bridge
     ELSE /\ set_ali1533_port(IF prog.k = 1 THEN prog.args.sir ELSE prog.args.fir)
          /\ IF prog.k = 1 THEN GoesTo("decode", 2) ELSE Ends("ok")
  /\ UNCHANGED <<hardware, open, regs, reports>>

SmcInitStep ==
  \/ UnbindTty \/ HubCheck \/ BridgeStep \/ ProbeStep \/ RegStep \/ LeaveStep
  \/ Skipped1800 \/ Probe1800 \/ Unprobe1800 \/ Enter1800 \/ Decode1800
=============================================================================
