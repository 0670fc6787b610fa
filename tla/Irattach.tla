------------------------------ MODULE Irattach ------------------------------
(***************************************************************************)
(* irattach/irattach.c and the parts of util.c it uses: processes that     *)
(* bind the IrDA stack to a tty, to a named interface or to the interfaces *)
(* of a module, become daemons, bring the interface up and wait for a      *)
(* signal, whose handler undoes the work and exits.                        *)
(*                                                                         *)
(* Several irattach processes run side by side and share the pid file, the *)
(* list of interfaces and the discovery parameter.  A signal arrives at    *)
(* any step; before the handlers are set it kills the process, afterwards  *)
(* it starts cleanup, also in the middle of another cleanup (a SIGHUP      *)
(* interrupts the handler of SIGTERM).  Every system call whose result     *)
(* decides what the program does next may fail; the calls with which       *)
(* cleanup puts saved values back only log a failure and are taken to      *)
(* succeed.                                                                *)
(***************************************************************************)
EXTENDS Naturals, FiniteSets

CONSTANTS Proc,        \* processes, the ones forked for a module included
          Kind,        \* first argument: "tty", "irda", "module"; or "spare"
          Ifs,         \* interfaces that p's tty, name or module stands for
          Iface,       \* all interfaces
          UpBefore,    \* interfaces that are up before irattach starts
          Foreground,  \* processes started with -b
          Discover,    \* processes started with -s
          NoPid, NoIf, \* no process, no interface
          MaxSignals   \* bound on the signals sent to a process

ASSUME IrattachAssumption ==
  /\ Kind \in [Proc -> {"tty", "irda", "module", "spare"}]
  /\ Ifs \in [Proc -> SUBSET Iface]
  /\ UpBefore \subseteq Iface
  /\ Foreground \subseteq Proc /\ Discover \subseteq Proc
  /\ NoPid \notin Proc /\ NoIf \notin Iface
  /\ MaxSignals \in Nat

VARIABLES
  pc,        \* where each process is
  device,    \* the interface it manages, NoIf while device is no interface
  before,    \* interfaces seen before the module was loaded
  opened,    \* devfd # -1
  termvalid, initdisc,  \* whether termsave / initdisc hold saved values
  termios, disc,        \* of p's tty: "found" or "irda"
  ifstate,   \* "absent", "down" or "up", for every interface
  pidfile,   \* the process whose number is in the pid file
  discovery, \* /proc/sys/net/irda/discovery was set
  signals    \* signals each process got

ttyv == <<opened, termvalid, initdisc, termios, disc>>
vars == <<pc, device, before, ttyv, ifstate, pidfile, discovery, signals>>

Present == {i \in Iface : ifstate[i] # "absent"}
Ended == {"none", "exited", "dead"}
Untrapped == {"start", "listed", "loaded", "attached", "daemon"}
Cleaning == {"ifdown", "setdisc", "settermios", "close", "unlink"}
Trapped == {"trapped", "saved", "raw", "gotdisc", "irda", "named", "dongle",
            "ready", "running"} \cup Cleaning

Init ==
  /\ pc = [p \in Proc |-> IF Kind[p] = "spare" THEN "none" ELSE "start"]
  /\ device = [p \in Proc |-> NoIf]
  /\ before = [p \in Proc |-> {}]
  /\ opened = [p \in Proc |-> FALSE]
  /\ termvalid = [p \in Proc |-> FALSE]
  /\ initdisc = [p \in Proc |-> FALSE]
  /\ termios = [p \in Proc |-> "found"]
  /\ disc = [p \in Proc |-> "found"]
  /\ ifstate = [i \in Iface |-> IF i \in UpBefore THEN "up" ELSE "absent"]
  /\ pidfile = NoPid
  /\ discovery = FALSE
  /\ signals = [p \in Proc |-> 0]

Goto(p, from, to) == pc[p] = from /\ pc' = [pc EXCEPT ![p] = to]

(* Loading a module (external) makes its missing interfaces appear. *)
Appear(S) ==
  ifstate' = [i \in Iface |->
                IF i \in S /\ ifstate[i] = "absent" THEN "down" ELSE ifstate[i]]
Vanish(S) ==
  ifstate' = [i \in Iface |-> IF i \in S THEN "absent" ELSE ifstate[i]]
-----------------------------------------------------------------------------
(* main, up to fork_now.  A failure here ends the process with exit. *)
OpenTty(p) ==
  /\ Kind[p] = "tty"
  /\ \/ Goto(p, "start", "attached") /\ opened' = [opened EXCEPT ![p] = TRUE]
     \/ Goto(p, "start", "exited") /\ UNCHANGED opened
  /\ UNCHANGED <<device, before, termvalid, initdisc, termios, disc, ifstate,
                 pidfile, discovery, signals>>

(* The result of load_module is ignored for a named interface. *)
LoadNamed(p) ==
  /\ Kind[p] = "irda"
  /\ Goto(p, "start", "attached")
  /\ \E i \in Ifs[p] : device' = [device EXCEPT ![p] = i]
  /\ Appear(Ifs[p]) \/ UNCHANGED ifstate
  /\ UNCHANGED <<before, ttyv, pidfile, discovery, signals>>

(* get_module_devices: the list before, the module, the list after. *)
ListBefore(p) ==
  /\ Kind[p] = "module"
  /\ Goto(p, "start", "listed")
  /\ before' = [before EXCEPT ![p] = Present]
  /\ UNCHANGED <<device, ttyv, ifstate, pidfile, discovery, signals>>

LoadModule(p) ==
  /\ \/ Goto(p, "listed", "loaded") /\ Appear(Ifs[p])
     \/ Goto(p, "listed", "exited") /\ UNCHANGED ifstate
  /\ UNCHANGED <<device, before, ttyv, pidfile, discovery, signals>>

(* The first new interface is p's; a child is forked for each other one.   *)
(* Without any interface the process exits; without a new one device keeps *)
(* the name of the module.                                                 *)
ListAfter(p) ==
  /\ pc[p] = "loaded"
  /\ LET new == Present \ before[p] IN
     \/ /\ Present = {}
        /\ pc' = [pc EXCEPT ![p] = "exited"]
        /\ UNCHANGED device
     \/ /\ Present # {} /\ new = {}
        /\ pc' = [pc EXCEPT ![p] = "attached"]
        /\ UNCHANGED device
     \/ \E first \in new :
        \E child \in [new \ {first} -> {q \in Proc : pc[q] = "none"}] :
          /\ \A i, j \in DOMAIN child : i # j => child[i] # child[j]
          /\ LET of(q) == CHOOSE i \in DOMAIN child : child[i] = q
                 forked == {child[i] : i \in DOMAIN child}
             IN  /\ device' = [q \in Proc |-> IF q = p THEN first
                                              ELSE IF q \in forked THEN of(q)
                                              ELSE device[q]]
                 /\ pc' = [q \in Proc |-> IF q \in forked \cup {p} THEN "attached"
                                          ELSE pc[q]]
  /\ UNCHANGED <<before, ttyv, ifstate, pidfile, discovery, signals>>

(* fork_now and write_pid, or -b. *)
Daemonize(p) ==
  /\ Goto(p, "attached", "daemon")
  /\ pidfile' = IF p \in Foreground THEN pidfile ELSE p
  /\ UNCHANGED <<device, before, ttyv, ifstate, discovery, signals>>

TrapSignals(p) ==
  /\ Goto(p, "daemon", IF Kind[p] = "tty" THEN "trapped" ELSE "named")
  /\ UNCHANGED <<device, before, ttyv, ifstate, pidfile, discovery, signals>>
-----------------------------------------------------------------------------
(* start_tty.  Each step may fail, which calls clean_exit. *)
SaveTermios(p) ==
  /\ \/ Goto(p, "trapped", "saved") /\ termvalid' = [termvalid EXCEPT ![p] = TRUE]
     \/ Goto(p, "trapped", "ifdown") /\ UNCHANGED termvalid
  /\ UNCHANGED <<device, before, opened, initdisc, termios, disc, ifstate,
                 pidfile, discovery, signals>>

SetTermios(p) ==
  /\ \/ Goto(p, "saved", "raw") /\ termios' = [termios EXCEPT ![p] = "irda"]
     \/ Goto(p, "saved", "ifdown") /\ UNCHANGED termios
  /\ UNCHANGED <<device, before, opened, termvalid, initdisc, disc, ifstate,
                 pidfile, discovery, signals>>

(* Mutant: the discipline is set before the old one is read. *)
GetDiscLate(p) ==
  /\ Goto(p, "raw", "gotdisc")
  /\ UNCHANGED <<device, before, ttyv, ifstate, pidfile, discovery, signals>>

GetDisc(p) ==
  /\ \/ Goto(p, "raw", "gotdisc") /\ initdisc' = [initdisc EXCEPT ![p] = TRUE]
     \/ Goto(p, "raw", "ifdown") /\ UNCHANGED initdisc
  /\ UNCHANGED <<device, before, opened, termvalid, termios, disc, ifstate,
                 pidfile, discovery, signals>>

(* The IrDA line discipline makes the interface appear. *)
SetDisc(p) ==
  /\ \/ /\ Goto(p, "gotdisc", "irda")
        /\ disc' = [disc EXCEPT ![p] = "irda"]
        /\ Appear(Ifs[p])
     \/ Goto(p, "gotdisc", "ifdown") /\ UNCHANGED <<disc, ifstate>>
  /\ UNCHANGED <<device, before, opened, termvalid, initdisc, termios,
                 pidfile, discovery, signals>>

(* IRTTY_IOCGNAME *)
GetName(p) ==
  /\ \/ Goto(p, "irda", "named") /\ \E i \in Ifs[p] : device' = [device EXCEPT ![p] = i]
     \/ Goto(p, "irda", "ifdown") /\ UNCHANGED device
  /\ UNCHANGED <<before, ttyv, ifstate, pidfile, discovery, signals>>

(* attach_dongle; without a tty its failure calls clean_exit. *)
AttachDongle(p) ==
  /\ \/ Goto(p, "named", "dongle")
     \/ Kind[p] # "tty" /\ Goto(p, "named", "ifdown")
  /\ UNCHANGED <<device, before, ttyv, ifstate, pidfile, discovery, signals>>

(* set_sysctl_param, whose result is ignored. *)
SetParams(p) ==
  /\ Goto(p, "dongle", "ready")
  /\ discovery' = (discovery \/ p \in Discover)
  /\ UNCHANGED <<device, before, ttyv, ifstate, pidfile, signals>>

IfUp(p) ==
  /\ \/ /\ device[p] \in Present
        /\ Goto(p, "ready", "running")
        /\ ifstate' = [ifstate EXCEPT ![device[p]] = "up"]
     \/ Goto(p, "ready", "ifdown") /\ UNCHANGED ifstate
  /\ UNCHANGED <<device, before, ttyv, pidfile, discovery, signals>>
-----------------------------------------------------------------------------
(* A signal: death, or cleanup from its beginning. *)
Signal(p) ==
  /\ pc[p] \in Untrapped \cup Trapped
  /\ signals[p] < MaxSignals
  /\ signals' = [signals EXCEPT ![p] = @ + 1]
  /\ pc' = [pc EXCEPT ![p] = IF pc[p] \in Untrapped THEN "dead" ELSE "ifdown"]
  /\ opened' = [opened EXCEPT ![p] = IF pc[p] \in Trapped THEN @ ELSE FALSE]
  /\ UNCHANGED <<device, before, termvalid, initdisc, termios, disc, ifstate,
                 pidfile, discovery>>

(* Mutants: a failing ifdown calls clean_exit; only a tty is stopped. *)
IfDownRecurses(p) ==
  /\ Goto(p, "ifdown", IF device[p] \notin Present THEN "ifdown"
                       ELSE IF opened[p] THEN "setdisc" ELSE "unlink")
  /\ ifstate' = IF device[p] \in Present THEN [ifstate EXCEPT ![device[p]] = "down"]
                ELSE ifstate
  /\ UNCHANGED <<device, before, ttyv, pidfile, discovery, signals>>
IfDownTtyOnly(p) ==
  /\ Goto(p, "ifdown", IF opened[p] THEN "setdisc" ELSE "unlink")
  /\ ifstate' = IF opened[p] /\ device[p] \in Present
                THEN [ifstate EXCEPT ![device[p]] = "down"] ELSE ifstate
  /\ UNCHANGED <<device, before, ttyv, pidfile, discovery, signals>>

(* cleanup.  ifdown fails, and nothing happens, when device is absent. *)
IfDown(p) ==
  /\ Goto(p, "ifdown", IF opened[p] THEN "setdisc" ELSE "unlink")
  /\ ifstate' = IF device[p] \in Present THEN [ifstate EXCEPT ![device[p]] = "down"]
                ELSE ifstate
  /\ UNCHANGED <<device, before, ttyv, pidfile, discovery, signals>>

(* Restoring the discipline takes the interface away. *)
RestoreDisc(p) ==
  /\ Goto(p, "setdisc", "settermios")
  /\ IF initdisc[p] /\ disc[p] = "irda"
     THEN disc' = [disc EXCEPT ![p] = "found"] /\ Vanish(Ifs[p])
     ELSE UNCHANGED <<disc, ifstate>>
  /\ UNCHANGED <<device, before, opened, termvalid, initdisc, termios, pidfile,
                 discovery, signals>>

(* Mutant: the saved values are restored only if they are not valid. *)
RestoreTermiosInverted(p) ==
  /\ Goto(p, "settermios", "close")
  /\ termios' = [termios EXCEPT ![p] = IF termvalid[p] THEN @ ELSE "found"]
  /\ UNCHANGED <<device, before, opened, termvalid, initdisc, disc, ifstate,
                 pidfile, discovery, signals>>

RestoreTermios(p) ==
  /\ Goto(p, "settermios", "close")
  /\ termios' = [termios EXCEPT ![p] = IF termvalid[p] THEN "found" ELSE @]
  /\ UNCHANGED <<device, before, opened, termvalid, initdisc, disc, ifstate,
                 pidfile, discovery, signals>>

CloseTty(p) ==
  /\ Goto(p, "close", "unlink")
  /\ opened' = [opened EXCEPT ![p] = FALSE]
  /\ UNCHANGED <<device, before, termvalid, initdisc, termios, disc, ifstate,
                 pidfile, discovery, signals>>

Unlink(p) ==
  /\ Goto(p, "unlink", "exited")
  /\ pidfile' = NoPid
  /\ UNCHANGED <<device, before, ttyv, ifstate, discovery, signals>>
-----------------------------------------------------------------------------
Start(p) == OpenTty(p) \/ LoadNamed(p) \/ ListBefore(p) \/ LoadModule(p)
              \/ ListAfter(p) \/ Daemonize(p) \/ TrapSignals(p)
Setup(p) == SaveTermios(p) \/ SetTermios(p) \/ GetDisc(p) \/ SetDisc(p)
              \/ GetName(p) \/ AttachDongle(p) \/ SetParams(p) \/ IfUp(p)
Cleanup(p) == IfDown(p) \/ RestoreDisc(p) \/ RestoreTermios(p) \/ CloseTty(p)
                \/ Unlink(p)

Next == \E p \in Proc : Start(p) \/ Setup(p) \/ Signal(p) \/ Cleanup(p)

Spec == Init /\ [][Next]_vars

(* The scheduler runs every process. *)
FairSpec ==
  Spec /\ \A p \in Proc : WF_vars(Start(p) \/ Setup(p) \/ Cleanup(p))
-----------------------------------------------------------------------------
TypeOK ==
  /\ pc \in [Proc -> Ended \cup Untrapped \cup Trapped]
  /\ device \in [Proc -> Iface \cup {NoIf}]
  /\ before \in [Proc -> SUBSET Iface]
  /\ opened \in [Proc -> BOOLEAN]
  /\ termvalid \in [Proc -> BOOLEAN]
  /\ initdisc \in [Proc -> BOOLEAN]
  /\ termios \in [Proc -> {"found", "irda"}]
  /\ disc \in [Proc -> {"found", "irda"}]
  /\ ifstate \in [Iface -> {"absent", "down", "up"}]
  /\ pidfile \in Proc \cup {NoPid}
  /\ discovery \in BOOLEAN
  /\ signals \in [Proc -> 0 .. MaxSignals]

(***************************************************************************)
(* However a process ends (a failure at any step of main or start_tty, a   *)
(* signal at any step, a second signal inside cleanup), its tty is closed  *)
(* with the line discipline and the termios it had before.                 *)
(***************************************************************************)
TtyRestored ==
  \A p \in Proc : pc[p] \in Ended =>
                    ~opened[p] /\ termios[p] = "found" /\ disc[p] = "found"

(***************************************************************************)
(* Why the tty is restored: what is changed was saved before and the tty   *)
(* is open, and cleanup undoes the changes in an order that a repetition   *)
(* from its beginning respects.                                            *)
(***************************************************************************)
TtyInv(p) ==
  /\ pc[p] \in {"listed", "loaded"} => Kind[p] = "module"
  /\ pc[p] = "none" => Kind[p] = "spare"
  /\ Kind[p] = "tty" /\ pc[p] \in {"attached", "daemon"} => opened[p]
  /\ pc[p] \in {"trapped", "saved", "raw", "gotdisc"} => opened[p]
  /\ pc[p] \in {"start", "listed", "loaded", "unlink"} \cup Ended => ~opened[p]
  /\ pc[p] = "saved" => termvalid[p]
  /\ pc[p] = "gotdisc" => initdisc[p]
  /\ termios[p] = "irda" => opened[p] /\ termvalid[p] /\ pc[p] \in Trapped
  /\ disc[p] = "irda" => opened[p] /\ initdisc[p] /\ pc[p] \in Trapped
  /\ pc[p] \in {"settermios", "close"} => disc[p] = "found"
  /\ pc[p] = "close" => termios[p] = "found"

IInv == TypeOK /\ \A p \in Proc : TtyInv(p)

(***************************************************************************)
(* An interface a process managed is stopped once that process has run     *)
(* cleanup and no other process manages it.                                *)
(***************************************************************************)
InterfaceStopped ==
  \A p \in Proc :
    /\ pc[p] = "exited"
    /\ device[p] \in Iface
    /\ \A q \in Proc : device[q] = device[p] => pc[q] = "exited"
    => ifstate[device[p]] # "up"

(***************************************************************************)
(* Once cleanup has begun the process exits, whatever fails on the way and *)
(* however often it is interrupted ("will actually exit when a signal      *)
(* arrives", irattach/ChangeLog).                                          *)
(***************************************************************************)
CleanupEnds == \A p \in Proc : pc[p] \in Cleaning ~> pc[p] = "exited"
=============================================================================
