----------------------------- MODULE IrcardLink -----------------------------
(***************************************************************************)
(* The life of one driver instance of pcmcia/ircard_cs.c: attach, the card *)
(* status events, the configuration, the delayed release after a removal,  *)
(* the network interface, detach and the unloading of the module.          *)
(*                                                                         *)
(* Card Services, cardmgr (which binds and unbinds the driver), the timer  *)
(* list and the IrDA device layer are outside the repository and modelled  *)
(* from how the driver uses them.  Every handler runs to its end; what     *)
(* interleaves is which handler runs next.  One instance is modelled.      *)
(*                                                                         *)
(* Not modelled: link->open, which attach zeroes and nothing sets, so that *)
(* the branch of ircard_release that tests it is never taken.  self->stop  *)
(* is set and cleared and never read: frames are sent whatever it says.    *)
(***************************************************************************)
EXTENDS Naturals, FiniteSets

CONSTANTS Entries,   \* number of configuration table entries of the card
          MaxOpens   \* bound on irda_device_open without a close

ASSUME LinkAssumption ==
  Entries \in Nat \ {0} /\ MaxOpens \in Nat

VARIABLES
  card,      \* whether the card is in the socket
  loaded,    \* whether the module is loaded
  link,      \* the dev_link_t and ircard_cb: "none", "live" or "freed"
  bound,     \* cardmgr has bound the driver to the card
  state,     \* link->state: the DEV_ flags that are set
  req,       \* the entry link->io describes, 0 for none
  io,        \* the entry whose I/O ports the socket reserves, 0 for none
  res,       \* what else is held: window, interrupt, configuration
  timer,     \* link->release is in the timer list
  stray,     \* so is the one of a link that has been freed
  stop,      \* self->stop
  devs,      \* irda_device_open calls not undone by irda_device_close
  up         \* the interface is open (and the module use count is 1)

vars == <<card, loaded, link, bound, state, req, io, res, timer, stray, stop,
          devs, up>>

Init ==
  /\ card = FALSE /\ loaded = TRUE
  /\ link = "none" /\ bound = FALSE /\ state = {}
  /\ req = 0 /\ io = 0 /\ res = {}
  /\ timer = FALSE /\ stray = FALSE /\ stop = FALSE /\ devs = 0 /\ up = FALSE
-----------------------------------------------------------------------------
(* The socket (external): the card is put in or taken out. *)
CardMoves ==
  /\ card' = ~card
  /\ UNCHANGED <<loaded, link, bound, state, req, io, res, timer, stray, stop,
                 devs, up>>

(* ircard_attach, called when cardmgr binds the driver to a card.  (When   *)
(* RegisterClient fails the new link is freed again: nothing remains.)     *)
Attach ==
  /\ loaded /\ card /\ ~bound
  /\ link # "live"
  /\ link' = "live"
  /\ bound' = TRUE
  /\ state' = {}
  /\ req' = 0
  /\ stop' = FALSE
  /\ UNCHANGED <<card, loaded, io, res, timer, stray, devs, up>>

(* Mutants: link->io is not released; the link stays marked configured. *)
ReleaseKeepsIo(st, q, held) ==
  /\ res' = {} /\ io' = held /\ req' = q
  /\ state' = st \ {"CONFIG"}

ReleaseKeepsConfig(st, q, held) ==
  /\ res' = {} /\ io' = (IF held = q THEN 0 ELSE held) /\ req' = q
  /\ state' = st

(***************************************************************************)
(* ircard_release, with link->state st, link->io describing entry q and    *)
(* the ports of entry held reserved.  ReleaseIO gives back the ports that  *)
(* link->io describes, and no others.                                      *)
(***************************************************************************)
Release(st, q, held) ==
  /\ res' = {}
  /\ io' = IF held = q THEN 0 ELSE held
  /\ req' = q
  /\ state' = st \ {"CONFIG"}

(***************************************************************************)
(* The configuration table loop of ircard_config that ends at entry k,     *)
(* k > Entries if no entry serves.  RequestIO is refused while ports are   *)
(* reserved, so it succeeds for one entry at most: for k when one serves;  *)
(* otherwise for some entry e whose window cannot be had, and the loop     *)
(* goes on with these ports reserved and link->io overwritten.             *)
(***************************************************************************)
Scan(k, q, held) ==
  IF k <= Entries
  THEN io = 0 /\ q = k /\ held = k
  ELSE /\ q \in {req} \cup 1 .. Entries
       /\ \/ held = io
          \/ io = 0 /\ q > 0 /\ held \in 1 .. q

(* ircard_config, from the state st the insertion event has set. *)
Config(st) ==
  \/ \* the CONFIG tuple cannot be read: cs_failed
     /\ Release(st, req, io)
     /\ UNCHANGED devs
  \/ \E k \in 1 .. Entries + 1, q, held \in 0 .. Entries :
       /\ Scan(k, q, held)
       /\ \/ \* no entry, no interrupt or no configuration: cs_failed
             /\ Release(st, q, held)
             /\ UNCHANGED devs
          \/ /\ k <= Entries
             /\ devs < MaxOpens
             /\ res' = {"win", "irq", "conf"}
             /\ io' = held /\ req' = q
             /\ state' = (st \cup {"CONFIG"}) \ {"CONFIG_PENDING"}
             /\ devs' = devs + 1
-----------------------------------------------------------------------------
(* ircard_event *)
EventInsertion ==
  /\ link = "live" /\ card
  /\ "PRESENT" \notin state
  /\ Config(state \cup {"PRESENT", "CONFIG_PENDING"})
  /\ UNCHANGED <<card, loaded, link, bound, timer, stray, stop, up>>

(* Mutant: the timer is not started. *)
EventRemovalNoTimer ==
  /\ link = "live" /\ ~card
  /\ "PRESENT" \in state
  /\ state' = state \ {"PRESENT"}
  /\ stop' = ("CONFIG" \in state \/ stop)
  /\ UNCHANGED <<card, loaded, link, bound, req, io, res, timer, stray, devs, up>>

EventRemoval ==
  /\ link = "live" /\ ~card
  /\ "PRESENT" \in state
  /\ state' = state \ {"PRESENT"}
  /\ IF "CONFIG" \in state THEN stop' = TRUE /\ timer' = TRUE
                           ELSE UNCHANGED <<stop, timer>>
  /\ UNCHANGED <<card, loaded, link, bound, req, io, res, stray, devs, up>>

(* CS_EVENT_PM_SUSPEND, and CS_EVENT_RESET_PHYSICAL when suspend is false. *)
EventStop(suspend) ==
  /\ link = "live"
  /\ suspend \/ card
  /\ state' = IF suspend THEN state \cup {"SUSPEND"} ELSE state
  /\ stop' = TRUE
  /\ res' = IF "CONFIG" \in state THEN res \ {"conf"} ELSE res
  /\ UNCHANGED <<card, loaded, link, bound, req, io, timer, stray, devs, up>>

(* CS_EVENT_PM_RESUME, and CS_EVENT_CARD_RESET when resume is false; the   *)
(* result of RequestConfiguration is not looked at.                        *)
EventRestart(resume) ==
  /\ link = "live"
  /\ IF resume THEN "SUSPEND" \in state ELSE card
  /\ state' = IF resume THEN state \ {"SUSPEND"} ELSE state
  /\ stop' = FALSE
  /\ IF "CONFIG" \in state THEN res' \in {res, res \cup {"conf"}}
                           ELSE UNCHANGED res
  /\ UNCHANGED <<card, loaded, link, bound, req, io, timer, stray, devs, up>>

(* The release timer: ircard_release 50 ms after a removal. *)
TimerFires ==
  /\ timer /\ link = "live"
  /\ timer' = FALSE
  /\ Release(state, req, io)
  /\ UNCHANGED <<card, loaded, link, bound, stray, stop, devs, up>>

(***************************************************************************)
(* The timer of a freed link runs out: ircard_release is given memory that *)
(* is no longer the link's.  Nothing comes of it, or the memory is that of *)
(* the next link by now and this one is released.  (It may end in a crash  *)
(* as well, and does when the module is gone: nothing happens after that.) *)
(***************************************************************************)
StrayFires ==
  /\ stray /\ loaded
  /\ stray' = FALSE
  /\ \/ UNCHANGED <<state, req, io, res>>
     \/ link = "live" /\ Release(state, req, io)
  /\ UNCHANGED <<card, loaded, link, bound, timer, stop, devs, up>>
-----------------------------------------------------------------------------
(* The second half of ircard_detach: irport_stop, irda_device_close, which *)
(* closes an open interface, and the structures are freed.  A release that *)
(* is still scheduled is not taken out of the timer list.                  *)
Free ==
  /\ link' = "freed"
  /\ stray' = (stray \/ timer) /\ timer' = FALSE
  /\ state' = {}
  /\ devs' = 0
  /\ up' = FALSE

(* ircard_detach, called when cardmgr unbinds the driver. *)
Detach ==
  /\ link = "live" /\ bound
  /\ bound' = FALSE
  /\ IF "CONFIG" \in state
     THEN /\ state' = state \cup {"STALE_LINK"}
          /\ UNCHANGED <<link, timer, stray, devs, up>>
     ELSE Free
  /\ UNCHANGED <<card, loaded, req, io, res, stop>>

(* cleanup_module: release what is configured and detach it.  It neither   *)
(* waits for a release that is scheduled nor deletes its timer.            *)
CleanupModule ==
  /\ loaded /\ ~up
  /\ loaded' = FALSE
  /\ IF link = "live"
     THEN /\ IF "CONFIG" \in state
             THEN res' = {} /\ io' = (IF io = req THEN 0 ELSE io)
             ELSE UNCHANGED <<res, io>>
          /\ bound' = FALSE
          /\ Free
     ELSE UNCHANGED <<res, io, bound, link, state, timer, stray, devs, up>>
  /\ UNCHANGED <<card, req, stop>>

InitModule ==
  /\ ~loaded
  /\ loaded' = TRUE
  /\ UNCHANGED <<card, link, bound, state, req, io, res, timer, stray, stop,
                 devs, up>>
-----------------------------------------------------------------------------
NetOpen ==
  /\ link = "live" /\ devs > 0 /\ ~up
  /\ up' = TRUE
  /\ UNCHANGED <<card, loaded, link, bound, state, req, io, res, timer, stray,
                 stop, devs>>

NetClose ==
  /\ up
  /\ up' = FALSE
  /\ UNCHANGED <<card, loaded, link, bound, state, req, io, res, timer, stray,
                 stop, devs>>

Next ==
  \/ CardMoves \/ Attach \/ EventInsertion \/ EventRemoval
  \/ \E b \in BOOLEAN : EventStop(b) \/ EventRestart(b)
  \/ TimerFires \/ StrayFires \/ Detach \/ CleanupModule \/ InitModule
  \/ NetOpen \/ NetClose

Spec == Init /\ [][Next]_vars

(* Timers that were started run, and Card Services reports removals. *)
FairSpec == Spec /\ WF_vars(TimerFires) /\ WF_vars(EventRemoval)
-----------------------------------------------------------------------------
(***************************************************************************)
(* Whatever ircard_config has got, the ports only as far as link->io still *)
(* describes them, is the property of a link marked configured: a failure  *)
(* at any step, a suspend, a re-insertion before the timer has run, an     *)
(* unload and the timer of a freed link leave no window, no interrupt, no  *)
(* configuration and no described ports behind.                            *)
(***************************************************************************)
HeldWhileConfigured ==
  res # {} \/ (io # 0 /\ io = req) => link = "live" /\ "CONFIG" \in state

(***************************************************************************)
(* DEV_CONFIG is trusted by ircard_event, ircard_detach and cleanup_module *)
(* alike: a link marked configured holds the ports that link->io describes *)
(* and its window and interrupt, though a timer started for an earlier     *)
(* configuration may release the present one.                              *)
(***************************************************************************)
ConfiguredHolds ==
  "CONFIG" \in state => io # 0 /\ io = req /\ {"win", "irq"} \subseteq res

(***************************************************************************)
(* A removed card is released in the end, whatever unbinding, suspending   *)
(* and closing comes between, unless it is inserted again.                 *)
(***************************************************************************)
RemovedIsReleased ==
  (link = "live" /\ "PRESENT" \notin state /\ "CONFIG" \in state)
    ~> ("CONFIG" \notin state \/ "PRESENT" \in state)
=============================================================================
