-------------------------- MODULE IrcardLinkProofs --------------------------
(***************************************************************************)
(* Proofs about the life of a driver instance (IrcardLink).                *)
(*                                                                         *)
(* For every configuration table and any order of events: what the link    *)
(* describes belongs to a link marked configured, and a link so marked     *)
(* holds what it describes.                                                *)
(***************************************************************************)
EXTENDS IrcardLink, TLAPS

Flags == {"PRESENT", "CONFIG_PENDING", "CONFIG", "SUSPEND", "STALE_LINK"}

Switches ==
  /\ card \in BOOLEAN /\ loaded \in BOOLEAN /\ bound \in BOOLEAN
  /\ timer \in BOOLEAN /\ stray \in BOOLEAN /\ stop \in BOOLEAN /\ up \in BOOLEAN

(* The types of the variables (dev_link_t, ircard_cb, dev->start). *)
TypeOK ==
  /\ Switches
  /\ link \in {"none", "live", "freed"}
  /\ state \subseteq Flags
  /\ req \in 0 .. Entries /\ io \in 0 .. Entries
  /\ res \subseteq {"win", "irq", "conf"}
  /\ devs \in Nat

(* Flags are those of a live link: ircard_attach starts with none, and the *)
(* freed structures have none.                                             *)
FlagsOfLive == state # {} => link = "live"

LinkInv == TypeOK /\ FlagsOfLive /\ HeldWhileConfigured /\ ConfiguredHolds
-----------------------------------------------------------------------------
(* ircard_release leaves nothing of what link->io describes. *)
LEMMA ReleaseLinkInv ==
  ASSUME NEW st \in SUBSET Flags, NEW q \in 0 .. Entries, NEW held \in 0 .. Entries,
         Release(st, q, held)
  PROVE  /\ res' = {} /\ state' \subseteq Flags
         /\ io' \in 0 .. Entries /\ req' \in 0 .. Entries
         /\ io' = 0 \/ io' # req'
         /\ "CONFIG" \notin state'
  BY LinkAssumption DEF Release, Flags

(* ircard_config either ends with a release of what it has got so far, or  *)
(* with everything held by a link marked configured.                       *)
LEMMA ConfigEnds ==
  ASSUME TypeOK, NEW st \in SUBSET Flags, Config(st)
  PROVE  /\ state' \subseteq Flags /\ res' \subseteq {"win", "irq", "conf"}
         /\ io' \in 0 .. Entries /\ req' \in 0 .. Entries /\ devs' \in Nat
         /\ \/ res' = {} /\ (io' = 0 \/ io' # req')
            \/ "CONFIG" \in state' /\ io' = req'
         /\ "CONFIG" \in state' => io' # 0 /\ io' = req' /\ {"win", "irq"} \subseteq res'
<1>1. CASE Release(st, req, io) /\ UNCHANGED devs
  BY <1>1, ReleaseLinkInv DEF TypeOK
<1>2. CASE \E k \in 1 .. Entries + 1, q, held \in 0 .. Entries :
             Scan(k, q, held) /\ Release(st, q, held) /\ UNCHANGED devs
  BY <1>2, ReleaseLinkInv DEF TypeOK
<1>3. CASE \E k \in 1 .. Entries + 1, q, held \in 0 .. Entries :
             /\ Scan(k, q, held) /\ k <= Entries
             /\ res' = {"win", "irq", "conf"}
             /\ io' = held /\ req' = q
             /\ state' = (st \cup {"CONFIG"}) \ {"CONFIG_PENDING"}
             /\ devs' = devs + 1
  BY <1>3 DEF TypeOK, Scan, Flags
<1> QED BY <1>1, <1>2, <1>3 DEF Config
-----------------------------------------------------------------------------
(* Initially nothing is held and no timer runs. *)
LEMMA LinkInit == Init => LinkInv
<1>1. Init => Switches
  BY DEF Init, Switches
<1> QED
  BY <1>1, LinkAssumption DEF Init, LinkInv, TypeOK, FlagsOfLive, HeldWhileConfigured,
     ConfiguredHolds, Flags

(* No step of any card gives up what the link owns. *)
LEMMA LinkStep ==
  ASSUME LinkInv, [Next]_vars
  PROVE  LinkInv'
<1>0. Switches'
  <2> USE DEF LinkInv, TypeOK, Switches
  <2>1. CASE EventInsertion \/ Attach \/ CardMoves
    BY <2>1 DEF EventInsertion, Attach, CardMoves
  <2>2. CASE EventRemoval \/ TimerFires \/ StrayFires
    BY <2>2 DEF EventRemoval, TimerFires, StrayFires
  <2>3. CASE \E b \in BOOLEAN : EventStop(b) \/ EventRestart(b)
    BY <2>3 DEF EventStop, EventRestart
  <2>4. CASE Detach \/ CleanupModule \/ InitModule
    BY <2>4 DEF Detach, CleanupModule, InitModule, Free
  <2>5. CASE NetOpen \/ NetClose \/ UNCHANGED vars
    BY <2>5 DEF NetOpen, NetClose, vars
  <2> QED BY <2>1, <2>2, <2>3, <2>4, <2>5 DEF Next
<1> USE <1>0 DEF LinkInv, TypeOK, FlagsOfLive, HeldWhileConfigured, ConfiguredHolds
<1>1. CASE CardMoves
  BY <1>1 DEF CardMoves
<1>2. CASE Attach
  BY <1>2, LinkAssumption DEF Attach
<1>3. CASE EventInsertion
  <2>1. state \cup {"PRESENT", "CONFIG_PENDING"} \in SUBSET Flags
    BY DEF Flags
  <2>2. link' = "live" /\ UNCHANGED <<card, loaded, link, bound, timer, stop, up>>
    BY <1>3 DEF EventInsertion
  <2> QED BY <1>3, <2>1, <2>2, ConfigEnds DEF EventInsertion
<1>4. CASE EventRemoval
  BY <1>4 DEF EventRemoval
<1>5. ASSUME NEW b \in BOOLEAN, EventStop(b) PROVE LinkInv'
  BY <1>5 DEF EventStop, Flags
<1>6. ASSUME NEW b \in BOOLEAN, EventRestart(b) PROVE LinkInv'
  BY <1>6 DEF EventRestart, Flags
<1>7. CASE TimerFires
  BY <1>7, ReleaseLinkInv DEF TimerFires
<1>8. CASE Detach
  <2>1. CASE "CONFIG" \in state
    BY <1>8, <2>1 DEF Detach, Flags
  <2>2. CASE "CONFIG" \notin state
    BY <1>8, <2>2 DEF Detach, Free
  <2> QED BY <2>1, <2>2
<1>9. CASE CleanupModule
  <2>1. CASE link = "live"
    <3>1. /\ link' = "freed" /\ state' = {} /\ devs' = 0 /\ req' = req
          /\ IF "CONFIG" \in state THEN res' = {} /\ io' = (IF io = req THEN 0 ELSE io)
                                   ELSE UNCHANGED <<res, io>>
      BY <1>9, <2>1 DEF CleanupModule, Free
    <3> QED BY <3>1, LinkAssumption
  <2>2. CASE link # "live"
    BY <1>9, <2>2 DEF CleanupModule
  <2> QED BY <2>1, <2>2
<1>10. CASE InitModule
  BY <1>10 DEF InitModule
<1>11. CASE NetOpen \/ NetClose
  BY <1>11 DEF NetOpen, NetClose
<1>12. CASE UNCHANGED vars
  BY <1>12 DEF vars
<1>13. CASE StrayFires
  <2>1. CASE UNCHANGED <<state, req, io, res>>
    BY <1>13, <2>1 DEF StrayFires
  <2>2. CASE link = "live" /\ Release(state, req, io)
    BY <1>13, <2>2, ReleaseLinkInv DEF StrayFires
  <2> QED BY <1>13, <2>1, <2>2 DEF StrayFires
<1> QED
  BY <1>1, <1>2, <1>3, <1>4, <1>5, <1>6, <1>7, <1>8, <1>9, <1>10, <1>11, <1>12, <1>13
  DEF Next

(***************************************************************************)
(* For every card and any order of removals, insertions, timers, detaching *)
(* and unloading: window, interrupt, configuration and the ports link->io  *)
(* describes belong to a link marked configured; no failure, suspend,      *)
(* removal, detach or unload leaves them behind (ircard_config,            *)
(* ircard_release, ircard_detach, cleanup_module).                         *)
(***************************************************************************)
THEOREM LinkOwnsWhatItDescribes == Spec => []HeldWhileConfigured
<1>1. LinkInv /\ [Next]_vars => LinkInv'
  BY LinkStep
<1>2. LinkInv => HeldWhileConfigured
  BY DEF LinkInv
<1> QED BY LinkInit, <1>1, <1>2, PTL DEF Spec

(* For every card and any order of these events: a link that DEV_CONFIG    *)
(* marks as configured holds its ports, its window and its interrupt, also *)
(* when a timer of an earlier configuration releases it.                   *)
THEOREM ConfiguredLinkHolds == Spec => []ConfiguredHolds
<1>1. LinkInv /\ [Next]_vars => LinkInv'
  BY LinkStep
<1>2. LinkInv => ConfiguredHolds
  BY DEF LinkInv
<1> QED BY LinkInit, <1>1, <1>2, PTL DEF Spec
=============================================================================
