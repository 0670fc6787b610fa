----------------------------- MODULE MCPrograms -----------------------------
(***************************************************************************)
(* The programs of this repository that do not share state with others:    *)
(* the Psion file transfer, irdaspray, the keyboard driver, and irdadump's *)
(* log.  A behaviour is that of one of them; the others are not running.   *)
(***************************************************************************)
EXTENDS Psion, Spray, Kbd, Capture

CONSTANT Programs   \* the programs to be checked
ASSUME ProgramsAssumption == Programs \subseteq {"psion", "spray", "kbd", "capture"}

VARIABLE active

MCOptions ==
  {[echo |-> TRUE, two |-> FALSE, frames |-> 4], [echo |-> TRUE, two |-> TRUE, frames |-> 1],
   [echo |-> FALSE, two |-> FALSE, frames |-> 3], [echo |-> FALSE, two |-> TRUE, frames |-> 1]}

(* Programs that have ended, or were not started. *)
PsionIdle ==
  /\ disk = [n \in File |-> 0] /\ ann = disk
  /\ snd = Sender(Files + 1) /\ rcv = [pc |-> "accept", n |-> 0, size |-> 0]
  /\ conn = [n \in File |-> NoConn]
  /\ out = [n \in File |-> <<>>] /\ told = {} /\ faulty = {}
SprayIdle ==
  /\ opt = [echo |-> FALSE, two |-> FALSE, frames |-> 1]
  /\ inst = [k \in Inst |-> IF k = 1 THEN "failed" ELSE "none"]
  /\ tx = [k \in Inst |-> Off] /\ rx = [k \in Inst |-> Off]
  /\ child = [k \in Inst |-> [pc |-> "none", frame |-> <<>>]]
  /\ sock = [k \in Inst |-> NoSock] /\ listen = TRUE /\ fds = 0
  /\ broke = {} /\ nofork = FALSE

Init ==
  /\ active \in Programs
  /\ IF active = "psion" THEN PsionInit ELSE PsionIdle
  /\ IF active = "spray" THEN SprayInit ELSE SprayIdle
  /\ KbdInit
  /\ CaptureInit /\ (active # "capture" => ~host.little /\ ~host.diff)

Psion == active = "psion" /\ PsionNext /\ UNCHANGED <<spVars, kbVars, cpVars>>
Spray == active = "spray" /\ SprayNext /\ UNCHANGED <<psVars, kbVars, cpVars>>
Kbd == active = "kbd" /\ KbdNext /\ UNCHANGED <<psVars, spVars, cpVars>>
Capture == active = "capture" /\ CaptureNext /\ UNCHANGED <<psVars, spVars, kbVars>>

Next == (Psion \/ Spray \/ Kbd \/ Capture) /\ UNCHANGED active

(* Every process of the program that runs goes on; so do the timer and the *)
(* dock of the keyboard driver, and the kernel refuses a connection to a   *)
(* program that is gone.                                                   *)
Fairness ==
  /\ WF_psVars(active = "psion" /\ SenderStep)
  /\ WF_psVars(active = "psion" /\ ReceiverStep)
  /\ WF_psVars(active = "psion" /\ Refused)
  /\ WF_spVars(active = "spray" /\ ServerAccept)
  /\ WF_spVars(active = "spray" /\ ForkSecond)
  /\ \A k \in Inst :
       /\ WF_spVars(active = "spray" /\ InstanceStep(k))
       /\ WF_spVars(active = "spray" /\ TransmitterStep(k))
       /\ WF_spVars(active = "spray" /\ ChildStep(k))
  /\ WF_kbVars(active = "kbd" /\ DriverStep)
  /\ WF_kbVars(active = "kbd" /\ WatchdogExpires)
  /\ WF_kbVars(active = "kbd" /\ DockAnswers)

vars == <<psVars, spVars, kbVars, cpVars, active>>
Spec == Init /\ [][Next]_vars /\ Fairness
=============================================================================
