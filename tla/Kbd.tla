--------------------------------- MODULE Kbd ---------------------------------
(***************************************************************************)
(* tekram/irkbd.c, the driver of the IR-660 keyboard and mouse dock.  All  *)
(* of its work is done in signal handlers: SIGIO reads what the dock has   *)
(* sent, SIGALRM (the watchdog timer) sends it the next command.  Either   *)
(* handler can interrupt the other, and both the main program; a handler   *)
(* is not interrupted by its own signal.  stack holds the activations,     *)
(* the running one last.                                                   *)
(*                                                                         *)
(* The dock (external) answers every command with one frame.  A frame is a *)
(* sequence of subframes; Key(n) stands for the n-th input, from the       *)
(* keyboard or the mouse.  Frames are well-formed.                         *)
(***************************************************************************)
EXTENDS Naturals, Sequences, FiniteSets, SequencesExt

CONSTANTS MaxKeys,     \* bound on inputs
          MaxDowns,    \* bound on disconnects
          MaxUnread    \* bound on commands and answers under way

ASSUME KbdAssumption == MaxKeys \in Nat /\ MaxDowns \in Nat /\ MaxUnread \in Nat \ {0}

VARIABLES kstate,     \* self->state
          timer,      \* the watchdog timer: "off", "rate", "timeout"
          connected,  \* self->connected
          main,       \* where the main program is
          stack,      \* the activations of the handlers
          frame,      \* self->frame
          irlink,     \* [up, cmds, frames]: the connection, what is under way
          sigio,      \* SIGIO is pending
          count       \* [keys, downs, fed]: inputs made, disconnects, inputs passed on

kbVars == <<kstate, timer, connected, main, stack, frame, irlink, sigio, count>>

Key(n) == [type |-> "key", n |-> n]
Response(r) == [type |-> r]
NoLink == [up |-> FALSE, cmds |-> <<>>, frames |-> <<>>]

KbdInit ==
  /\ kstate = "IDLE" /\ timer = "off" /\ connected = FALSE
  /\ main = "connect" /\ stack = <<>> /\ frame = <<>>
  /\ irlink = NoLink /\ sigio = FALSE
  /\ count = [keys |-> 0, downs |-> 0, fed |-> 0]

Top == Last(stack)
Pop == stack' = Front(stack)
Goto(pc) == stack' = [stack EXCEPT ![Len(stack)].pc = pc]
NextSubframe == stack' = [stack EXCEPT ![Len(stack)] = [handler |-> "io", pc |-> "parse", n |-> Top.n + 1]]
Runs(handler) == \E i \in DOMAIN stack : stack[i].handler = handler
InMain == stack = <<>> /\ ~sigio
InHandler(handler, pc) == stack # <<>> /\ Top.handler = handler /\ Top.pc = pc
-----------------------------------------------------------------------------
(* irkbd_connect_request, up to the connect that succeeds.  (When it fails *)
(* the program sleeps and tries again.)                                    *)
ConnectRequest ==
  /\ InMain /\ main = "connect" /\ ~irlink.up
  /\ irlink' = [NoLink EXCEPT !.up = TRUE]
  /\ main' = "connected"
  /\ UNCHANGED <<kstate, timer, connected, stack, frame, sigio, count>>

MarkConnected ==
  /\ InMain /\ main = "connected"
  /\ connected' = TRUE /\ main' = "init_kbd"
  /\ UNCHANGED <<kstate, timer, stack, frame, irlink, sigio, count>>

(* main: the two assignments of the state, and the timer. *)
StartInit ==
  /\ InMain
  /\ \/ main = "init_kbd" /\ kstate' = "INIT_KBD" /\ main' = "init_mouse" /\ UNCHANGED timer
     \/ main = "init_mouse" /\ kstate' = "INIT_MOUSE" /\ main' = "start" /\ UNCHANGED timer
     \/ main = "start" /\ timer' = "timeout" /\ main' = "loop" /\ UNCHANGED kstate
  /\ UNCHANGED <<connected, stack, frame, irlink, sigio, count>>

LoopEnds ==
  /\ InMain /\ main = "loop" /\ ~connected
  /\ main' = "connect"
  /\ UNCHANGED <<kstate, timer, connected, stack, frame, irlink, sigio, count>>
-----------------------------------------------------------------------------
(* SIGALRM: the timer is not periodic. *)
WatchdogExpires ==
  /\ timer # "off" /\ ~Runs("alarm")
  /\ Len(irlink.cmds) + Len(irlink.frames) < MaxUnread
  /\ timer' = "off"
  /\ stack' = Append(stack, [handler |-> "alarm", pc |-> "switch", n |-> 0])
  /\ UNCHANGED <<kstate, connected, main, frame, irlink, sigio, count>>

(* irkbd_data_request: one byte is sent, if there is a connection. *)
DataRequest(cmd) == irlink' = IF irlink.up THEN [irlink EXCEPT !.cmds = Append(@, cmd)] ELSE irlink

(* irkbd_watchdog_timer_expired: the command the state calls for; then,    *)
(* when polling, the timer is started again, or polling begins.            *)
WatchdogSends ==
  /\ InHandler("alarm", "switch")
  /\ \/ kstate = "POLLING" /\ DataRequest("ENABLE") /\ Goto("rearm")
     \/ kstate = "READY" /\ DataRequest("ENABLE") /\ Goto("poll")
     \/ kstate = "INIT_KBD" /\ DataRequest("INIT_KBD") /\ Pop
     \/ kstate = "INIT_MOUSE" /\ DataRequest("INIT_MOUSE") /\ Pop
  /\ UNCHANGED <<kstate, timer, connected, main, frame, sigio, count>>

WatchdogReturns ==
  /\ \/ InHandler("alarm", "rearm") /\ timer' = "timeout" /\ UNCHANGED kstate
     \/ InHandler("alarm", "poll") /\ kstate' = "POLLING" /\ UNCHANGED timer
  /\ Pop
  /\ UNCHANGED <<connected, main, frame, irlink, sigio, count>>
-----------------------------------------------------------------------------
(* SIGIO *)
DataIndication ==
  /\ sigio /\ ~Runs("io")
  /\ sigio' = FALSE
  /\ stack' = Append(stack, [handler |-> "io", pc |-> "recv", n |-> 1])
  /\ UNCHANGED <<kstate, timer, connected, main, frame, irlink, count>>

(* Mutant: the socket is non-blocking, and a read of nothing goes unnoticed. *)
RecvNonblocking ==
  /\ InHandler("io", "recv")
  /\ frame' = IF irlink.frames # <<>> THEN Head(irlink.frames) ELSE frame
  /\ irlink' = [irlink EXCEPT !.frames = <<>>]
  /\ connected' = (connected /\ (irlink.up \/ irlink.frames # <<>>))
  /\ Goto("parse")
  /\ UNCHANGED <<kstate, timer, main, sigio, count>>

(* recv takes all there is, but only the first frame will be looked at.    *)
(* When there is no connection the frame that is looked at is the last one *)
(* once more.                                                              *)
Recv ==
  /\ InHandler("io", "recv")
  /\ \/ /\ irlink.frames # <<>>
        /\ frame' = Head(irlink.frames)
        /\ irlink' = [irlink EXCEPT !.frames = <<>>] /\ UNCHANGED connected
     \/ /\ irlink.frames = <<>> /\ ~irlink.up
        /\ connected' = FALSE /\ UNCHANGED <<frame, irlink>>
  /\ Goto("parse")
  /\ UNCHANGED <<kstate, timer, main, sigio, count>>

(* Mutant: an empty answer does not start the timer. *)
SubframeIdle(f) ==
  /\ kstate' = CASE f.type \in {"KBDOK", "KBDERR"} -> "INIT_MOUSE"
                 [] f.type \in {"MSOK", "MSERR"} -> "READY"
                 [] OTHER -> kstate
  /\ count' = [count EXCEPT !.fed = IF f.type = "key" THEN @ + 1 ELSE @]
  /\ IF f.type \in {"LEDOK", "RSPN41"} THEN NextSubframe ELSE Goto("arm")

(* irkbd_handle_mouse, handle_scancode, irkbd_handle_response up to the    *)
(* start of the timer, which "LEDOK" (it stands for all responses that are *)
(* passed over) does without.                                              *)
Subframe(f) ==
  /\ kstate' = CASE f.type \in {"KBDOK", "KBDERR"} -> "INIT_MOUSE"
                 [] f.type \in {"MSOK", "MSERR"} -> "READY"
                 [] OTHER -> kstate
  /\ count' = [count EXCEPT !.fed = IF f.type = "key" THEN @ + 1 ELSE @]
  /\ IF f.type = "LEDOK" THEN NextSubframe ELSE Goto("arm")

ParseFrame ==
  /\ InHandler("io", "parse")
  /\ IF Top.n > Len(frame)
     THEN Pop /\ UNCHANGED <<kstate, count>>
     ELSE Subframe(frame[Top.n])
  /\ UNCHANGED <<timer, connected, main, frame, irlink, sigio>>

(* irkbd_start_watchdog_timer, and on to the next subframe. *)
ArmTimer ==
  /\ InHandler("io", "arm")
  /\ timer' = "rate" /\ NextSubframe
  /\ UNCHANGED <<kstate, connected, main, frame, irlink, sigio, count>>
-----------------------------------------------------------------------------
(* The dock: an answer to a command, with something that starts the timer. *)
Answers(cmd) ==
  CASE cmd = "INIT_KBD" -> {<<Response(r)>> : r \in {"KBDOK", "KBDERR"}}
    [] cmd = "INIT_MOUSE" -> {<<Response(r)>> : r \in {"MSOK", "MSERR"}}
    [] cmd = "ENABLE" -> {<<Response("RSPN41")>>, <<Response("LEDOK"), Response("RSPN41")>>} \cup
         (IF count.keys < MaxKeys
          THEN {<<Key(count.keys + 1)>>, <<Key(count.keys + 1), Response("RSPN41")>>} ELSE {})
DockAnswers ==
  /\ irlink.up /\ irlink.cmds # <<>>
  /\ \E f \in Answers(Head(irlink.cmds)) :
       /\ irlink' = [irlink EXCEPT !.cmds = Tail(@), !.frames = Append(@, f)]
       /\ count' = [count EXCEPT !.keys = IF f[1].type = "key" THEN @ + 1 ELSE @]
  /\ sigio' = TRUE
  /\ UNCHANGED <<kstate, timer, connected, main, stack, frame>>

LinkGoesDown ==
  /\ irlink.up /\ count.downs < MaxDowns
  /\ \E i \in 0 .. Len(irlink.frames) :
       irlink' = [NoLink EXCEPT !.frames = SubSeq(irlink.frames, 1, i)]
  /\ sigio' = TRUE
  /\ count' = [count EXCEPT !.downs = @ + 1]
  /\ UNCHANGED <<kstate, timer, connected, main, stack, frame>>

DriverStep ==
  \/ ConnectRequest \/ MarkConnected \/ StartInit \/ LoopEnds
  \/ WatchdogSends \/ WatchdogReturns \/ DataIndication \/ Recv \/ ParseFrame \/ ArmTimer
KbdNext == DriverStep \/ WatchdogExpires \/ DockAnswers \/ LinkGoesDown
-----------------------------------------------------------------------------
(* An input is passed on at most once, but for a repetition by each of the *)
(* two activations of the SIGIO handler that can meet one disconnect       *)
(* (irkbd_data_indication parses the old frame again when recv fails),     *)
(* however the handlers interrupt each other.                              *)
InputOnce == count.fed =< count.keys + 2 * count.downs

(* While the connection lasts the dock is polled again and again: no       *)
(* interleaving of the handlers leaves the driver with neither a timer nor *)
(* an answer to wait for, though irkbd_watchdog_timer_expired starts no    *)
(* timer in three of the states.  This needs the dock to answer before the *)
(* watchdog expires: with two answers under way the second SIGIO finds     *)
(* nothing to read, and recv blocks in the handler, for ever when that has *)
(* interrupted the watchdog.                                               *)
Overlap == Len(irlink.cmds) + Len(irlink.frames) > 1
KeepsPolling == <>[](irlink.up) => (<>Overlap \/ []<>("ENABLE" \in ToSet(irlink.cmds)))
=============================================================================
