------------------------------ MODULE HostProcess ------------------------------
(***************************************************************************)
(* The life of one SessionHost (src/main/pi/session-host.ts): the start    *)
(* that is waited for, the two timers that bound it, the extension UI that *)
(* suspends deadlines while a human answers, and the escalating stop.      *)
(*                                                                         *)
(* The child is unreliable: it may hang, fail, exit or ignore everything   *)
(* but SIGKILL.  Its messages arrive in order and each is handled to       *)
(* completion, so a message of the child is one action.  A surface is a    *)
(* dialog or a panel of an extension; a provisional one belongs to a       *)
(* transition (new, switch, fork, reload) in progress.                     *)
(***************************************************************************)
EXTENDS Naturals, FiniteSets

CONSTANTS
  Dialogs,       \* dialogs the child may open
  Panels,        \* panels the child may open
  MaxOpened      \* bound of the model: surfaces opened

Surfaces == Dialogs \cup Panels

VARIABLES
  child,   \* [alive, ready, open, transition, opened, doomed]: doomed by SIGKILL
  host,    \* the SessionHost: see HostStates
  start,   \* the promise of waitForReady: "none", "waiting", "ready", "failed"
  reload,  \* a lifecycle request: "none", "ticking", "suspended", "settled"
  lease    \* the registry's _lifecycleUiLease

vars == <<child, host, start, reload, lease>>

HostStates ==
  [ready : BOOLEAN,
   startupTimer : BOOLEAN,
   dialogTimer : BOOLEAN,
   startupUi : SUBSET Surfaces,   \* startupUiBlockers
   leaseUi : SUBSET Surfaces,     \* transitionUiBlockers
   stopping : BOOLEAN,            \* shutdownRequested
   connected : BOOLEAN,
   terminateTimer : BOOLEAN,
   killTimer : BOOLEAN]

\* The constructor arms the startup timer; activation waits at once.
Init ==
  /\ child = [alive |-> TRUE, ready |-> FALSE, open |-> {}, transition |-> TRUE,
              opened |-> 0, doomed |-> FALSE]
  /\ host = [ready |-> FALSE, startupTimer |-> TRUE, dialogTimer |-> FALSE,
             startupUi |-> {}, leaseUi |-> {}, stopping |-> FALSE, connected |-> TRUE,
             terminateTimer |-> FALSE, killTimer |-> FALSE]
  /\ start = "waiting"
  /\ reload = "none"
  /\ lease = FALSE

Talks == child.alive /\ host.connected

\* startupReject: the start fails unless it has been settled.
Rejected == IF start = "waiting" THEN "failed" ELSE start

-----------------------------------------------------------------------------
(* Surfaces: what they suspend and what their end resumes.                 *)

PausedKeepingTimer(h, s) ==   \* bug: the short watchdog runs while a human answers
  IF h.ready THEN h
  ELSE [h EXCEPT !.startupUi = @ \cup {s}, !.dialogTimer = TRUE]

\* pauseStartupForUi: the long timer replaces the short one.
Paused(h, s) ==
  IF h.ready THEN h
  ELSE [h EXCEPT !.startupUi = @ \cup {s}, !.startupTimer = FALSE, !.dialogTimer = TRUE]

ResumedUnarmed(h, s) ==   \* bug: the end of the last surface arms no timer
  LET left == h.startupUi \ {s}
  IN  [h EXCEPT !.startupUi = left, !.dialogTimer = @ /\ (h.ready \/ left # {})]

\* resumeStartupAfterUi with armStartupTimer.
Resumed(h, s) ==
  LET left == h.startupUi \ {s}
      over == ~h.ready /\ left = {}
  IN  [h EXCEPT !.startupUi = left,
                !.dialogTimer = @ /\ ~over,
                !.startupTimer = @ \/ over]

SuspendedAlways(surfaces) ==   \* bug: the deadline stays suspended after the last surface
  /\ reload' = IF reload = "ticking" /\ surfaces # {} THEN "suspended" ELSE reload
  /\ lease' = (surfaces # {})

\* add-, remove- and clearTransitionUiBlockers: deadlines of lifecycle requests
\* and the registry's lease follow the set of provisional surfaces.
Leases(surfaces) ==
  /\ reload' = CASE reload = "ticking" /\ surfaces # {} -> "suspended"
                 [] reload = "suspended" /\ surfaces = {} -> "ticking"
                 [] OTHER -> reload
  /\ lease' = (surfaces # {})

-----------------------------------------------------------------------------
(* Messages of the child.                                                  *)

\* extension_ui_request of a dialog, panel_open.
OpenSurface(s) ==
  /\ Talks
  /\ s \notin child.open
  /\ child.opened < MaxOpened
  /\ child' = [child EXCEPT !.open = @ \cup {s}, !.opened = @ + 1]
  /\ LET paused == Paused(host, s)
     IN  host' = IF child.transition THEN [paused EXCEPT !.leaseUi = @ \cup {s}] ELSE paused
  /\ Leases(host'.leaseUi)
  /\ UNCHANGED start

CloseLeavingLease(s) ==   \* bug: a provisional surface that closes stays a blocker
  /\ Talks
  /\ s \in child.open
  /\ child' = [child EXCEPT !.open = @ \ {s}]
  /\ host' = Resumed(host, s)
  /\ UNCHANGED <<start, reload, lease>>

\* ui_ack of a dialog, panel_close.
CloseSurface(s) ==
  /\ Talks
  /\ s \in child.open
  /\ child' = [child EXCEPT !.open = @ \ {s}]
  /\ host' = Resumed([host EXCEPT !.leaseUi = @ \ {s}], s)
  /\ Leases(host'.leaseUi)
  /\ UNCHANGED start

\* panel_clear_all: every panel in turn.
ClearPanels ==
  /\ Talks
  /\ child' = [child EXCEPT !.open = @ \ Panels]
  /\ LET left == host.startupUi \ Panels
         over == ~host.ready /\ left = {} /\ host.startupUi # {}
     IN  host' = [host EXCEPT !.leaseUi = @ \ Panels,
                              !.startupUi = left,
                              !.dialogTimer = @ /\ ~over,
                              !.startupTimer = @ \/ over]
  /\ Leases(host'.leaseUi)
  /\ UNCHANGED start

\* The control payload ready, and the older wire message, which tidies up more.
ReadyMessage(control) ==
  /\ Talks
  /\ ~child.ready
  /\ child' = [child EXCEPT !.ready = TRUE, !.transition = FALSE]
  /\ host' = [host EXCEPT !.ready = TRUE, !.startupTimer = FALSE, !.leaseUi = {},
                          !.dialogTimer = @ /\ control,
                          !.startupUi = IF control THEN @ ELSE {}]
  /\ start' = IF start = "waiting" THEN "ready" ELSE start
  /\ Leases({})

\* A child that is ready begins and ends transitions.
TransitionStarted ==
  /\ Talks
  /\ child.ready /\ ~child.transition
  /\ child' = [child EXCEPT !.transition = TRUE]
  /\ UNCHANGED <<host, start, reload, lease>>

TransitionBatch ==
  /\ Talks
  /\ child.ready /\ child.transition
  /\ child' = [child EXCEPT !.transition = FALSE]
  /\ host' = [host EXCEPT !.leaseUi = {}]
  /\ Leases({})
  /\ UNCHANGED start

\* The error messages of a start, and an error of the process object.
StartError ==
  /\ child.alive /\ ~host.ready
  /\ start' = Rejected
  /\ UNCHANGED <<child, host, reload, lease>>

-----------------------------------------------------------------------------
(* Timers.                                                                 *)

StartupTimeout ==
  /\ host.startupTimer
  /\ host' = [host EXCEPT !.startupTimer = FALSE]
  /\ start' = Rejected
  /\ UNCHANGED <<child, reload, lease>>

DialogTimeout ==
  /\ host.dialogTimer
  /\ host' = [host EXCEPT !.dialogTimer = FALSE]
  /\ start' = Rejected
  /\ UNCHANGED <<child, reload, lease>>

\* requestHost with suspendForLifecycleUi.
ReloadInPlace ==
  /\ Talks
  /\ host.ready /\ reload = "none"
  /\ reload' = IF host.leaseUi # {} THEN "suspended" ELSE "ticking"
  /\ UNCHANGED <<child, host, start, lease>>

\* The answer, or the deadline.
ReloadSettles ==
  /\ \/ reload = "ticking"
     \/ reload = "suspended" /\ Talks
  /\ reload' = "settled"
  /\ UNCHANGED <<child, host, start, lease>>

-----------------------------------------------------------------------------
(* Stop and exit.                                                          *)

StoppedBySignal(h) ==   \* terminateAfterGracefulDisconnect: SIGTERM, then wait
  [h EXCEPT !.terminateTimer = FALSE, !.killTimer = TRUE]

StopKeepingTimers(graceful) ==   \* bug: a stop that is only a request to disconnect
  /\ child.alive /\ ~host.stopping
  /\ host' = [host EXCEPT !.stopping = TRUE, !.startupTimer = FALSE, !.dialogTimer = FALSE,
                          !.connected = FALSE]
  /\ UNCHANGED <<child, start, reload, lease>>

\* graceful: the channel could be disconnected, which asks the child to leave.
Stop(graceful) ==
  /\ child.alive /\ ~host.stopping
  /\ graceful => host.connected
  /\ LET quiet == [host EXCEPT !.stopping = TRUE, !.startupTimer = FALSE,
                               !.dialogTimer = FALSE]
     IN  host' = IF graceful THEN [quiet EXCEPT !.connected = FALSE, !.terminateTimer = TRUE]
                 ELSE StoppedBySignal(quiet)
  /\ UNCHANGED <<child, start, reload, lease>>

Terminate ==
  /\ host.terminateTimer
  /\ host' = StoppedBySignal(host)
  /\ UNCHANGED <<child, start, reload, lease>>

Kill ==
  /\ host.killTimer
  /\ host' = [host EXCEPT !.killTimer = FALSE]
  /\ child' = [child EXCEPT !.doomed = TRUE]
  /\ UNCHANGED <<start, reload, lease>>

\* The exit handler: timers, the start that waits, every pending request.
ExitForgettingStart ==   \* bug: only an error message rejects the start
  /\ child.alive
  /\ child' = [child EXCEPT !.alive = FALSE]
  /\ host' = [host EXCEPT !.startupTimer = FALSE, !.dialogTimer = FALSE, !.connected = FALSE,
                          !.terminateTimer = FALSE, !.killTimer = FALSE]
  /\ reload' = IF reload \in {"ticking", "suspended"} THEN "settled" ELSE reload
  /\ UNCHANGED <<start, lease>>

Exit ==
  /\ child.alive
  /\ child' = [child EXCEPT !.alive = FALSE]
  /\ host' = [host EXCEPT !.startupTimer = FALSE, !.dialogTimer = FALSE, !.connected = FALSE,
                          !.terminateTimer = FALSE, !.killTimer = FALSE]
  /\ start' = Rejected
  /\ reload' = IF reload \in {"ticking", "suspended"} THEN "settled" ELSE reload
  /\ UNCHANGED lease

-----------------------------------------------------------------------------
Next ==
  \/ \E s \in Surfaces : OpenSurface(s) \/ CloseSurface(s)
  \/ ClearPanels
  \/ \E control \in BOOLEAN : ReadyMessage(control)
  \/ TransitionStarted
  \/ TransitionBatch
  \/ StartError
  \/ StartupTimeout
  \/ DialogTimeout
  \/ ReloadInPlace
  \/ ReloadSettles
  \/ \E graceful \in BOOLEAN : Stop(graceful)
  \/ Terminate
  \/ Kill
  \/ Exit

\* Timers run and SIGKILL works; of the child nothing else is expected.
Fairness ==
  /\ WF_vars(StartupTimeout) /\ WF_vars(DialogTimeout)
  /\ WF_vars(Terminate) /\ WF_vars(Kill)
  /\ WF_vars(child.doomed /\ Exit)

Spec == Init /\ [][Next]_vars /\ Fairness

-----------------------------------------------------------------------------
TypeOK ==
  /\ child \in [alive : BOOLEAN, ready : BOOLEAN, open : SUBSET Surfaces,
                transition : BOOLEAN, opened : 0 .. MaxOpened, doomed : BOOLEAN]
  /\ host \in HostStates /\ host.leaseUi \subseteq child.open
  /\ start \in {"waiting", "ready", "failed"}
  /\ reload \in {"none", "ticking", "suspended", "settled"}
  /\ lease \in BOOLEAN

\* A start that is waited for always has a timer running, whatever surfaces
\* opened and closed meanwhile: no order of dialogs and panels leaves it unbounded.
StartupBounded ==
  start = "waiting" /\ child.alive /\ ~host.stopping =>
    host.startupTimer \/ host.dialogTimer

\* The short watchdog never runs while a human still has a surface to answer.
HumanIsNotAHang ==
  host.startupTimer => host.startupUi = {} /\ ~host.ready

\* The deadline of a lifecycle request stands still exactly while provisional
\* surfaces are open, and the registry's lease tells the same.
DeadlinesFollowUi ==
  /\ reload = "ticking" => host.leaseUi = {}
  /\ reload = "suspended" => host.leaseUi # {}
  /\ child.alive => lease = (host.leaseUi # {})

\* A stop never loses its grip: until the process is gone a timer runs that takes
\* the next step, or the last step has been taken.
StopEscalates ==
  host.stopping /\ child.alive => host.terminateTimer \/ host.killTimer \/ child.doomed

\* Every start ends, also when the child hangs with a dialog open.
StartEnds == start = "waiting" ~> start # "waiting"

\* A stop ends the process, also when it ignores the disconnect and SIGTERM.
StopEnds == host.stopping ~> ~child.alive

\* Timers are true: none is missing while something must be bounded, and none
\* runs against a human.
TimersFollowHumans ==
  TypeOK /\ StartupBounded /\ HumanIsNotAHang /\ DeadlinesFollowUi /\ StopEscalates
=============================================================================
