---------------------------- MODULE MCSessionHost ----------------------------
(***************************************************************************)
(* The two halves of a SessionHost side by side: its transport             *)
(* (HostTransport) and the life of its process (HostProcess).  They share  *)
(* no state: a behaviour exercises one of them and the other stands still. *)
(***************************************************************************)
EXTENDS HostTransport

CONSTANTS Dialogs, Panels, MaxOpened   \* of HostProcess

ASSUME OpenedAssumption == MaxOpened \in Nat

\* Up to three frames, with a call or not, and two of the faults at a time.
Budget(emits, calls, lost, repeated, refused, probes) ==
  [emits |-> emits, calls |-> calls, lost |-> lost, repeated |-> repeated,
   refused |-> refused, probes |-> probes]

FourBudgets == {Budget(3, 0, 1, 0, 1, 1), Budget(3, 1, 1, 1, 0, 0), Budget(3, 1, 1, 0, 0, 1),
                Budget(4, 0, 1, 0, 0, 0)}

VARIABLES
  part,                                  \* the half that the behaviour exercises
  process, owner, start, reload, lease   \* the variables of HostProcess

Process == INSTANCE HostProcess WITH child <- process, host <- owner

still == <<part, process, owner, start, reload, lease>>
all == <<vars, still>>

BothInit ==
  /\ part \in {"transport", "process"} /\ Init /\ Process!Init
  /\ part = "process" => budget = Budget(4, 0, 1, 0, 0, 0)

BothNext ==
  \/ part = "transport" /\ Next /\ UNCHANGED still
  \/ part = "process" /\ Process!Next /\ UNCHANGED <<vars, part>>

\* The fairness of each half, for its own behaviours.
BothFair ==
  /\ WF_all(part = "transport" /\ ChildAnswers /\ UNCHANGED still)
  /\ WF_all(part = "transport" /\ Receive /\ UNCHANGED still)
  /\ WF_all(part = "process" /\ Process!StartupTimeout /\ UNCHANGED <<vars, part>>)
  /\ WF_all(part = "process" /\ Process!DialogTimeout /\ UNCHANGED <<vars, part>>)
  /\ WF_all(part = "process" /\ Process!Terminate /\ UNCHANGED <<vars, part>>)
  /\ WF_all(part = "process" /\ Process!Kill /\ UNCHANGED <<vars, part>>)
  /\ WF_all(part = "process" /\ process.doomed /\ Process!Exit /\ UNCHANGED <<vars, part>>)

BothSpec == BothInit /\ [][BothNext]_all /\ BothFair

\* TimersFollowHumans of HostProcess; see there.
TimersFollowHumans == Process!TimersFollowHumans

\* Whatever main waits for from its child ends: a fence, a start, a stop.
NothingWaitsForever ==
  /\ FenceHeals
  /\ part = "process" => Process!StartEnds
  /\ Process!StopEnds
=============================================================================
