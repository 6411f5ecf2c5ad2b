------------------------------ MODULE MCRegistry ------------------------------
(***************************************************************************)
(* Two models of the registry's session record side by side: who owns its  *)
(* file (SessionLocks), and who has the custody of its editor's text       *)
(* (EditorCustody).  They share no state: a behaviour exercises one of     *)
(* them and the other stands still.                                        *)
(***************************************************************************)
EXTENDS MCSessionLocks

VARIABLES
    part,                             \* the part that the behaviour exercises
    page, main, host, net, editorLog  \* of EditorCustody

EditorPlan(edits, writes, submits, crashes, moves, timeouts, fair) ==
    [edits |-> edits, writes |-> writes, submits |-> submits, crashes |-> crashes,
     moves |-> moves, timeouts |-> timeouts, fair |-> fair]

\* Edits, writes and a submission around two crashes, or one; and, with
\* fairness, a timeout, and a replaced owner with two crashes.
EditorPlans == {
    EditorPlan(2, 1, 1, 2, 0, 0, FALSE),
    EditorPlan(1, 3, 1, 1, 0, 0, FALSE),
    EditorPlan(1, 1, 1, 1, 0, 1, TRUE),
    EditorPlan(1, 1, 1, 2, 1, 0, TRUE)}

Draft == INSTANCE EditorCustody WITH MaxHosts <- 3, Plans <- EditorPlans, log <- editorLog

editorVars == <<page, main, host, net, editorLog>>
all == <<part, vars, editorVars>>

PartInit ==
    /\ part \in {"locks", "editor"} /\ Init /\ Draft!Init
    /\ part # "editor" => editorLog.may = EditorPlan(1, 1, 1, 1, 0, 1, TRUE)

PartNext ==
    \/ part = "locks" /\ Next /\ UNCHANGED <<part, editorVars>>
    \/ part = "editor" /\ Draft!Next /\ UNCHANGED <<part, vars>>

\* The fairness of each part, for its own behaviours.
Editing == part = "editor" /\ editorLog.may.fair /\ UNCHANGED <<part, vars>>
PartFair ==
    /\ Fairness  \* of SessionLocks; its actions are enabled in its part only
    /\ WF_all(Editing /\ Draft!PageSees) /\ WF_all(Editing /\ Draft!HostReceives)
    /\ WF_all(Editing /\ Draft!MainReceives) /\ WF_all(Editing /\ Draft!MoveEnds)
    /\ WF_all(Editing /\ Draft!Restart)

PartSpec == PartInit /\ [][PartNext]_all /\ PartFair

-----------------------------------------------------------------------------
(* The properties of EditorCustody, by name; see there. *)

DraftsKept == Draft!DraftsKept
ComesBack == Draft!ComesBack
=============================================================================
