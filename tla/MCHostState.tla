----------------------------- MODULE MCHostState -----------------------------
(***************************************************************************)
(* Three parts of the host's state and of how it leaves the process, side  *)
(* by side: the queue around process.send (IpcSendQueue), who owns the     *)
(* slots of Pi's queues (QueueOwnership), and two planes in one numbering  *)
(* (AuthoritySync, with a fault and a page load).  They share no state: a  *)
(* behaviour exercises one of them and the others stand still.             *)
(***************************************************************************)
EXTENDS IpcSendQueue

VARIABLES
    part,                                     \* the part that the behaviour exercises
    sdk, own, ledger, adm, edit, queueLog,    \* of QueueOwnership
    hostOwner, hostSeq, stream, script, changing, hostWire, mainOwner, router,
    flight, rendererWire, generation, asking, waiting, view, early, faults, asks
                                              \* of AuthoritySync

QueuePlan(lanes, prompts, foreign, texts, edits, escapes, soon, late, quiet) ==
    [lanes |-> lanes, prompts |-> prompts, foreign |-> foreign, texts |-> texts, edits |-> edits,
     escapes |-> escapes, early |-> soon, late |-> late, quiet |-> quiet]
\* Two prompts and an item of the same text in one lane; a prompt and the
\* items of extensions, unseen and early, in both; a turn that ends early.
QueuePlans == {
    QueuePlan({"steer"}, 2, 1, {1}, 1, 0, FALSE, FALSE, FALSE),
    QueuePlan({"steer"}, 2, 0, {1}, 1, 1, FALSE, FALSE, FALSE),
    QueuePlan({"steer", "followUp"}, 1, 2, {2}, 1, 1, TRUE, FALSE, TRUE),
    QueuePlan({"steer"}, 1, 1, {2}, 1, 1, FALSE, TRUE, FALSE)}

Slots == INSTANCE QueueOwnership
           WITH Modes <- {"steer", "followUp"}, MaxPrompts <- 2, MaxForeign <- 2, Texts <- {1},
                Transformed <- 3, Plans <- QueuePlans, log <- queueLog

Sync == INSTANCE AuthoritySync
          WITH Planes <- {"transcript", "extensionUi"}, Successions <- {}, Askers <- {"retry"},
               MaxOwner <- 1, MaxSeq <- [transcript |-> 2, extensionUi |-> 3], MaxGen <- 2,
               MaxFaults <- 1, MaxAsks <- 1, maxBufferedPublications <- 2, maxBaselineAttempts <- 2

slotVars == <<sdk, own, ledger, adm, edit, queueLog>>
syncVars == <<hostOwner, hostSeq, stream, script, changing, hostWire, mainOwner, router, flight,
              rendererWire, generation, asking, waiting, view, early, faults, asks>>
all == <<part, vars, slotVars, syncVars>>

PartInit ==
    /\ part \in {"ipc", "queue", "planes"} /\ Init /\ Slots!Init /\ Sync!Init
    /\ part # "queue" => queueLog.may.late /\ sdk.hooks

PartNext ==
    \/ part = "ipc" /\ Next /\ UNCHANGED <<part, slotVars, syncVars>>
    \/ part = "queue" /\ Slots!Next /\ UNCHANGED <<part, vars, syncVars>>
    \/ part = "planes" /\ Sync!Next /\ UNCHANGED <<part, vars, slotVars>>

PartFair ==
    \A token \in 1..MaxSends :
        WF_all(part = "ipc" /\ Complete(token) /\ UNCHANGED <<part, slotVars, syncVars>>)

PartSpec == PartInit /\ [][PartNext]_all /\ PartFair

\* The properties of QueueOwnership and of AuthoritySync, by name; see there.
SlotsAreTrue == Slots!SlotsAreTrue
QueueKept == Slots!QueueKept
ExtensionUiExact == Sync!ExtensionUiExact
=============================================================================
