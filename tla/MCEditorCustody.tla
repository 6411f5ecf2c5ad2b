--------------------------- MODULE MCEditorCustody ---------------------------
(* Instances of EditorCustody for TLC: one fault each, with what it needs. *)
EXTENDS EditorCustody

Plan(edits, writes, submits, crashes, moves, timeouts, fair) ==
    [edits |-> edits, writes |-> writes, submits |-> submits, crashes |-> crashes,
     moves |-> moves, timeouts |-> timeouts, fair |-> fair]

\* A submission and a draft around two crashes; a patch and a replacement; a
\* crash and a replacement.
DraftPlans == {Plan(2, 0, 1, 2, 0, 0, FALSE)}
BatchPlans == {Plan(1, 0, 0, 0, 1, 0, FALSE)}
RestartPlans == {Plan(0, 0, 0, 1, 1, 0, FALSE)}
=============================================================================
