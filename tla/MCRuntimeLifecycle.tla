------------------------- MODULE MCRuntimeLifecycle -------------------------
(***************************************************************************)
(* Small instances of RuntimeLifecycle for TLC.                            *)
(***************************************************************************)
EXTENDS RuntimeLifecycle

CONSTANTS v1, v2

Plan(visits, retained, moves, closes, hosts) ==
    [visits |-> visits, retained |-> retained, moves |-> moves, closes |-> closes, hosts |-> hosts]

\* Crashes and closing; the same with work to reconcile; moves and closing; visits
\* and moves.
FourPlans == {Plan({}, FALSE, FALSE, TRUE, 3), Plan({}, TRUE, FALSE, TRUE, 4),
              Plan({}, FALSE, TRUE, TRUE, 2), Plan({v1, v2}, FALSE, TRUE, FALSE, 2)}

=============================================================================
