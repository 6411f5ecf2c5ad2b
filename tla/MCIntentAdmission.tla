-------------------------- MODULE MCIntentAdmission --------------------------
(***************************************************************************)
(* Small instances of IntentAdmission for TLC: two prompts and one intent  *)
(* of each other kind, asked together as far as the plans say.             *)
(***************************************************************************)
EXTENDS IntentAdmission

CONSTANTS p1, p2, c1, n1, r1

Plan(asked, rejects, fails, cleanup, auto, escapes, fair) ==
    [asked |-> asked, rejects |-> rejects, compactFails |-> fails, cleanupFails |-> cleanup,
     auto |-> auto, escapes |-> escapes, fair |-> fair]

\* A compaction that fails, Escape and rejections; a compaction of Pi's own that
\* fails around a drained prompt; a navigation with a compaction of Pi's own;
\* every barrier with one prompt; and, with fairness, compaction and reload,
\* navigation and Escape.
SevenPlans == {
    Plan({p1, p2, c1}, TRUE, TRUE, TRUE, 0, 1, FALSE),
    Plan({p1, p2, c1}, FALSE, TRUE, FALSE, 1, 0, FALSE),
    Plan({p1, p2, n1}, TRUE, FALSE, FALSE, 1, 0, FALSE),
    Plan({p1, c1, n1, r1}, TRUE, TRUE, TRUE, 0, 1, FALSE),
    Plan({p1, p2, c1}, FALSE, FALSE, FALSE, 0, 0, TRUE),
    Plan({p1, p2, n1}, FALSE, FALSE, FALSE, 0, 1, TRUE),
    Plan({p1, r1}, FALSE, FALSE, FALSE, 1, 0, TRUE)}

\* Two prompts kept by barriers of two kinds, and a compaction of Pi's own.
TwoBarriers == {Plan({p1, p2, c1, n1}, FALSE, TRUE, FALSE, 1, 0, FALSE)}

=============================================================================
