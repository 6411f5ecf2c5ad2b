--------------------------- MODULE MCSessionLocks ---------------------------
(* Instances of SessionLocks for TLC. *)
EXTENDS SessionLocks, TLC

CONSTANTS r1, r2, old, new, other

\* One session, opened from its file or new; it may be replaced onto the others.
OneOpenings == (r1 :> {old, None})
OneTargets == (r1 :> {old, new})

\* Two sessions with files of their own, replaced onto the same file.
SharedOpenings == (r1 :> {old}) @@ (r2 :> {other})
SharedTargets == (r1 :> {new}) @@ (r2 :> {new})
=============================================================================
