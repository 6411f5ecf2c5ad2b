---------------------------- MODULE AuthorityPlanes ----------------------------
(***************************************************************************)
(* What the host, the router and the page agree on: the planes, and a      *)
(* publication on one of them.  A publication is stamped with a renderer   *)
(* generation and a number by the router (runtime-state.ts).               *)
(***************************************************************************)
EXTENDS Integers, Sequences, SequencesExt

CONSTANT Planes  \* the planes of this instance

Undefined == 0   \* of a generation, an owner or a source sequence: all start at 1

TranscriptKinds == {"start", "delta", "end", "note"}

Publication(p, owner, seq, kind) ==
  [type |-> "publication", plane |-> p, owner |-> owner, seq |-> seq, kind |-> kind,
   gen |-> Undefined, num |-> 0]

Stamped(pub, gen, num) == [pub EXCEPT !.gen = gen, !.num = num]
=============================================================================
