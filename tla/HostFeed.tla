-------------------------------- MODULE HostFeed --------------------------------
(***************************************************************************)
(* What SessionHost promises the code that listens to it, whatever the     *)
(* channel to the child does: frames arrive in the child's order and       *)
(* without a hole, except across a fence.  While the feed is fenced        *)
(* nothing is delivered; only a full snapshot, newer than everything       *)
(* delivered, ends the fence.  HostTransport implements this module.       *)
(***************************************************************************)
EXTENDS Naturals

VARIABLES
  at,        \* number of the last frame delivered to the listeners
  following  \* FALSE: fenced, waiting for a full snapshot

feedVars == <<at, following>>

FeedInit == at = 0 /\ following = TRUE

\* The first frame fixes where the feed starts; every later one is the next.
Deliver ==
  /\ following
  /\ IF at = 0 THEN at' \in Nat \ {0} ELSE at' = at + 1
  /\ UNCHANGED following

Fence ==
  /\ following' = FALSE
  /\ UNCHANGED at

Repair ==
  /\ ~following
  /\ following' = TRUE
  /\ at' \in Nat /\ at' > at

FeedNext == Deliver \/ Fence \/ Repair

FeedSpec == FeedInit /\ [][FeedNext]_feedVars
=============================================================================
