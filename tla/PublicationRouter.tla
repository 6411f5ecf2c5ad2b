---------------------------- MODULE PublicationRouter ----------------------------
(***************************************************************************)
(* Main's RendererPublicationRouter (renderer-publication.ts) as functions *)
(* of its state.  The steps that call them, and the attach that awaits a   *)
(* baseline between two of them, are in AuthoritySync.                     *)
(***************************************************************************)
EXTENDS AuthorityPlanes

CONSTANT maxBufferedPublications

NoCursor == [p \in Planes |-> Undefined]

NewRouter ==
  [expected |-> Undefined, revision |-> 0, state |-> "detached", gen |-> Undefined, next |-> 1,
   fenced |-> {}, buffer |-> <<>>, overflowed |-> FALSE, last |-> NoCursor]

EmptyBuffer(r) == [r EXCEPT !.buffer = <<>>, !.overflowed = FALSE]

DetachedStillAttaching(r) == EmptyBuffer(r) \* bug: the state is left as it was

Detached(r) == [EmptyBuffer(r) EXCEPT !.state = "detached"]

\* What clears before another baseline is asked for.
Restarted(r) == [EmptyBuffer(r) EXCEPT !.last = NoCursor, !.fenced = {}]

\* setExpectedOwner
Expecting(r, owner) ==
  IF r.expected = owner THEN r
  ELSE LET e == [r EXCEPT !.expected = owner, !.revision = @ + 1,
                          !.last = NoCursor, !.fenced = {}]
       IN  CASE r.state = "attaching" -> EmptyBuffer(e)
             [] r.state = "following" -> [e EXCEPT !.state = "synchronizing"]
             [] OTHER -> e

(***************************************************************************)
(* route(publication) for a publication of the expected owner: refused     *)
(* before the first attach and while detached, ignored when old; else it   *)
(* takes a number, even when nobody gets it, and is buffered by an attach  *)
(* or emitted.  A gap fences its plane and is still emitted, so that the   *)
(* renderer sees it.                                                       *)
(***************************************************************************)
Refused(r, pub) ==
  \/ r.expected # pub.owner \/ r.gen = Undefined \/ r.state = "detached"
  \/ r.state = "following" /\ r.last[pub.plane] # Undefined /\ pub.seq <= r.last[pub.plane]

Gap(r, pub) ==
  /\ r.state = "following" /\ r.last[pub.plane] # Undefined
  /\ pub.seq # r.last[pub.plane] + 1

BufferedOneMore(r, pub) == \* bug: the bound is compared before the push
  IF Len(r.buffer) > maxBufferedPublications
  THEN [r EXCEPT !.buffer = <<>>, !.overflowed = TRUE]
  ELSE [r EXCEPT !.buffer = Append(@, pub)]

Buffered(r, pub) ==
  IF Len(r.buffer) + 1 > maxBufferedPublications
  THEN [r EXCEPT !.buffer = <<>>, !.overflowed = TRUE]
  ELSE [r EXCEPT !.buffer = Append(@, pub)]

Routed(r, pub) ==
  IF Refused(r, pub) THEN r
  ELSE LET n == [r EXCEPT !.next = @ + 1] IN
       IF r.state = "attaching" THEN Buffered(n, pub)
       ELSE IF Gap(r, pub) THEN [n EXCEPT !.fenced = @ \cup {pub.plane}]
       ELSE IF r.state = "following" /\ pub.plane \notin r.fenced
       THEN [n EXCEPT !.last[pub.plane] = pub.seq]
       ELSE n

Emitted(r, pub) ==
  IF Refused(r, pub) \/ r.state # "following" THEN <<>>
  ELSE << Stamped(pub, r.gen, r.next) >>

\* The start of performAttach: a younger generation restarts the numbering, and
\* an attach that supersedes another inherits its buffer.
Attaching(r, gen) ==
  LET g == IF gen > r.gen THEN [r EXCEPT !.gen = gen, !.next = 1] ELSE r
      c == IF r.state = "attaching" THEN g ELSE EmptyBuffer(g)
  IN  [c EXCEPT !.state = "attaching"]

-----------------------------------------------------------------------------
(***************************************************************************)
(* performAttach after its await.  classifyBufferedTail: on each plane the *)
(* leading run of the buffer up to the baseline's cursor is covered, the   *)
(* rest is replayed.  A covered transcript event is replayed too, from a   *)
(* cursor rewound to before it, because the baseline only carries the      *)
(* streaming message; "through" then tells the renderer up to where that   *)
(* message already contains the events.                                    *)
(***************************************************************************)
Covered(buffer, cursor, i) ==
  \A j \in 1..i : buffer[j].plane = buffer[i].plane => buffer[j].seq <= cursor[buffer[j].plane]

CoveredBy(buffer, cursor) == {i \in DOMAIN buffer : Covered(buffer, cursor, i)}

At(buffer, positions) ==
  LET order == SetToSortSeq(positions, <) IN [k \in DOMAIN order |-> buffer[order[k]]]

OnTranscript(buffer) == {i \in DOMAIN buffer : buffer[i].plane = "transcript"}

Rewound(baseline, buffer, covered) ==
  LET events == covered \cap OnTranscript(buffer) IN
  IF events = {} THEN baseline.cursor
  ELSE [baseline.cursor EXCEPT !["transcript"] =
          buffer[CHOOSE i \in events : \A j \in events : i <= j].seq - 1]

JoinDroppingCovered(baseline, buffer) == \* bug: covered transcript events are not replayed
  LET covered == CoveredBy(buffer, baseline.cursor) IN
  [cursor |-> baseline.cursor, through |-> Undefined,
   dropped |-> Cardinality(covered), replay |-> At(buffer, DOMAIN buffer \ covered)]

Join(baseline, buffer) ==
  LET covered == CoveredBy(buffer, baseline.cursor)
      rewinds == covered \cap OnTranscript(buffer) # {}
      gone    == covered \ OnTranscript(buffer)
  IN  [cursor  |-> Rewound(baseline, buffer, covered),
       through |-> IF rewinds /\ baseline.checkpoint # <<>>
                   THEN baseline.cursor["transcript"] ELSE Undefined,
       dropped |-> Cardinality(gone),
       replay  |-> At(buffer, DOMAIN buffer \ gone)]

\* contiguousFromBaseline
Contiguous(cursor, replay) ==
  \A i \in DOMAIN replay :
    replay[i].seq = cursor[replay[i].plane]
                    + Cardinality({j \in 1..i : replay[j].plane = replay[i].plane})

Joinable(r, baseline, join) ==
  /\ ~r.overflowed
  /\ r.expected = baseline.owner
  /\ \A i \in DOMAIN join.replay : join.replay[i].owner = baseline.owner
  /\ Contiguous(join.cursor, join.replay)

\* Source cursors: the baseline's, then those of the replay.
Seeded(cursor, replay) ==
  [p \in Planes |-> Max({cursor[p]} \cup {replay[i].seq : i \in {k \in DOMAIN replay : replay[k].plane = p}})]

Followed(r, hw, join) ==
  [EmptyBuffer(r) EXCEPT !.state = "following", !.fenced = {},
                         !.last = Seeded(join.cursor, join.replay),
                         !.next = hw + Len(join.replay) + 1]
=============================================================================
