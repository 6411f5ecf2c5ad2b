---------------------------- MODULE AuthorityProjection ----------------------------
(***************************************************************************)
(* The page's projection as functions of what it shows, its view:          *)
(* authority-reducer.ts for the cursors and states, transcript.ts for the  *)
(* blocks, and the parts of sessions-store.ts that join them.  "snapshot"  *)
(* is authoritativeSnapshot, "requests" the extension UI shown.  "stale"   *)
(* says that the page knows its transcript to be incomplete and will read  *)
(* the persisted history when idle: until it first has, and whenever       *)
(* entries were dropped (transcriptPresentationDirty).                     *)
(***************************************************************************)
EXTENDS AuthorityPlanes

NoSnapshot == <<Undefined, Undefined>>

NewView ==
  [gen |-> Undefined, pub |-> 0, owner |-> Undefined,
   sync |-> [p \in Planes |-> [state |-> "synchronizing", owner |-> Undefined, seq |-> Undefined]],
   snapshot |-> NoSnapshot, requests |-> {}, blocks |-> <<>>, active |-> 0, stale |-> TRUE]

Following(v, p) == v.sync[p].state = "following"

NeedsBaseline(v) == \E p \in Planes : ~Following(v, p)

AllInShown(v, state) == \* bug: the fence leaves the snapshot in place
  [v EXCEPT !.sync = [p \in Planes |-> [v.sync[p] EXCEPT !.state = state]]]

\* allSynchronizing and unavailableAuthority
AllIn(v, state) ==
  [v EXCEPT !.sync = [p \in Planes |-> [v.sync[p] EXCEPT !.state = state]], !.snapshot = NoSnapshot]

FollowingFor(v, p, owner) == Following(v, p) /\ v.sync[p].owner = owner

PlaneIn(v, p, state) == [v EXCEPT !.sync[p].state = state]

\* What an accepted publication puts on the screen, apart from the transcript.
Accept(v, m) ==
  LET c == [v EXCEPT !.sync[m.plane].seq = m.seq] IN
  CASE m.plane = "semantic"    -> [c EXCEPT !.snapshot = <<m.owner, m.seq>>]
    [] m.plane = "extensionUi" -> [c EXCEPT !.requests = @ \cup {m.seq}]
    [] m.plane = "transcript"  -> c

\* reduceSemantic, reduceTranscript, reduceExtensionUi
ReducePlane(v, m) ==
  IF ~FollowingFor(v, m.plane, m.owner)
  THEN IF m.plane = "semantic" THEN PlaneIn(v, m.plane, "synchronizing") ELSE v
  ELSE CASE m.seq <= v.sync[m.plane].seq -> v
         [] m.seq = v.sync[m.plane].seq + 1 -> Accept(v, m)
         [] OTHER -> LET f == PlaneIn(v, m.plane, "synchronizing") IN
                     IF m.plane = "semantic" THEN [f EXCEPT !.snapshot = NoSnapshot] ELSE f

\* reduceAuthorityPublication
Reduce(v, m) ==
  IF v.gen = Undefined \/ v.gen # m.gen \/ m.num <= v.pub THEN v
  ELSE IF m.num # v.pub + 1 THEN [AllIn(v, "synchronizing") EXCEPT !.pub = m.num]
  ELSE IF m.owner # v.owner THEN v
  ELSE [ReducePlane(v, m) EXCEPT !.pub = m.num]

\* applyEvents: one Pi event on the blocks; an element is the event's number.
Event(v, m) ==
  CASE m.kind = "start" /\ v.active = 0 ->
         [v EXCEPT !.blocks = Append(@, <<m.seq>>), !.active = Len(v.blocks) + 1]
    [] m.kind = "delta" /\ v.active # 0 -> [v EXCEPT !.blocks[v.active] = Append(@, m.seq)]
    [] m.kind = "end" -> [v EXCEPT !.active = 0]
    [] m.kind = "note" -> [v EXCEPT !.blocks = Append(@, <<m.seq>>)]
    [] OTHER -> v

Events(v, messages) == FoldLeft(Event, v, messages)

\* restoreActiveAssistantMessage
RestoreAppending(v, checkpoint) == \* bug: an active block is not replaced
  [v EXCEPT !.blocks = Append(@, checkpoint), !.active = Len(v.blocks) + 1]

Restore(v, checkpoint) ==
  IF checkpoint = <<>> THEN v
  ELSE IF v.active # 0 THEN [v EXCEPT !.blocks[v.active] = checkpoint]
  ELSE [v EXCEPT !.blocks = Append(@, checkpoint), !.active = Len(v.blocks) + 1]

(***************************************************************************)
(* applyAuthorityPublication: held back before the first baseline;         *)
(* reduced; a transcript event is shown if its plane accepted it, else the *)
(* page knows that it dropped one.                                         *)
(***************************************************************************)
Applied(v, m) ==
  LET n == Reduce(v, m)
      accepted == Following(n, "transcript") /\ n.sync["transcript"].seq = m.seq
  IN  IF n = v \/ m.plane # "transcript" THEN n
      ELSE IF accepted THEN Event(n, m) ELSE [n EXCEPT !.stale = TRUE]

(***************************************************************************)
(* applyAuthorityAttach.  Publications that came early fill the replay;    *)
(* main's copy wins.  The baseline is ignored when the page is past it.    *)
(***************************************************************************)
Merged(a, held) ==
  LET extra == {m \in ToSet(held) :
                  /\ m.gen = a.gen /\ m.num > a.hw
                  /\ \A i \in DOMAIN a.replay : a.replay[i].num # m.num}
  IN  SetToSortSeq(ToSet(a.replay) \cup extra, LAMBDA m, n : m.num < n.num)

NeverOvertaken(v, a) == FALSE \* bug: a late baseline rolls a newer projection back

Overtaken(v, a) == v.gen = a.gen /\ v.pub > a.hw

InstallKeepingRequests(v, a) == \* bug: the dialogs of a baseline are not installed
  [v EXCEPT !.gen = a.gen, !.owner = a.owner, !.pub = a.hw,
            !.sync = [p \in Planes |->
                        [state |-> "following", owner |-> a.owner, seq |-> a.cursor[p]]],
            !.snapshot = IF "semantic" \in Planes THEN <<a.owner, a.cursor["semantic"]>> ELSE @]

Install(v, a) ==
  [v EXCEPT !.gen = a.gen, !.owner = a.owner, !.pub = a.hw,
            !.sync = [p \in Planes |->
                        [state |-> "following", owner |-> a.owner, seq |-> a.cursor[p]]],
            !.snapshot = IF "semantic" \in Planes THEN <<a.owner, a.cursor["semantic"]>> ELSE @,
            !.requests = IF "extensionUi" \in Planes THEN 2 .. a.cursor["extensionUi"] ELSE @]

\* reduceAuthorityAttach: a hole in the replay's numbers fences every plane.
ReduceReplay(v, a, replay) ==
  LET hole == {i \in DOMAIN replay : replay[i].num # a.hw + i}
      upTo == IF hole = {} THEN Len(replay) ELSE (CHOOSE i \in hole : \A j \in hole : i <= j) - 1
      n    == FoldLeft(Reduce, v, SubSeq(replay, 1, upTo))
  IN  IF hole = {} THEN n ELSE AllIn(n, "synchronizing")

ShowReplay(v, a, replay) ==
  LET events == SelectSeq(replay, LAMBDA m : m.plane = "transcript")
      before == SelectSeq(events, LAMBDA m : m.seq <= a.through)
      after  == SelectSeq(events, LAMBDA m : m.seq > a.through)
  IN  IF "transcript" \notin Planes THEN v
      ELSE IF Following(v, "transcript")
      THEN Events(Restore(Events(v, before), a.checkpoint), after)
      ELSE [v EXCEPT !.stale = @ \/ events # <<>>]
=============================================================================
