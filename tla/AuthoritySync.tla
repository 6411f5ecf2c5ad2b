---------------------------- MODULE AuthoritySync ----------------------------
(***************************************************************************)
(* Authority publications from the session host to the renderer.           *)
(*                                                                         *)
(* The host (state-authority.mjs) owns the session state and publishes it  *)
(* on independent planes, each with its own source sequence.  Main's       *)
(* RendererPublicationRouter (renderer-publication.ts), driven by          *)
(* session-registry.ts, fences predecessors' traffic, numbers what it      *)
(* forwards for one renderer generation, and on an attach joins a baseline *)
(* serialized by the host to the publications buffered meanwhile.  The     *)
(* renderer (authority-reducer.ts, sessions-store.ts) installs baselines   *)
(* and applies publications.  The promise is "exact as of cursor": a       *)
(* following plane shows what the host had shown at the cursor it names.   *)
(*                                                                         *)
(* A semantic publication carries a complete snapshot, an extension UI     *)
(* publication one request, a transcript publication one Pi event.  The    *)
(* source sequence number stands for the payload.  A runtime identity      *)
(* (host instance and session epoch) is a number that grows with every     *)
(* replacement.  The panel plane, whose baselines never start following,   *)
(* is not part of this module.                                             *)
(***************************************************************************)
EXTENDS PublicationRouter, AuthorityProjection

CONSTANTS
  Successions,  \* how the runtime is replaced: by a "transition", by a "restart"
  Askers,       \* who attaches: the retry loop ("retry"), a component ("direct")
  MaxOwner,     \* bound of the model: runtime identities
  MaxSeq,       \* bound of the model: last source sequence, per plane
  MaxGen,       \* bound of the model: renderer generations (page loads)
  MaxFaults,    \* bound of the model: messages lost, timeouts, transitions
  MaxAsks,      \* bound of the model: attach requests a page makes unasked
  maxBaselineAttempts

\* Replacements are modelled for the semantic plane only: a successor's
\* transcript and extension UI are reseeded by other means (the history loader).
ASSUME SyncAssumption ==
  /\ MaxOwner \in Nat \ {0}
  /\ MaxGen \in Nat \ {0}
  /\ maxBaselineAttempts \in Nat \ {0}
  /\ maxBufferedPublications \in Nat
  /\ MaxSeq \in [Planes -> Nat]
  /\ MaxFaults \in Nat
  /\ MaxAsks \in Nat
  /\ Successions \subseteq {"transition", "restart"}
  /\ Askers \subseteq {"retry", "direct"}
  /\ Planes \subseteq {"semantic", "transcript", "extensionUi"}
  /\ MaxOwner > 1 => Planes = {"semantic"}

VARIABLES
  hostOwner,      \* the host's identity
  hostSeq,        \* source sequence of each plane
  stream,         \* events of the assistant message being streamed (the attach checkpoint)
  script,         \* kind of the n-th transcript event, for the record
  changing,       \* a session transition is under way in the host
  hostWire,       \* host -> main, in order
  mainOwner,      \* identity of the registry's current runtime
  router,         \* the RendererPublicationRouter
  flight,         \* the attach in flight in main, or None
  rendererWire,   \* main -> renderer: publications, runtime notices, answers to attaches
  generation,     \* of the renderer page
  asking,         \* attach requests without an answer
  waiting,        \* the retry loop has armed its timer
  view,           \* what the page has reduced and shows
  early,          \* publications that arrived before the page's first baseline
  faults, asks    \* counters of the bounds

hostVars == <<hostOwner, hostSeq, stream, script, changing>>
mainVars == <<mainOwner, router, flight>>
pageVars == <<generation, asking, waiting, view, early>>
vars == <<hostVars, hostWire, mainVars, rendererWire, pageVars, faults, asks>>

None == [none |-> TRUE]

Fault == /\ faults < MaxFaults
         /\ faults' = faults + 1

-----------------------------------------------------------------------------
(***************************************************************************)
(* The host.  A semantic frame is numbered from 1 (an attach that finds    *)
(* none published takes 1 for itself), the presentation planes from 2.     *)
(***************************************************************************)
FirstSeq == [p \in Planes |-> IF p = "semantic" THEN 0 ELSE 1]

\* Pi streams one assistant message at a time; every other event is a note.
KindsNow == IF stream = <<>> THEN {"start", "note"} ELSE {"delta", "end", "note"}

\* publishTranscript's checkpoint: begun, grown and dropped with the message.
Checkpoint(kind, seq) ==
  CASE kind = "start" -> <<seq>>
    [] kind = "delta" -> Append(stream, seq)
    [] kind = "end"   -> <<>>
    [] OTHER          -> stream

PublishTranscript ==
  LET seq == hostSeq["transcript"] + 1 IN
  /\ "transcript" \in Planes /\ seq <= MaxSeq["transcript"]
  /\ hostSeq' = [hostSeq EXCEPT !["transcript"] = seq]
  /\ \E kind \in KindsNow :
       /\ stream' = Checkpoint(kind, seq)
       /\ script' = Append(script, kind)
       /\ hostWire' = Append(hostWire, Publication("transcript", hostOwner, seq, kind))
  /\ UNCHANGED <<hostOwner, changing, mainVars, rendererWire, pageVars, faults, asks>>

PublishExtensionUi ==
  LET seq == hostSeq["extensionUi"] + 1 IN
  /\ "extensionUi" \in Planes /\ seq <= MaxSeq["extensionUi"]
  /\ hostSeq' = [hostSeq EXCEPT !["extensionUi"] = seq]
  /\ hostWire' = Append(hostWire, Publication("extensionUi", hostOwner, seq, "request"))
  /\ UNCHANGED <<hostOwner, stream, script, changing, mainVars, rendererWire,
                 pageVars, faults, asks>>

\* createSemanticFrame and sendFrame, for the owner of the moment.
SemanticFrame(owner, before, kind) ==
  /\ hostSeq["semantic"] < MaxSeq["semantic"]
  /\ hostSeq' = [hostSeq EXCEPT !["semantic"] = @ + 1]
  /\ hostWire' = Append(before, Publication("semantic", owner, hostSeq["semantic"] + 1, kind))

PublishSemantic ==
  /\ "semantic" \in Planes /\ ~changing
  /\ SemanticFrame(hostOwner, hostWire, "frame")
  /\ UNCHANGED <<hostOwner, stream, script, changing, mainVars, rendererWire,
                 pageVars, faults, asks>>

(***************************************************************************)
(* Session transitions: announced at once, then committed under a new      *)
(* epoch (the transition batch, then one semantic frame) or cancelled.     *)
(***************************************************************************)
BeginTransition ==
  /\ "semantic" \in Planes /\ "transition" \in Successions /\ ~changing
  /\ hostSeq["semantic"] < MaxSeq["semantic"]
  /\ Fault
  /\ changing' = TRUE
  /\ hostWire' = Append(hostWire, [type |-> "transition_started"])
  /\ UNCHANGED <<hostOwner, hostSeq, stream, script, mainVars, rendererWire,
                 pageVars, asks>>

CommitTransition ==
  /\ changing /\ hostOwner < MaxOwner
  /\ changing' = FALSE
  /\ hostOwner' = hostOwner + 1
  /\ SemanticFrame(hostOwner', Append(hostWire, [type |-> "transition_batch", owner |-> hostOwner']),
                   "successor")
  /\ UNCHANGED <<stream, script, mainVars, rendererWire, pageVars, faults, asks>>

CancelTransition ==
  /\ changing
  /\ changing' = FALSE
  /\ SemanticFrame(hostOwner, hostWire, "frame")
  /\ UNCHANGED <<hostOwner, stream, script, mainVars, rendererWire, pageVars,
                 faults, asks>>

(***************************************************************************)
(* requestAuthorityAttach, one synchronous turn: refused in a transition,  *)
(* else every plane at its current cursor.  The transcript's part carries  *)
(* only the message being streamed.                                        *)
(***************************************************************************)
AttachSeq == [p \in Planes |-> IF hostSeq[p] = 0 THEN 1 ELSE hostSeq[p]]

HostBaseline ==
  [type |-> "baseline", owner |-> hostOwner, cursor |-> AttachSeq, checkpoint |-> stream]

AnswerAttach ==
  /\ flight # None /\ flight.phase = "asked"
  /\ flight' = [flight EXCEPT !.phase = "answered"]
  /\ IF changing
     THEN /\ hostWire' = Append(hostWire, [type |-> "transitioning"])
          /\ UNCHANGED hostSeq
     ELSE /\ hostWire' = Append(hostWire, HostBaseline)
          /\ hostSeq' = AttachSeq
  /\ UNCHANGED <<hostOwner, stream, script, changing, mainOwner, router, rendererWire,
                 pageVars, faults, asks>>

-----------------------------------------------------------------------------
(***************************************************************************)
(* registry.authorityAttach and router.attach: join the attach in flight   *)
(* for the same generation and owner revision, else start one, which       *)
(* supersedes it.                                                          *)
(***************************************************************************)
Unavailable(who) == [type |-> "answer", who |-> who, ready |-> FALSE]
UnavailableToNobody(whos) == <<>> \* bug: the callers of a failed attach hear nothing
UnavailableTo(whos) == LET s == SetToSeq(whos) IN [i \in DOMAIN s |-> Unavailable(s[i])]

Coalesces(r) ==
  flight # None /\ flight.gen = generation /\ flight.initialRevision = r.revision

Flight(r, whos) ==
  [gen |-> generation, owner |-> mainOwner, revision |-> r.revision,
   initialRevision |-> r.revision, attempt |-> 1, hw |-> r.next - 1, phase |-> "asked",
   baseline |-> None, askers |-> whos]

\* The response to a request nobody waits for is dropped where it is.
WithoutResponse(wire) ==
  SelectSeq(wire, LAMBDA m : m.type \notin {"baseline", "transitioning"})

\* The retry loop asks while a plane is not following, or when its timer fires.
Needed(who) == who = "retry" /\ (NeedsBaseline(view) \/ waiting)

Ask(who) ==
  /\ who \in Askers \ asking
  /\ \/ Needed(who) /\ UNCHANGED asks
     \/ ~Needed(who) /\ asks < MaxAsks /\ asks' = asks + 1
  /\ asking' = asking \cup {who}
  /\ waiting' = (waiting /\ who # "retry")
  /\ LET r == Expecting(router, mainOwner) IN
     IF Coalesces(r)
     THEN /\ router' = r
          /\ flight' = [flight EXCEPT !.askers = @ \cup {who}]
          /\ UNCHANGED <<hostWire, rendererWire>>
     ELSE /\ router' = Attaching(r, generation)
          /\ flight' = Flight(router', {who})
          /\ hostWire' = WithoutResponse(hostWire)
          /\ rendererWire' = rendererWire \o
               (IF flight = None THEN <<>> ELSE UnavailableTo(flight.askers))
  /\ UNCHANGED <<hostVars, mainOwner, generation, view, early, faults>>

(***************************************************************************)
(* Main receives the head of the wire: SessionHost.handleMessage, then the *)
(* registry's handlers.                                                    *)
(***************************************************************************)
ReceivePublication ==
  /\ hostWire # <<>> /\ Head(hostWire).type = "publication"
  /\ LET pub == Head(hostWire)
         r   == Expecting(router, mainOwner)
     IN  IF pub.owner # mainOwner THEN UNCHANGED <<router, rendererWire>>
         ELSE /\ router' = Routed(r, pub)
              /\ rendererWire' = rendererWire \o Emitted(r, pub)
  /\ hostWire' = Tail(hostWire)
  /\ UNCHANGED <<hostVars, mainOwner, flight, pageVars, faults, asks>>

ReceiveControl ==
  /\ hostWire # <<>>
  /\ \/ /\ Head(hostWire).type = "transition_started"
        /\ rendererWire' = Append(rendererWire, [type |-> "unavailable"])
        /\ UNCHANGED <<mainOwner, router>>
     \/ /\ Head(hostWire).type = "transition_batch"
        /\ mainOwner' = Head(hostWire).owner
        /\ router' = Expecting(router, mainOwner')
        /\ UNCHANGED rendererWire
  /\ hostWire' = Tail(hostWire)
  /\ UNCHANGED <<hostVars, flight, pageVars, faults, asks>>

\* The promise of getBaseline resolves; its continuation runs later.
ReceiveResponse ==
  /\ hostWire # <<>> /\ Head(hostWire).type \in {"baseline", "transitioning"}
  /\ flight' = [flight EXCEPT !.phase = "received", !.baseline = Head(hostWire)]
  /\ hostWire' = Tail(hostWire)
  /\ UNCHANGED <<hostVars, mainOwner, router, rendererWire, pageVars, faults, asks>>

(***************************************************************************)
(* The request for a baseline fails: it times out, the transport fence     *)
(* rejects it, or the host process dies.                                   *)
(***************************************************************************)
Pending == flight # None /\ flight.phase \in {"asked", "answered"}

FailPending(r, before) ==
  IF Pending
  THEN /\ router' = Detached(r)
       /\ rendererWire' = before \o UnavailableTo(flight.askers)
       /\ flight' = None
  ELSE /\ router' = r
       /\ rendererWire' = before
       /\ UNCHANGED flight

AttachTimesOut ==
  /\ Pending /\ Fault
  /\ FailPending(router, rendererWire)
  /\ hostWire' = WithoutResponse(hostWire)
  /\ UNCHANGED <<hostVars, mainOwner, pageVars, asks>>

\* A gap in the transport: what is received until it is repaired is dropped.
TransportGap ==
  /\ Fault
  /\ \E k \in DOMAIN hostWire :
       /\ \A i \in 1..k : hostWire[i].type = "publication"
       /\ hostWire' = WithoutResponse(SubSeq(hostWire, k + 1, Len(hostWire)))
  /\ FailPending(router, Append(rendererWire, [type |-> "unavailable"]))
  /\ UNCHANGED <<hostVars, mainOwner, pageVars, asks>>

\* handleRuntimeFailure, then a new host process with sequences of its own: long
\* after the continuation of a response already received.
ReplaceHost ==
  /\ "restart" \in Successions /\ hostOwner < MaxOwner
  /\ flight = None \/ Pending
  /\ hostOwner' = hostOwner + 1
  /\ hostSeq' = FirstSeq
  /\ changing' = FALSE
  /\ hostWire' = <<>>
  /\ mainOwner' = hostOwner'
  /\ FailPending(Expecting(router, hostOwner'), Append(rendererWire, [type |-> "unavailable"]))
  /\ UNCHANGED <<stream, script, pageVars, faults, asks>>

-----------------------------------------------------------------------------
(***************************************************************************)
(* performAttach after its await: the answers, another round, or the end.  *)
(* A ready answer continues the numbering of the generation where the      *)
(* covered publications left it.                                           *)
(***************************************************************************)
ReadyUncounted(who, hw, join) == \* bug: covered publications leave a hole in the numbers
  [type |-> "answer", who |-> who, ready |-> TRUE, gen |-> flight.gen,
   owner |-> flight.baseline.owner, hw |-> flight.hw,
   cursor |-> join.cursor, checkpoint |-> flight.baseline.checkpoint, through |-> join.through,
   replay |-> [i \in DOMAIN join.replay |-> Stamped(join.replay[i], flight.gen, flight.hw + i)]]

Ready(who, hw, join) ==
  [type |-> "answer", who |-> who, ready |-> TRUE, gen |-> flight.gen, owner |-> flight.baseline.owner, hw |-> hw,
   cursor |-> join.cursor, checkpoint |-> flight.baseline.checkpoint, through |-> join.through,
   replay |-> [i \in DOMAIN join.replay |-> Stamped(join.replay[i], flight.gen, hw + i)]]

ReadyTo(whos, hw, join) ==
  LET s == SetToSeq(whos) IN [i \in DOMAIN s |-> Ready(s[i], hw, join)]

Answer(answers) == rendererWire' = rendererWire \o answers /\ flight' = None

\* Another round of the loop, for the given owner revision, or its end.
AnotherRound(r, revision) ==
  IF flight.attempt < maxBaselineAttempts
  THEN /\ router' = r
       /\ flight' = [flight EXCEPT !.attempt = @ + 1, !.revision = revision, !.hw = r.next - 1,
                                   !.phase = "asked", !.baseline = None]
       /\ UNCHANGED rendererWire
  ELSE /\ router' = [r EXCEPT !.state = "synchronizing"]
       /\ Answer(UnavailableTo(flight.askers))

Received == flight # None /\ flight.phase = "received"
Outdated == flight.revision # router.revision

\* The host's proxy refuses the baseline of an owner that a transition has
\* replaced since the baseline came.
ContinueAttach ==
  /\ Received
  /\ LET baseline == flight.baseline
         join     == Join(baseline, router.buffer)
         hw       == flight.hw + join.dropped
         mismatch == baseline.type = "baseline" /\ baseline.owner # mainOwner
     IN  \/ /\ mismatch \/ (~Outdated /\ baseline.type = "transitioning")
            /\ router' = Detached(router)
            /\ Answer(UnavailableTo(flight.askers))
         \/ /\ Outdated /\ ~mismatch
            /\ AnotherRound(Restarted(router), router.revision)
         \/ /\ ~Outdated /\ baseline.type = "baseline"
            /\ ~Joinable(router, baseline, join)
            /\ AnotherRound([Restarted(router) EXCEPT !.expected = baseline.owner], flight.revision)
         \/ /\ ~Outdated /\ baseline.type = "baseline"
            /\ Joinable(router, baseline, join)
            /\ router' = Followed(router, hw, join)
            /\ Answer(IF mainOwner = flight.owner THEN ReadyTo(flight.askers, hw, join)
                      ELSE UnavailableTo(flight.askers))
  /\ UNCHANGED <<hostVars, hostWire, mainOwner, pageVars, faults, asks>>

-----------------------------------------------------------------------------
(***************************************************************************)
(* The wire to the page is FIFO, but what the page does with an answer is  *)
(* the continuation of a promise: later messages may overtake it, though   *)
(* not a later answer.                                                     *)
(***************************************************************************)
Deliverable(type) ==
  {i \in DOMAIN rendererWire :
     /\ rendererWire[i].type = type
     /\ \A j \in 1 .. i - 1 : rendererWire[j].type = "answer" /\ type # "answer"}

DeliverPublication ==
  /\ \E i \in Deliverable("publication") : LET m == rendererWire[i] IN
     /\ rendererWire' = RemoveAt(rendererWire, i)
     /\ IF view.gen = Undefined /\ m.gen = generation
        THEN early' = Append(early, m) /\ UNCHANGED view
        ELSE view' = Applied(view, m) /\ UNCHANGED early
  /\ UNCHANGED <<hostVars, hostWire, mainVars, generation, asking, waiting, faults, asks>>

DeliverNotice ==
  /\ \E i \in Deliverable("unavailable") : rendererWire' = RemoveAt(rendererWire, i)
  /\ view' = AllIn(view, "unavailable")
  /\ UNCHANGED <<hostVars, hostWire, mainVars, generation, asking, waiting, early,
                 faults, asks>>

ApplyAttach(a) ==
  LET installed == Install(view, a)
      replay    == Merged(a, early)
  IN  IF Overtaken(view, a) THEN UNCHANGED <<view, early>>
      ELSE /\ view' = ShowReplay(ReduceReplay(installed, a, replay), a, replay)
           /\ early' = <<>>

AttachForgotten(who) == UNCHANGED <<waiting, view>> \* bug: an unavailable answer is not retried

\* An unavailable answer arms the retry timer; the last retry gives up.
AttachUnavailable(who) ==
  \/ who = "direct" /\ UNCHANGED <<waiting, view>>
  \/ who = "retry" /\ waiting' = TRUE /\ UNCHANGED view
  \/ who = "retry" /\ UNCHANGED waiting /\ view' = AllIn(view, "unavailable")

\* A component's answer may find its question withdrawn.
DeliverAnswer ==
  /\ \E i \in Deliverable("answer") : LET a == rendererWire[i] IN
     /\ rendererWire' = RemoveAt(rendererWire, i)
     /\ asking' = asking \ {a.who}
     /\ \/ a.ready /\ ApplyAttach(a) /\ UNCHANGED waiting
        \/ a.ready /\ a.who = "direct" /\ UNCHANGED <<view, early, waiting>>
        \/ ~a.ready /\ AttachUnavailable(a.who) /\ UNCHANGED early
  /\ UNCHANGED <<hostVars, hostWire, mainVars, generation, faults, asks>>

\* The page is loaded again; what was under way to the old one is lost.
Reload ==
  /\ generation < MaxGen
  /\ generation' = generation + 1
  /\ view' = NewView
  /\ early' = <<>>
  /\ asking' = {} /\ waiting' = FALSE /\ asks' = 0
  /\ rendererWire' = <<>>
  /\ flight' = IF flight = None THEN None ELSE [flight EXCEPT !.askers = {}]
  /\ UNCHANGED <<hostVars, hostWire, mainOwner, router, faults>>

(***************************************************************************)
(* What the first n transcript events amount to, and rehydrateHistory: the *)
(* persisted history (external) replaces the transcript of an idle page.   *)
(* A read that later publications race is not modelled: this one finds the *)
(* page at the host's cursor.                                              *)
(***************************************************************************)
Reference(n) ==
  Events(NewView, [i \in 1 .. n - 1 |-> Publication("transcript", 1, i + 1, script[i])])

Rehydrate ==
  /\ "transcript" \in Planes /\ stream = <<>>
  /\ view.stale /\ Following(view, "transcript")
  /\ view.sync["transcript"].seq = hostSeq["transcript"]
  /\ view' = [view EXCEPT !.blocks = Reference(hostSeq["transcript"]).blocks, !.active = 0,
                          !.stale = FALSE]
  /\ UNCHANGED <<hostVars, hostWire, mainVars, rendererWire, generation, asking, waiting, early,
                 faults, asks>>

-----------------------------------------------------------------------------
Init ==
  /\ hostOwner = 1 /\ hostSeq = FirstSeq /\ stream = <<>> /\ script = <<>> /\ changing = FALSE
  /\ hostWire = <<>>
  /\ mainOwner = 1 /\ router = NewRouter /\ flight = None
  /\ rendererWire = <<>>
  /\ generation = 1 /\ asking = {} /\ waiting = FALSE /\ view = NewView /\ early = <<>>
  /\ faults = 0 /\ asks = 0

Publish == PublishTranscript \/ PublishExtensionUi \/ PublishSemantic

Transition == BeginTransition \/ CommitTransition \/ CancelTransition

Receive == ReceivePublication \/ ReceiveControl \/ ReceiveResponse

Fail == AttachTimesOut \/ TransportGap \/ ReplaceHost

Deliver == DeliverPublication \/ DeliverNotice \/ DeliverAnswer

Next ==
  \/ Publish \/ Transition \/ AnswerAttach
  \/ \E who \in Askers : Ask(who)
  \/ Receive \/ ContinueAttach \/ Fail
  \/ Deliver \/ Reload \/ Rehydrate

Spec == Init /\ [][Next]_vars

(***************************************************************************)
(* Everything under way inside main and on the wires runs to its end, a    *)
(* transition is committed or cancelled, and the page asks while it needs  *)
(* to: the retry timer, a publication, a lifecycle event or the user's     *)
(* focus makes it.                                                         *)
(***************************************************************************)
Settle == CommitTransition \/ CancelTransition

Fairness ==
  /\ WF_vars(AnswerAttach) /\ WF_vars(Settle)
  /\ WF_vars(Receive) /\ WF_vars(ContinueAttach)
  /\ WF_vars(Deliver) /\ WF_vars(Rehydrate)
  /\ WF_vars(\E who \in Askers : Needed(who) /\ Ask(who))

FairSpec == Spec /\ Fairness

-----------------------------------------------------------------------------
(* Properties *)

Sync == [state : {"following", "synchronizing", "unavailable"}, owner : 0..MaxOwner, seq : Nat]

\* The variables have their types: of the router's record, the flight's and the
\* view's, the fields that the other properties read.
TypeOK ==
  /\ hostOwner \in 1..MaxOwner /\ mainOwner \in 1..MaxOwner
  /\ hostSeq \in [Planes -> Nat] /\ changing \in BOOLEAN
  /\ \A n \in DOMAIN script : script[n] \in TranscriptKinds
  /\ router.state \in {"detached", "attaching", "following", "synchronizing"}
  /\ router.fenced \subseteq Planes /\ router.last \in [Planes -> Nat]
  /\ Len(router.buffer) <= maxBufferedPublications
  /\ flight = None \/ flight.phase \in {"asked", "answered", "received"}
  /\ asking \subseteq Askers /\ waiting \in BOOLEAN
  /\ view.sync \in [Planes -> Sync] /\ view.active \in 0 .. Len(view.blocks)
  /\ generation \in 1..MaxGen

\* Nothing is under way between the host and the page.
Quiet ==
  /\ hostWire = <<>> /\ rendererWire = <<>>
  /\ flight = None /\ asking = {}

\* While an attach is in flight the router collects for it, and only then: no
\* error path leaves it retaining publications that nobody will take.
AttachingHasFlight == (router.state = "attaching") <=> (flight # None)

\* When nothing is under way, main and a page that both follow agree on the
\* cursor of every plane and on the number of the next publication: no
\* crossing of answers and publications leaves a silent difference.  (While the
\* first runtime lasts: after a predecessor's late answer the page discards the
\* successor's first publications, and only a later one shows the gap.)
QuietAgreement ==
  Quiet /\ hostOwner = 1 /\ router.gen = generation /\ router.state = "following" /\ view.owner = router.expected
    => \A p \in Planes \ router.fenced :
         Following(view, p) => /\ view.sync[p].seq = router.last[p]
                               /\ view.pub = router.next - 1

\* A page whose router has stopped routing to it is fenced or about to ask
\* again: it never goes on following a source that will stay silent
\* (processes-and-ipc.md:78, a failed baseline leaves no plane following).
FailedBaselineIsFenced ==
  Quiet /\ ~waiting /\ router.gen = generation /\ router.state = "detached"
    => \A p \in Planes : ~Following(view, p)

\* Within one page load, what a plane shows never goes back: not to an older
\* cursor, not to a predecessor's (a late answer, a late publication).
NoRollback ==
  [][ generation' = generation =>
        \A p \in Planes :
          LET old == view.sync[p]  new == view'.sync[p] IN
          old.owner < new.owner \/ (old.owner = new.owner /\ old.seq <= new.seq) ]_vars

\* The snapshot on which the page's controls decide is the one its cursor names,
\* and a page that does not follow has none: a fence, from whichever side it
\* comes, withdraws the values together with the state (processes-and-ipc.md:76).
SnapshotIsCursors ==
  "semantic" \in Planes =>
    view.snapshot = IF Following(view, "semantic")
                    THEN <<view.sync["semantic"].owner, view.sync["semantic"].seq>>
                    ELSE NoSnapshot

\* The requests shown are those of the plane's cursor, none lost in an attach
\* and none beyond it.
ExtensionUiExact ==
  "extensionUi" \in Planes /\ Following(view, "extensionUi")
    => view.requests = 2 .. view.sync["extensionUi"].seq

ShownAt == {at \in (DOMAIN view.blocks) \X (1 .. Len(script) + 1) : at[2] <= Len(view.blocks[at[1]])}

\* No event of the stream is shown twice, however baseline, checkpoint, replay
\* and live publications overlap.
NeverShownTwice ==
  \A at, there \in ShownAt :
    view.blocks[at[1]][at[2]] = view.blocks[there[1]][there[2]] => at = there

\* A following transcript shows exactly what its cursor names, unless the page
\* knows that it has to read the history again (processes-and-ipc.md:68).
TranscriptExact ==
  "transcript" \in Planes /\ Following(view, "transcript") /\ ~view.stale
    => LET now == Reference(view.sync["transcript"].seq) IN
       view.blocks = now.blocks /\ view.active = now.active

\* A page always comes to follow every plane again, whatever was lost or
\* refused: every failure exit tells somebody who asks again.
Recovers == []<>(\A p \in Planes : Following(view, p))

\* When nothing is under way, a page agrees with main or is fenced and about to
\* ask again, and its snapshot is always its cursor's or absent.
AgreedOrFenced == TypeOK /\ QuietAgreement /\ FailedBaselineIsFenced /\ SnapshotIsCursors

\* What is shown of the streamed transcript is neither repeated nor incomplete.
TranscriptFaithful == NeverShownTwice /\ TranscriptExact
=============================================================================
