------------------------- MODULE AuthoritySyncProofs -------------------------
(***************************************************************************)
(* The router retains publications exactly while an attach is in flight,   *)
(* for all planes, owners, bounds and numbers of faults.                   *)
(***************************************************************************)
EXTENDS AuthoritySync, TLAPS

(***************************************************************************)
(* The inductive invariant.  To the property it adds the fields that tell  *)
(* a flight from its absence and that an update of the router has to keep. *)
(***************************************************************************)
MainShape ==
  /\ "state" \in DOMAIN router
  /\ flight # None => "phase" \in DOMAIN flight

MainInv == MainShape /\ AttachingHasFlight

\* A router's field "state" is there and says whether it attaches.
Keeps(r, s) == "state" \in DOMAIN s /\ (s.state = "attaching" <=> r.state = "attaching")

-----------------------------------------------------------------------------
(* None of the router's functions but Attaching enters or leaves "attaching". *)
LEMMA ExpectingKeeps ==
  ASSUME NEW r, NEW owner, "state" \in DOMAIN r
  PROVE  Keeps(r, Expecting(r, owner))
BY DEF Keeps, Expecting, EmptyBuffer

LEMMA BufferedKeeps ==
  ASSUME NEW r, NEW pub, "state" \in DOMAIN r
  PROVE  Keeps(r, Buffered(r, pub))
BY DEF Keeps, Buffered

LEMMA RoutedKeeps ==
  ASSUME NEW r, NEW pub, "state" \in DOMAIN r
  PROVE  Keeps(r, Routed(r, pub))
<1> DEFINE n == [r EXCEPT !.next = @ + 1]
<1>1. Keeps(r, n)
  BY DEF Keeps
<1>2. Keeps(r, Buffered(n, pub))
  BY <1>1, BufferedKeeps DEF Keeps
<1>3. Keeps(r, r)
  BY DEF Keeps
<1>4. Keeps(r, [n EXCEPT !.fenced = @ \cup {pub.plane}])
  BY <1>1 DEF Keeps
<1>5. Keeps(r, [n EXCEPT !.last[pub.plane] = pub.seq])
  BY <1>1 DEF Keeps
<1> QED BY <1>1, <1>2, <1>3, <1>4, <1>5 DEF Routed

LEMMA RestartedKeeps ==
  ASSUME NEW r, "state" \in DOMAIN r
  PROVE  Keeps(r, Restarted(r))
BY DEF Keeps, Restarted, EmptyBuffer

LEMMA DetachedLeaves ==
  ASSUME NEW r, "state" \in DOMAIN r
  PROVE  "state" \in DOMAIN Detached(r) /\ Detached(r).state = "detached"
BY DEF Detached, EmptyBuffer

LEMMA AttachingEnters ==
  ASSUME NEW r, NEW gen, "state" \in DOMAIN r
  PROVE  "state" \in DOMAIN Attaching(r, gen) /\ Attaching(r, gen).state = "attaching"
BY DEF Attaching, EmptyBuffer

(* A new flight, and one whose fields change, is a flight. *)
LEMMA NoneHasNoPhase == "phase" \notin DOMAIN None
BY DEF None

LEMMA FlightIsFlight ==
  ASSUME NEW r, NEW whos
  PROVE  "phase" \in DOMAIN Flight(r, whos) /\ Flight(r, whos) # None
BY NoneHasNoPhase DEF Flight

-----------------------------------------------------------------------------
(* Nothing is in flight at first. *)
LEMMA SyncInit == Init => MainInv
BY DEF Init, MainInv, MainShape, AttachingHasFlight, NewRouter

(* A step that leaves main's attach alone keeps the invariant. *)
LEMMA Untouched == MainInv /\ UNCHANGED <<router, flight>> => MainInv'
BY DEF MainInv, MainShape, AttachingHasFlight

(* A step that only routes keeps it. *)
LEMMA RoutingKeeps ==
  ASSUME MainInv, UNCHANGED flight, Keeps(router, router')
  PROVE  MainInv'
BY DEF MainInv, MainShape, AttachingHasFlight, Keeps

LEMMA AskKeeps ==
  ASSUME MainInv, NEW who \in Askers, Ask(who)
  PROVE  MainInv'
<1> DEFINE r == Expecting(router, mainOwner)
<1>1. Keeps(router, r)
  BY ExpectingKeeps DEF MainInv, MainShape
<1>2. CASE Coalesces(r)
  <2>1. router' = r /\ flight' = [flight EXCEPT !.askers = @ \cup {who}]
    BY <1>2 DEF Ask
  <2>2. flight # None /\ "phase" \in DOMAIN flight
    BY <1>2 DEF Coalesces, MainInv, MainShape
  <2>3. "phase" \in DOMAIN flight' /\ flight' # None
    BY <2>1, <2>2, NoneHasNoPhase
  <2> QED BY <1>1, <2>1, <2>2, <2>3 DEF MainInv, MainShape, AttachingHasFlight, Keeps
<1>3. CASE ~Coalesces(r)
  <2>1. router' = Attaching(r, generation) /\ flight' = Flight(router', {who})
    BY <1>3 DEF Ask
  <2>2. "state" \in DOMAIN router' /\ router'.state = "attaching"
    BY <1>1, <2>1, AttachingEnters DEF Keeps
  <2>3. "phase" \in DOMAIN flight' /\ flight' # None
    BY <2>1, FlightIsFlight
  <2> QED BY <2>2, <2>3 DEF MainInv, MainShape, AttachingHasFlight
<1> QED BY <1>2, <1>3

LEMMA ReceiveKeeps == MainInv /\ Receive => MainInv'
<1> SUFFICES ASSUME MainInv, Receive PROVE MainInv'
  OBVIOUS
<1>0. "state" \in DOMAIN router
  BY DEF MainInv, MainShape
<1>1. CASE ReceivePublication
  <2>1. UNCHANGED flight
    BY <1>1 DEF ReceivePublication
  <2>2. \/ router' = router
        \/ router' = Routed(Expecting(router, mainOwner), Head(hostWire))
    BY <1>1 DEF ReceivePublication
  <2>3. Keeps(router, router')
    BY <1>0, <2>2, ExpectingKeeps, RoutedKeeps DEF Keeps
  <2> QED BY <2>1, <2>3, RoutingKeeps
<1>2. CASE ReceiveControl
  <2>1. UNCHANGED flight
    BY <1>2 DEF ReceiveControl
  <2>2. router' = router \/ router' = Expecting(router, mainOwner')
    BY <1>2 DEF ReceiveControl
  <2>3. Keeps(router, router')
    BY <1>0, <2>2, ExpectingKeeps DEF Keeps
  <2> QED BY <2>1, <2>3, RoutingKeeps
<1>3. CASE ReceiveResponse
  <2>1. /\ UNCHANGED router
        /\ flight' = [flight EXCEPT !.phase = "received", !.baseline = Head(hostWire)]
    BY <1>3 DEF ReceiveResponse
  <2>2. CASE flight = None
    <3>1. flight' = None
      BY <2>1, <2>2 DEF None
    <3> QED BY <2>1, <2>2, <3>1, Untouched
  <2>3. CASE flight # None
    <3>1. "phase" \in DOMAIN flight' /\ flight' # None
      BY <2>1, <2>3, NoneHasNoPhase DEF MainInv, MainShape
    <3> QED BY <2>1, <2>3, <3>1 DEF MainInv, MainShape, AttachingHasFlight
  <2> QED BY <2>2, <2>3
<1> QED BY <1>1, <1>2, <1>3 DEF Receive

(* The flight of an attach that is not over is there to be ended. *)
LEMMA FailKeeps == MainInv /\ Fail => MainInv'
<1> SUFFICES ASSUME MainInv, Fail PROVE MainInv'
  OBVIOUS
<1>0. "state" \in DOMAIN router
  BY DEF MainInv, MainShape
<1>1. ASSUME NEW STATE r, Keeps(router, r), NEW STATE before, FailPending(r, before)
      PROVE  MainInv'
  <2>1. CASE Pending
    <3>1. router' = Detached(r) /\ flight' = None
      BY <1>1, <2>1 DEF FailPending
    <3>2. "state" \in DOMAIN router' /\ router'.state = "detached"
      BY <1>1, <3>1, DetachedLeaves DEF Keeps
    <3> QED BY <3>1, <3>2 DEF MainInv, MainShape, AttachingHasFlight
  <2>2. CASE ~Pending
    <3>1. router' = r /\ UNCHANGED flight
      BY <1>1, <2>2 DEF FailPending
    <3> QED BY <1>1, <3>1, RoutingKeeps
  <2> QED BY <2>1, <2>2
<1>2. Keeps(router, router)
  BY <1>0 DEF Keeps
<1>3. CASE AttachTimesOut
  BY <1>1, <1>2, <1>3 DEF AttachTimesOut
<1>4. CASE TransportGap
  BY <1>1, <1>2, <1>4 DEF TransportGap
<1>5. CASE ReplaceHost
  <2>1. PICK owner : FailPending(Expecting(router, owner),
                                 Append(rendererWire, [type |-> "unavailable"]))
    BY <1>5 DEF ReplaceHost
  <2>2. Keeps(router, Expecting(router, owner))
    BY <1>0, ExpectingKeeps
  <2> QED BY <1>1, <2>1, <2>2
<1> QED BY <1>3, <1>4, <1>5 DEF Fail

(* Another round goes on attaching; every end of the loop ends the flight. *)
LEMMA ContinueKeeps == MainInv /\ ContinueAttach => MainInv'
<1> SUFFICES ASSUME MainInv, ContinueAttach PROVE MainInv'
  OBVIOUS
<1>0. /\ "state" \in DOMAIN router /\ router.state = "attaching"
      /\ flight # None /\ "phase" \in DOMAIN flight
  BY DEF ContinueAttach, Received, MainInv, MainShape, AttachingHasFlight
<1>1. Keeps(router, Restarted(router))
  BY <1>0, RestartedKeeps
<1>2. ASSUME NEW STATE r, Keeps(router, r), NEW STATE revision, AnotherRound(r, revision)
      PROVE  MainInv'
  <2>1. CASE flight.attempt < maxBaselineAttempts
    <3>1. /\ router' = r
          /\ flight' = [flight EXCEPT !.attempt = @ + 1, !.revision = revision,
                                      !.hw = r.next - 1, !.phase = "asked", !.baseline = None]
      BY <1>2, <2>1 DEF AnotherRound
    <3>2. "phase" \in DOMAIN flight' /\ flight' # None
      BY <1>0, <3>1, NoneHasNoPhase
    <3> QED BY <1>0, <1>2, <3>1, <3>2 DEF Keeps, MainInv, MainShape, AttachingHasFlight
  <2>2. CASE ~(flight.attempt < maxBaselineAttempts)
    <3>1. router' = [r EXCEPT !.state = "synchronizing"] /\ flight' = None
      BY <1>2, <2>2 DEF AnotherRound, Answer
    <3> QED BY <1>2, <3>1 DEF Keeps, MainInv, MainShape, AttachingHasFlight
  <2> QED BY <2>1, <2>2
<1> DEFINE join == Join(flight.baseline, router.buffer)
           hw   == flight.hw + join.dropped
<1>3. CASE AnotherRound(Restarted(router), router.revision)
  BY <1>1, <1>2, <1>3
<1>4. CASE router' = Detached(router) /\ flight' = None
  BY <1>0, <1>4, DetachedLeaves DEF MainInv, MainShape, AttachingHasFlight
<1>5. CASE AnotherRound([Restarted(router) EXCEPT !.expected = flight.baseline.owner],
                        flight.revision)
  <2>1. Keeps(router, [Restarted(router) EXCEPT !.expected = flight.baseline.owner])
    BY <1>1 DEF Keeps
  <2> QED BY <1>2, <1>5, <2>1
<1>6. CASE router' = Followed(router, hw, join) /\ flight' = None
  <2>1. "state" \in DOMAIN router' /\ router'.state = "following"
    BY <1>0, <1>6 DEF Followed, EmptyBuffer
  <2> QED BY <1>6, <2>1 DEF MainInv, MainShape, AttachingHasFlight
<1> QED BY <1>3, <1>4, <1>5, <1>6 DEF ContinueAttach, Answer

LEMMA AnswerAttachKeeps == MainInv /\ AnswerAttach => MainInv'
<1> SUFFICES ASSUME MainInv, AnswerAttach PROVE MainInv'
  OBVIOUS
<1>1. flight # None /\ flight' = [flight EXCEPT !.phase = "answered"] /\ UNCHANGED router
  BY DEF AnswerAttach
<1>2. "phase" \in DOMAIN flight' /\ flight' # None
  BY <1>1, NoneHasNoPhase DEF MainInv, MainShape
<1> QED BY <1>1, <1>2 DEF MainInv, MainShape, AttachingHasFlight

(* A new page finds the flight of the old one still going. *)
LEMMA ReloadKeeps == MainInv /\ Reload => MainInv'
<1> SUFFICES ASSUME MainInv, Reload PROVE MainInv'
  OBVIOUS
<1>1. /\ flight' = IF flight = None THEN None ELSE [flight EXCEPT !.askers = {}]
      /\ UNCHANGED router
  BY DEF Reload
<1>2. flight # None => "phase" \in DOMAIN flight' /\ flight' # None
  BY <1>1, NoneHasNoPhase DEF MainInv, MainShape
<1> QED BY <1>1, <1>2 DEF MainInv, MainShape, AttachingHasFlight

-----------------------------------------------------------------------------
LEMMA SyncStep == MainInv /\ [Next]_vars => MainInv'
<1> SUFFICES ASSUME MainInv, [Next]_vars PROVE MainInv'
  OBVIOUS
<1>1. CASE Publish
  <2>1. UNCHANGED <<router, flight>>
    BY <1>1 DEF Publish, PublishTranscript, PublishExtensionUi, PublishSemantic, mainVars
  <2> QED BY <2>1, Untouched
<1>2. CASE Transition
  <2>1. UNCHANGED <<router, flight>>
    BY <1>2 DEF Transition, BeginTransition, CommitTransition, CancelTransition, mainVars
  <2> QED BY <2>1, Untouched
<1>3. CASE AnswerAttach
  BY <1>3, AnswerAttachKeeps
<1>4. CASE \E who \in Askers : Ask(who)
  BY <1>4, AskKeeps
<1>5. CASE Receive
  BY <1>5, ReceiveKeeps
<1>6. CASE ContinueAttach
  BY <1>6, ContinueKeeps
<1>7. CASE Fail
  BY <1>7, FailKeeps
<1>8. CASE Deliver \/ Rehydrate
  <2>1. UNCHANGED <<router, flight>>
    BY <1>8 DEF Deliver, DeliverPublication, DeliverNotice, DeliverAnswer, Rehydrate, mainVars
  <2> QED BY <2>1, Untouched
<1>9. CASE Reload
  BY <1>9, ReloadKeeps
<1>10. CASE UNCHANGED vars
  BY <1>10, Untouched DEF vars, mainVars
<1> QED
  BY <1>1, <1>2, <1>3, <1>4, <1>5, <1>6, <1>7, <1>8, <1>9, <1>10 DEF Next

(* While an attach is in flight the router collects for it, and only then: *)
(* whatever times out, is fenced, superseded, reloaded or replaced, main   *)
(* never retains publications that no attach will take (renderer-          *)
(* publication.ts attach, performAttach, detach).                          *)
THEOREM RouterCollectsForFlight == Spec => []AttachingHasFlight
<1>1. MainInv => AttachingHasFlight
  BY DEF MainInv
<1> QED BY SyncInit, SyncStep, <1>1, PTL DEF Spec

=============================================================================
