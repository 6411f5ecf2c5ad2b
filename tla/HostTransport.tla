----------------------------- MODULE HostTransport -----------------------------
(***************************************************************************)
(* The channel between SessionHost (src/main/pi/session-host.ts) and its   *)
(* child process: numbered frames one way, correlated requests the other.  *)
(*                                                                         *)
(* A frame is its transport number, its kind, the session epoch it was     *)
(* sent under and, for an answer, the request it answers.  Kinds:          *)
(*   control  a control envelope that is not a full snapshot               *)
(*   full     a control envelope with a full snapshot                      *)
(*   event    any other publication of the child                           *)
(*   answer   the response to a request                                    *)
(* handleMessage runs to completion, so one received frame is one action.  *)
(* The child numbers every frame it emits; the channel keeps order but may *)
(* lose or repeat a bounded number of frames.  Time is the age of the last *)
(* control frame in three steps (fresh, over 2 s, over 8 s).               *)
(***************************************************************************)
EXTENDS Naturals, Sequences, FiniteSets

CONSTANTS
  Budgets,       \* what may happen in a behaviour: budgets, see below
  MaxEpochs      \* session epochs the child goes through

\* What a behaviour may use up: frames the child sends of its own accord, calls
\* (attaches and queries), frames the channel loses or delivers twice, state
\* requests the child refuses, probes of the watchdog.
BudgetTypes == [emits : Nat, calls : Nat, lost : Nat, repeated : Nat, refused : Nat, probes : Nat]

ASSUME BoundsAssumption == Budgets \subseteq BudgetTypes /\ MaxEpochs \in Nat \ {0}

NoRequest == 0
Types == {"state_request", "authority_attach", "query"}
Kinds == {"control", "full", "event", "answer"}

VARIABLES
  child,    \* [epochs, inbox]: epoch of every frame it sent, requests to answer
  wire,     \* frames on their way to SessionHost
  budget,   \* what is left of the bounds
  host,     \* the SessionHost: see HostStates
  age,      \* age of lastControlAt: 0 fresh, 1 over two seconds, 2 over eight
  stopped,  \* the watchdog gave the host up
  fed,      \* number of the last frame handed to the listeners (history)
  requests, \* requests made so far: [type, fenced] at the time of the call (history)
  answered, \* [request, n]: frame n carries the answer of the request (history)
  late      \* the deadline of some request has passed (history)

vars == <<child, wire, budget, host, age, stopped, fed, requests, answered, late>>

Ids == 1 .. Len(requests)

HostStates ==
  [last : Nat,              \* lastTransportSequence
   epoch : Nat,             \* sessionEpoch
   fenced : BOOLEAN,        \* transportFenced
   pending : SUBSET Ids,    \* requests with an entry in the pending map
   resync : SUBSET Ids,     \* resyncRequestIds
   probe : Ids \cup {NoRequest},   \* silenceResyncPending, and its request
   heard : BOOLEAN,         \* controlGeneration moved since the probe began
   announced : BOOLEAN]     \* silenceUnavailableEmitted

Init ==
  /\ child = [epochs |-> <<>>, inbox |-> <<>>]
  /\ wire = <<>>
  /\ budget \in Budgets
  /\ host = [last |-> 0, epoch |-> 0, fenced |-> FALSE, pending |-> {}, resync |-> {},
             probe |-> NoRequest, heard |-> FALSE, announced |-> FALSE]
  /\ age = 0
  /\ stopped = FALSE
  /\ fed = 0
  /\ requests = <<>>
  /\ answered = {}
  /\ late = FALSE

-----------------------------------------------------------------------------
(* The child and the channel.                                              *)

\* host.mjs send: the next number; the channel keeps the frame or loses it.
Transmits(kind, epoch, id, ok, spent) ==
  /\ child' = [epochs |-> Append(child.epochs, epoch),
               inbox |-> IF kind = "answer" THEN Tail(child.inbox) ELSE child.inbox]
  /\ \E lost \in BOOLEAN :
       /\ lost => spent.lost > 0
       /\ budget' = IF lost THEN [spent EXCEPT !.lost = @ - 1] ELSE spent
       /\ wire' = IF lost THEN wire
                  ELSE Append(wire, [n |-> Len(child.epochs) + 1, kind |-> kind,
                                     epoch |-> epoch, id |-> id, ok |-> ok])

ChildEpoch ==
  IF child.epochs = <<>> THEN 1 ELSE child.epochs[Len(child.epochs)]

\* A transition batch, a control envelope, begins the next epoch.
ChildEmits(kind) ==
  /\ ~stopped
  /\ budget.emits > 0
  /\ \E epoch \in ChildEpoch .. MaxEpochs :
       /\ epoch > ChildEpoch => kind = "control"
       /\ Transmits(kind, epoch, NoRequest, TRUE, [budget EXCEPT !.emits = @ - 1])
  /\ UNCHANGED <<host, age, stopped, fed, requests, answered, late>>

\* Requests are answered in the order they came; a state request may fail.
ChildAnswers ==
  /\ ~stopped
  /\ child.inbox # <<>>
  /\ LET id == Head(child.inbox)
     IN  /\ \/ Transmits("answer", ChildEpoch, id, TRUE, budget)
            \/ /\ requests[id].type = "state_request" /\ budget.refused > 0
               /\ Transmits("answer", ChildEpoch, id, FALSE,
                            [budget EXCEPT !.refused = @ - 1])
         /\ answered' = answered \cup {[request |-> id, n |-> Len(child.epochs) + 1]}
  /\ UNCHANGED <<host, age, stopped, fed, requests, late>>

-----------------------------------------------------------------------------
(* Requests of the main process.                                           *)

\* requestHost and sendHostQuery: h with the next request in its pending map.
Asked(h, type) ==
  LET id == Len(requests) + 1
  IN  [h EXCEPT !.pending = @ \cup {id},
                !.resync = IF type = "state_request" THEN @ \cup {id} ELSE @]

Asks(type) ==
  /\ requests' = Append(requests, [type |-> type, fenced |-> host.fenced])
  /\ child' = [child EXCEPT !.inbox = Append(@, Len(requests) + 1)]

AsksNothing == UNCHANGED <<requests, child>>

ForgetKeepingResync(h, done) ==   \* bug: only the pending map is tidied up
  [h EXCEPT !.pending = @ \ done]

Forget(h, done) == [h EXCEPT !.pending = @ \ done, !.resync = @ \ done]

\* requestAuthorityAttach, query: of a host that is ready, so was heard from.
Call(type) ==
  /\ ~stopped
  /\ host.epoch > 0
  /\ budget.calls > 0
  /\ budget' = [budget EXCEPT !.calls = @ - 1]
  /\ host' = Asked(host, type)
  /\ Asks(type)
  /\ UNCHANGED <<wire, age, stopped, fed, answered, late>>

\* The probe's promise settles; a failed one is silence, unless a control came.
ProbeSettled(h, id, failed) ==
  IF h.probe # id THEN h
  ELSE [h EXCEPT !.probe = NoRequest, !.announced = @ \/ (failed /\ ~h.heard)]

\* armPendingTimeout: the deadline passes.
Timeout(id) ==
  /\ ~stopped
  /\ id \in host.pending
  /\ host' = ProbeSettled(Forget(host, {id}), id, TRUE)
  /\ late' = TRUE
  /\ UNCHANGED <<child, wire, budget, age, stopped, fed, requests, answered>>

-----------------------------------------------------------------------------
(* handleMessage.                                                          *)

Attaches == {id \in host.pending : requests[id].type = "authority_attach"}

\* While fenced, only control envelopes and the answer of a resync get further.
Barred(f) ==
  /\ host.fenced
  /\ f.kind \in {"event", "answer"}
  /\ ~(f.kind = "answer" /\ f.id \in host.resync)

InOrderLoosely(f) ==   \* bug: numbers only have to grow
  host.last = 0 \/ f.n > host.last

InOrder(f) == host.last = 0 \/ f.n = host.last + 1

Repeated(f) == host.last > 0 /\ f.n <= host.last

Ignored(f) == Barred(f) \/ Repeated(f)

\* A hole: fence, reject the attaches, ask for a full snapshot.
GapKeepingAttaches(f) ==   \* bug: a pending attach waits for its deadline
  /\ ~Ignored(f) /\ ~InOrder(f)
  /\ host' = Asked([host EXCEPT !.last = f.n, !.fenced = TRUE], "state_request")
  /\ Asks("state_request")
  /\ UNCHANGED <<age, fed>>

GapUnasked(f) ==   \* bug: nobody asks for the snapshot that would lift the fence
  /\ ~Ignored(f) /\ ~InOrder(f)
  /\ host' = Forget([host EXCEPT !.last = f.n, !.fenced = TRUE], Attaches)
  /\ AsksNothing
  /\ UNCHANGED <<age, fed>>

Gap(f) ==
  /\ ~Ignored(f) /\ ~InOrder(f)
  /\ host' = Asked(Forget([host EXCEPT !.last = f.n, !.fenced = TRUE], Attaches),
                   "state_request")
  /\ Asks("state_request")
  /\ UNCHANGED <<age, fed>>

Ignore(f) ==
  /\ Ignored(f)
  /\ AsksNothing
  /\ UNCHANGED <<host, age, fed>>

\* A control envelope in order under the fence is counted and dropped.
Skipped(f) ==
  /\ InOrder(f) /\ host.fenced /\ f.kind = "control"
  /\ host' = [host EXCEPT !.last = f.n]
  /\ AsksNothing
  /\ UNCHANGED <<age, fed>>

\* A control envelope: epoch, lastControlAt, controlGeneration, fence lifted.
Heard(h, epoch) ==
  [h EXCEPT !.epoch = epoch, !.heard = TRUE, !.announced = FALSE, !.fenced = FALSE]

Control(f) ==
  /\ InOrder(f)
  /\ f.kind = "full" \/ (f.kind = "control" /\ ~host.fenced)
  /\ host' = Heard([host EXCEPT !.last = f.n], f.epoch)
  /\ age' = 0
  /\ fed' = f.n
  /\ AsksNothing

Event(f) ==
  /\ InOrder(f) /\ f.kind = "event" /\ ~Barred(f)
  /\ host' = [host EXCEPT !.last = f.n]
  /\ fed' = f.n
  /\ AsksNothing
  /\ UNCHANGED age

\* The answer of a request nobody waits for, or of another epoch.
Mismatched(f) == f.id \notin host.resync /\ f.epoch # host.epoch

ResyncKeepingEpoch(h, f) ==   \* bug: the snapshot's epoch is not adopted
  Heard(h, h.epoch)

Resync(h, f) == Heard(h, f.epoch)

\* The answer does not serve its request: another epoch, no valid snapshot.
Refused(f) == Mismatched(f) \/ (f.id \in host.resync /\ ~f.ok)

Answer(f) ==
  /\ InOrder(f) /\ f.kind = "answer" /\ ~Barred(f)
  /\ LET counted == [host EXCEPT !.last = f.n]
         lifts == f.id \in host.resync /\ ~Refused(f)
         settled == Forget(IF lifts THEN Resync(counted, f) ELSE counted, {f.id})
     IN  IF f.id \in host.pending
           THEN /\ host' = ProbeSettled(settled, f.id, Refused(f))
                /\ age' = IF lifts THEN 0 ELSE age
           ELSE /\ host' = counted
                /\ UNCHANGED age
  /\ fed' = IF host'.fenced THEN fed ELSE f.n
  /\ AsksNothing

Receive ==
  /\ ~stopped
  /\ wire # <<>>
  /\ LET f == Head(wire)
     IN  Ignore(f) \/ Gap(f) \/ Skipped(f) \/ Control(f) \/ Event(f) \/ Answer(f)
  /\ \/ wire' = Tail(wire) /\ UNCHANGED budget
     \/ /\ budget.repeated > 0
        /\ budget' = [budget EXCEPT !.repeated = @ - 1]
        /\ UNCHANGED wire
  /\ UNCHANGED <<stopped, answered, late>>

-----------------------------------------------------------------------------
(* The control watchdog, every 500 ms.                                     *)

TimePasses ==
  /\ ~stopped
  /\ age < 2
  /\ age' = age + 1
  /\ UNCHANGED <<child, wire, budget, host, stopped, fed, requests, answered, late>>

\* A long gap between ticks: this process slept, and so did the child.
WokenUp ==
  /\ ~stopped
  /\ age > 0
  /\ age' = 0
  /\ UNCHANGED <<child, wire, budget, host, stopped, fed, requests, answered, late>>

Probe ==
  /\ ~stopped
  /\ host.epoch > 0
  /\ age = 1
  /\ host.probe = NoRequest
  /\ budget.probes > 0
  /\ budget' = [budget EXCEPT !.probes = @ - 1]
  /\ host' = [Asked(host, "state_request") EXCEPT !.probe = Len(requests) + 1, !.heard = FALSE]
  /\ Asks("state_request")
  /\ UNCHANGED <<wire, age, stopped, fed, answered, late>>

Unresponsive ==
  /\ ~stopped
  /\ age = 2
  /\ stopped' = TRUE
  /\ UNCHANGED <<child, wire, budget, host, age, fed, requests, answered, late>>

-----------------------------------------------------------------------------
Next ==
  \/ \E kind \in {"control", "full", "event"} : ChildEmits(kind)
  \/ ChildAnswers
  \/ \E type \in {"authority_attach", "query"} : Call(type)
  \/ \E id \in Ids : Timeout(id)
  \/ Receive
  \/ TimePasses
  \/ WokenUp
  \/ Probe
  \/ Unresponsive

Spec == Init /\ [][Next]_vars

\* The child answers and the channel delivers.  Nothing is assumed of timers:
\* what heals must not need them.
Fairness == WF_vars(ChildAnswers) /\ WF_vars(Receive)

FairSpec == Spec /\ Fairness

-----------------------------------------------------------------------------
TypeOK ==
  /\ child \in [epochs : Seq(1 .. MaxEpochs), inbox : Seq(Ids)]
  /\ wire \in Seq([n : Nat, kind : Kinds, epoch : 1 .. MaxEpochs,
                   id : Ids \cup {NoRequest}, ok : BOOLEAN])
  /\ host \in HostStates /\ host.resync \subseteq host.pending
  /\ age \in 0 .. 2
  /\ stopped \in BOOLEAN
  /\ fed \in Nat
  /\ requests \in Seq([type : Types, fenced : BOOLEAN])
  /\ answered \subseteq [request : Ids, n : Nat]
  /\ late \in BOOLEAN

\* The listeners get the child's frames without a hole, except across a fence
\* that only a full snapshot ended: the transport implements the feed.
Feed == INSTANCE HostFeed WITH at <- fed, following <- ~host.fenced

FeedContract == Feed!FeedSpec

\* An unfenced SessionHost judges identities by the epoch the child had when it
\* sent the last frame the listeners got, also when a lost transition batch
\* was only made good by a snapshot.
EpochFollowsFeed ==
  host.epoch > 0 /\ ~host.fenced => host.epoch = child.epochs[fed]

\* An attach requested over an intact channel never waits for an answer the
\* channel has already passed over: it is told of the fence at once.
AttachNotStranded ==
  \A a \in answered :
    /\ requests[a.request].type = "authority_attach"
    /\ ~requests[a.request].fenced
    /\ a.n <= host.last
    => a.request \notin host.pending

\* A fence is lifted by the channel alone, without a deadline or the watchdog:
\* with a state request on its way to the child and no more losses, the fence
\* ends, however many numbers the frames dropped under it used up.
FenceHeals ==
  /\ host.fenced
  /\ budget.lost = 0 /\ budget.refused = 0
  /\ \E i \in 1 .. Len(child.inbox) : child.inbox[i] \in host.resync
  ~> ~host.fenced \/ late \/ stopped

\* Once the fence is down, main is where the child is, and no attach was left behind.
RepairedWholly == TypeOK /\ EpochFollowsFeed /\ AttachNotStranded
=============================================================================
