------------------------- MODULE MCSessionHostProofs -------------------------
(***************************************************************************)
(* The two halves of a SessionHost, each for every value of its constants: *)
(* the feed contract of the transport and the repair of its fence, for     *)
(* every set of budgets and every number of session epochs; then the       *)
(* timers of the process, for every set of dialogs and panels and any      *)
(* number of openings.                                                     *)
(***************************************************************************)
EXTENDS MCSessionHost, TLAPS, SequenceTheorems

(***************************************************************************)
(* The inductive invariant.  What the properties lack is what a frame's    *)
(* number tells: it is the place of the frame in what the child sent, so   *)
(* the epoch of a frame, the request it answers and the step to the next   *)
(* frame can be read off the number alone.                                 *)
(***************************************************************************)
Frame == [n : Nat, kind : Kinds, epoch : 1 .. MaxEpochs, id : Ids \cup {NoRequest},
          ok : BOOLEAN]

\* A frame carries its number and the epoch the child had when it sent it.
Numbered(f) == f.n \in 1 .. Len(child.epochs) /\ f.epoch = child.epochs[f.n]

\* Only a control envelope, a transition batch, begins an epoch.
KeepsEpoch(f) == f.kind # "control" /\ f.n > 1 => child.epochs[f.n] = child.epochs[f.n - 1]

\* A frame with the number of an answer is that answer.
CarriesAnswer(f) ==
  \A a \in answered : a.n = f.n => f.kind = "answer" /\ f.id = a.request

Honest(f) == Numbered(f) /\ KeepsEpoch(f) /\ CarriesAnswer(f)

WireIsHonest == \A i \in 1 .. Len(wire) : Honest(wire[i])

AnswersAreSent == \A a \in answered : a.n <= Len(child.epochs)

\* What the listeners got against what was counted.
FeedIsCounted ==
  /\ fed <= host.last
  /\ host.last <= Len(child.epochs)
  /\ ~host.fenced => fed = host.last
  /\ host.epoch > 0 => fed > 0
  /\ host.last = 0 => requests = <<>>

\* Under the fence no attach of before the fence is pending.
FenceClearsAttaches ==
  host.fenced => \A id \in Attaches : requests[id].fenced

TransportInv ==
  /\ RepairedWholly
  /\ WireIsHonest /\ AnswersAreSent /\ FeedIsCounted /\ FenceClearsAttaches

-----------------------------------------------------------------------------
(* Nothing was sent, asked or delivered yet. *)
LEMMA TransportInit == Init => TransportInv
<1> SUFFICES ASSUME Init PROVE TransportInv
  OBVIOUS
<1> USE DEF Init, NoRequest
<1>1. requests = <<>> /\ Len(requests) = 0 /\ Len(wire) = 0 /\ answered = {} /\ host.pending = {}
  OBVIOUS
<1>2. TypeOK
  <2>1. wire \in Seq([n : Nat, kind : Kinds, epoch : 1 .. MaxEpochs,
                      id : Ids \cup {NoRequest}, ok : BOOLEAN])
    OBVIOUS
  <2>2. host \in HostStates /\ host.resync \subseteq host.pending
    BY <1>1 DEF HostStates, Ids
  <2>3. child \in [epochs : Seq(1 .. MaxEpochs), inbox : Seq(Ids)]
    BY <1>1 DEF Ids
  <2>4. answered \subseteq [request : Ids, n : Nat]
    OBVIOUS
  <2>5. requests \in Seq([type : Types, fenced : BOOLEAN])
    OBVIOUS
  <2>6. age \in 0 .. 2 /\ fed \in Nat
    OBVIOUS
  <2>7. stopped \in BOOLEAN /\ late \in BOOLEAN
    OBVIOUS
  <2> HIDE DEF Init
  <2> QED BY <2>1, <2>2, <2>3, <2>4, <2>5, <2>6, <2>7 DEF TypeOK
<1>3. EpochFollowsFeed /\ AttachNotStranded /\ RepairedWholly
  BY <1>1, <1>2 DEF EpochFollowsFeed, AttachNotStranded, RepairedWholly
<1>4. WireIsHonest /\ AnswersAreSent
  BY <1>1 DEF WireIsHonest, AnswersAreSent
<1>5. FeedIsCounted /\ FenceClearsAttaches
  BY <1>1 DEF FeedIsCounted, FenceClearsAttaches, Attaches
<1> QED BY <1>3, <1>4, <1>5 DEF TransportInv

(* The epoch of a new frame is one of the bounded ones. *)
LEMMA ChildEpochIsEpoch ==
  ASSUME TypeOK
  PROVE  /\ ChildEpoch \in 1 .. MaxEpochs
         /\ child.epochs # <<>> => ChildEpoch = child.epochs[Len(child.epochs)]
<1>1. child.epochs \in Seq(1 .. MaxEpochs) /\ MaxEpochs \in Nat \ {0}
  BY BoundsAssumption DEF TypeOK
<1> QED BY <1>1 DEF ChildEpoch

(* A request more: the ones before it keep their numbers and their type. *)
LEMMA AsksGrows ==
  ASSUME TypeOK, NEW type \in Types, Asks(type)
  PROVE  /\ requests' \in Seq([type : Types, fenced : BOOLEAN])
         /\ Len(requests') = Len(requests) + 1
         /\ Len(requests) + 1 \in Ids' /\ Len(requests) + 1 \notin Ids
         /\ Ids' = Ids \cup {Len(requests) + 1} /\ Ids \subseteq Ids'
         /\ \A id \in Ids : requests'[id] = requests[id]
         /\ requests'[Len(requests) + 1].type = type
         /\ requests'[Len(requests) + 1].fenced = host.fenced
         /\ child' \in [epochs : Seq(1 .. MaxEpochs), inbox : Seq(Ids')]
         /\ child'.epochs = child.epochs
<1> DEFINE new == [type |-> type, fenced |-> host.fenced]
<1>1. /\ requests \in Seq([type : Types, fenced : BOOLEAN]) /\ host.fenced \in BOOLEAN
      /\ child.epochs \in Seq(1 .. MaxEpochs) /\ child.inbox \in Seq(Ids)
      /\ child = [epochs |-> child.epochs, inbox |-> child.inbox]
  BY DEF TypeOK, HostStates
<1>2. new \in [type : Types, fenced : BOOLEAN] /\ requests' = Append(requests, new)
  BY <1>1 DEF Asks
<1> HIDE DEF new
<1>3. /\ requests' \in Seq([type : Types, fenced : BOOLEAN])
      /\ Len(requests') = Len(requests) + 1 /\ Len(requests) \in Nat
      /\ \A id \in 1 .. Len(requests) : requests'[id] = requests[id]
      /\ requests'[Len(requests) + 1] = new
  BY <1>1, <1>2
<1>4. Ids' = Ids \cup {Len(requests) + 1} /\ Len(requests) + 1 \notin Ids
  BY <1>3 DEF Ids
<1>5. child' = [epochs |-> child.epochs, inbox |-> Append(child.inbox, Len(requests) + 1)]
  BY <1>1 DEF Asks
<1>6. Append(child.inbox, Len(requests) + 1) \in Seq(Ids')
  <2>1. child.inbox \in Seq(Ids')
    BY <1>1, <1>4
  <2>2. Len(requests) + 1 \in Ids'
    BY <1>4
  <2> QED BY <2>1, <2>2
<1> QED BY <1>1, <1>3, <1>4, <1>5, <1>6 DEF Ids, new

(* A host that asks stays a host: the next request is pending, the rest is *)
(* as it was.                                                              *)
LEMMA AskedIsHost ==
  ASSUME TypeOK, NEW type \in Types, Asks(type),
         NEW h \in HostStates, h.resync \subseteq h.pending
  PROVE  /\ Asked(h, type) \in HostStates' /\ Asked(h, type).resync \subseteq Asked(h, type).pending
         /\ Asked(h, type).pending = h.pending \cup {Len(requests) + 1}
         /\ Asked(h, type).last = h.last /\ Asked(h, type).epoch = h.epoch
         /\ Asked(h, type).fenced = h.fenced
<1>1. Len(requests) + 1 \in Ids' /\ Ids \subseteq Ids'
  BY AsksGrows
<1>2. h \in [last : Nat, epoch : Nat, fenced : BOOLEAN, pending : SUBSET Ids', resync : SUBSET Ids',
              probe : Ids' \cup {NoRequest}, heard : BOOLEAN, announced : BOOLEAN]
  BY <1>1 DEF HostStates
<1> QED BY <1>1, <1>2 DEF Asked, HostStates

(* Forgetting requests and settling the probe leave the rest of the host. *)
LEMMA ForgetIsHost ==
  ASSUME NEW h \in HostStates, h.resync \subseteq h.pending, NEW done \in SUBSET Ids
  PROVE  /\ Forget(h, done) \in HostStates /\ Forget(h, done).resync \subseteq Forget(h, done).pending
         /\ Forget(h, done).pending = h.pending \ done
         /\ Forget(h, done).last = h.last /\ Forget(h, done).epoch = h.epoch
         /\ Forget(h, done).fenced = h.fenced
BY DEF Forget, HostStates

LEMMA ProbeIsHost ==
  ASSUME NEW h \in HostStates, NEW id, NEW failed \in BOOLEAN
  PROVE  /\ ProbeSettled(h, id, failed) \in HostStates
         /\ ProbeSettled(h, id, failed).pending = h.pending
         /\ ProbeSettled(h, id, failed).resync = h.resync
         /\ ProbeSettled(h, id, failed).last = h.last
         /\ ProbeSettled(h, id, failed).epoch = h.epoch
         /\ ProbeSettled(h, id, failed).fenced = h.fenced
BY DEF ProbeSettled, HostStates, NoRequest

-----------------------------------------------------------------------------
(* What each part of the invariant rests on. *)

(* The numbers on the wire stay honest while the child sends nothing. *)
LEMMA WireKeeps ==
  ASSUME TransportInv, child'.epochs = child.epochs, UNCHANGED answered, Ids \subseteq Ids',
         wire' = wire \/ (wire # <<>> /\ wire' = Tail(wire))
  PROVE  WireIsHonest' /\ AnswersAreSent' /\ wire' \in Seq(Frame')
<1>1. AnswersAreSent'
  BY DEF TransportInv, AnswersAreSent
<1>2. wire \in Seq(Frame) /\ wire' \in Seq(Frame)
  <2>1. wire \in Seq(Frame)
    BY DEF TransportInv, RepairedWholly, TypeOK, Frame
  <2> QED BY <2>1
<1>3. ASSUME NEW i \in 1 .. Len(wire') PROVE \E j \in 1 .. Len(wire) : wire'[i] = wire[j]
  <2>1. CASE wire' = wire
    BY <2>1, <1>3
  <2>2. CASE wire # <<>> /\ wire' = Tail(wire)
    <3>1. Len(wire') = Len(wire) - 1 /\ wire'[i] = wire[i + 1] /\ i + 1 \in 1 .. Len(wire)
      BY <1>2, <1>3, <2>2
    <3> QED BY <3>1
  <2> QED BY <2>1, <2>2
<1>4. ASSUME NEW f, Honest(f) PROVE Honest(f)'
  BY <1>4 DEF Honest, Numbered, KeepsEpoch, CarriesAnswer
<1>5. ASSUME NEW i \in 1 .. Len(wire') PROVE Honest(wire[i])'
  <2>1. PICK j \in 1 .. Len(wire) : wire'[i] = wire[j]
    BY <1>3, <1>5
  <2>2. Honest(wire[j])
    BY DEF TransportInv, WireIsHonest
  <2> QED BY <2>1, <2>2 DEF Honest, Numbered, KeepsEpoch, CarriesAnswer
<1>6. WireIsHonest'
  BY <1>5 DEF WireIsHonest
<1>7. wire' \in Seq(Frame')
  <2>1. Frame \subseteq Frame'
    BY DEF Frame
  <2> QED BY <1>2, <2>1
<1> QED BY <1>1, <1>6, <1>7

(* Type correctness, put together again. *)
LEMMA TypeKeeps ==
  ASSUME TypeOK, UNCHANGED answered, Ids \subseteq Ids', wire' \in Seq(Frame'),
         child' \in [epochs : Seq(1 .. MaxEpochs), inbox : Seq(Ids')],
         requests' \in Seq([type : Types, fenced : BOOLEAN]),
         host' \in HostStates', host'.resync \subseteq host'.pending,
         age' \in 0 .. 2, stopped' \in BOOLEAN, fed' \in Nat, late' \in BOOLEAN
  PROVE  TypeOK'
<1>1. answered' \subseteq [request : Ids', n : Nat]
  BY DEF TypeOK
<1> QED BY <1>1 DEF TypeOK, Frame

(* A frame the child sends extends what it sent by one number. *)
LEMMA SentKeeps ==
  ASSUME TransportInv, NEW kind \in Kinds, NEW id \in Ids \cup {NoRequest}, NEW ok \in BOOLEAN,
         NEW epoch \in ChildEpoch .. MaxEpochs, epoch > ChildEpoch => kind = "control",
         NEW spent, Transmits(kind, epoch, id, ok, spent),
         UNCHANGED <<host, age, stopped, fed, requests, late>>,
         \/ kind # "answer" /\ UNCHANGED answered
         \/ /\ kind = "answer" /\ child.inbox # <<>> /\ id \in Ids
            /\ answered' = answered \cup {[request |-> id, n |-> Len(child.epochs) + 1]}
  PROVE  TransportInv'
<1> DEFINE n == Len(child.epochs) + 1
<1>1. /\ TypeOK /\ EpochFollowsFeed /\ AttachNotStranded /\ WireIsHonest /\ AnswersAreSent
      /\ FeedIsCounted /\ FenceClearsAttaches
  BY DEF TransportInv, RepairedWholly
<1>2. /\ child.epochs \in Seq(1 .. MaxEpochs) /\ child.inbox \in Seq(Ids) /\ wire \in Seq(Frame)
      /\ fed \in Nat /\ host.last \in Nat /\ Ids' = Ids /\ Len(child.epochs) \in Nat
  BY <1>1 DEF TypeOK, Frame, HostStates, Ids
<1>3. epoch \in 1 .. MaxEpochs
      /\ (kind # "control" /\ Len(child.epochs) > 0 => epoch = child.epochs[Len(child.epochs)])
  BY <1>1, <1>2, ChildEpochIsEpoch
<1>4. child'.epochs = Append(child.epochs, epoch)
  BY DEF Transmits
<1>5. /\ child'.epochs \in Seq(1 .. MaxEpochs) /\ Len(child'.epochs) = n /\ n \in Nat
      /\ \A k \in 1 .. Len(child.epochs) : child'.epochs[k] = child.epochs[k]
      /\ child'.epochs[n] = epoch
  BY <1>2, <1>3, <1>4
<1>6. child' \in [epochs : Seq(1 .. MaxEpochs), inbox : Seq(Ids)]
  <2>1. CASE kind = "answer"
    <3>1. child'.inbox = Tail(child.inbox) /\ child.inbox # <<>>
      BY <2>1 DEF Transmits
    <3>2. child'.inbox \in Seq(Ids)
      BY <3>1, <1>2
    <3> QED BY <3>2, <1>5 DEF Transmits
  <2>2. CASE kind # "answer"
    BY <2>2, <1>2, <1>5 DEF Transmits
  <2> QED BY <2>1, <2>2
<1>7. PICK frame : /\ frame = [n |-> n, kind |-> kind, epoch |-> epoch, id |-> id, ok |-> ok]
                   /\ wire' = wire \/ wire' = Append(wire, frame)
  BY DEF Transmits
<1>8. \A a \in answered : a.n <= Len(child.epochs)
  BY <1>1 DEF AnswersAreSent
<1>9. \A a \in answered' : a \in answered \/ (a.n = n /\ a.request = id /\ kind = "answer")
  OBVIOUS
<1>10. ASSUME NEW f \in Frame, Honest(f) PROVE Honest(f)'
  <2>1. f.n \in 1 .. Len(child.epochs) /\ f.epoch = child.epochs[f.n] /\ f.n # n /\ f.n < n
    BY <1>10, <1>2 DEF Honest, Numbered
  <2>2. Numbered(f)'
    BY <2>1, <1>5 DEF Numbered
  <2>3. KeepsEpoch(f)'
    <3>1. KeepsEpoch(f)
      BY <1>10 DEF Honest
    <3>2. f.n > 1 => f.n - 1 \in 1 .. Len(child.epochs)
      BY <2>1, <1>2
    <3> QED BY <2>1, <3>1, <3>2, <1>5 DEF KeepsEpoch
  <2>4. CarriesAnswer(f)'
    BY <1>9, <1>10, <2>1 DEF Honest, CarriesAnswer
  <2> QED BY <2>2, <2>3, <2>4 DEF Honest
<1>11. Honest(frame)'
  <2>1. frame.n = n /\ frame.kind = kind /\ frame.epoch = epoch /\ frame.id = id
    BY <1>7
  <2>2. n \in 1 .. Len(child'.epochs) /\ epoch = child'.epochs[n]
    BY <1>5, <1>2
  <2>3. kind # "control" /\ n > 1 => child'.epochs[n] = child'.epochs[n - 1]
    BY <1>2, <1>3, <1>5
  <2>4. \A a \in answered' : a.n = n => kind = "answer" /\ id = a.request
    BY <1>8, <1>9, <1>2, <1>1 DEF TypeOK
  <2> QED BY <2>1, <2>2, <2>3, <2>4 DEF Honest, Numbered, KeepsEpoch, CarriesAnswer
<1>12. frame \in Frame /\ wire' \in Seq(Frame)
  <2>1. frame \in Frame
    BY <1>2, <1>3, <1>7 DEF Frame
  <2>2. Append(wire, frame) \in Seq(Frame)
    BY <2>1, <1>2
  <2>3. wire' \in Seq(Frame)
    BY <2>2, <1>2, <1>7
  <2> QED BY <2>1, <2>3
<1>13. WireIsHonest'
  <2> SUFFICES ASSUME NEW i \in 1 .. Len(wire') PROVE Honest(wire[i])'
    BY DEF WireIsHonest
  <2>1. wire'[i] = frame \/ (i \in 1 .. Len(wire) /\ wire'[i] = wire[i])
    BY <1>2, <1>7, <1>12
  <2>2. CASE wire'[i] = frame
    BY <2>2, <1>11 DEF Honest, Numbered, KeepsEpoch, CarriesAnswer
  <2>3. CASE i \in 1 .. Len(wire) /\ wire'[i] = wire[i]
    <3>1. wire[i] \in Frame /\ Honest(wire[i])
      BY <2>3, <1>1, <1>2 DEF WireIsHonest
    <3> QED BY <2>3, <3>1, <1>10 DEF Honest, Numbered, KeepsEpoch, CarriesAnswer
  <2> QED BY <2>1, <2>2, <2>3
<1>14. AnswersAreSent'
  BY <1>8, <1>9, <1>5, <1>2, <1>1 DEF AnswersAreSent, TypeOK
<1>15. TypeOK'
  <2>1. wire' \in Seq(Frame)
    BY <1>12
  <2>2. answered' \subseteq [request : Ids, n : Nat]
    BY <1>1, <1>2 DEF TypeOK
  <2>3. HostStates' = HostStates
    BY <1>2 DEF HostStates
  <2> QED BY <1>1, <1>2, <1>6, <2>1, <2>2, <2>3 DEF TypeOK, Frame
<1>16. EpochFollowsFeed'
  <2>1. host.epoch > 0 => fed \in 1 .. Len(child.epochs)
    BY <1>1, <1>2 DEF FeedIsCounted
  <2> QED BY <2>1, <1>1, <1>5 DEF EpochFollowsFeed
<1>17. AttachNotStranded'
  <2>1. ASSUME NEW a \in answered', a.n <= host.last PROVE a \in answered
    BY <2>1, <1>9, <1>1, <1>2 DEF FeedIsCounted
  <2> QED BY <2>1, <1>1 DEF AttachNotStranded
<1>18. FeedIsCounted' /\ FenceClearsAttaches'
  BY <1>1, <1>2, <1>5 DEF FeedIsCounted, FenceClearsAttaches, Attaches
<1> QED BY <1>14, <1>15, <1>16, <1>17, <1>18, <1>13 DEF TransportInv, RepairedWholly

-----------------------------------------------------------------------------
(* The frame at the head of the wire. *)
LEMMA HeadIsHonest ==
  ASSUME TransportInv, wire # <<>>
  PROVE  Head(wire) \in Frame /\ Honest(Head(wire))
<1>1. wire \in Seq(Frame)
  BY DEF TransportInv, RepairedWholly, TypeOK, Frame
<1>2. 1 \in 1 .. Len(wire) /\ Head(wire) = wire[1]
  BY <1>1
<1> QED BY <1>1, <1>2 DEF TransportInv, WireIsHonest

(* With an answer in order, every answer up to it was due: either it was   *)
(* counted before or it is this one.                                       *)
LEMMA NextAnswer ==
  ASSUME TransportInv, NEW f \in Frame, Honest(f), InOrder(f), NEW a \in answered, a.n <= f.n
  PROVE  a.n <= host.last \/ (f.kind = "answer" /\ f.id = a.request)
<1>1. /\ host.last \in Nat /\ f.n \in Nat /\ a.n \in Nat /\ a.request \in Ids
      /\ requests \in Seq([type : Types, fenced : BOOLEAN])
  BY DEF TransportInv, RepairedWholly, TypeOK, Frame, HostStates
<1>2. host.last # 0
  <2> SUFFICES ASSUME host.last = 0 PROVE FALSE
    OBVIOUS
  <2>1. requests = <<>>
    BY DEF TransportInv, FeedIsCounted
  <2> QED BY <2>1, <1>1 DEF Ids
<1>3. f.n = host.last + 1
  BY <1>2 DEF InOrder
<1>4. a.n = f.n => f.kind = "answer" /\ f.id = a.request
  BY DEF Honest, CarriesAnswer
<1> QED BY <1>1, <1>3, <1>4

(* A step that leaves the child's numbering, the answers and the count of  *)
(* frames alone, and makes no pending attach of the requests there were.   *)
LEMMA QuietKeeps ==
  ASSUME TransportInv, child'.epochs = child.epochs, UNCHANGED <<wire, answered, fed>>,
         Ids \subseteq Ids', TypeOK', \A id \in Ids : requests'[id] = requests[id],
         host'.last = host.last, host'.epoch = host.epoch, host'.fenced = host.fenced,
         host'.pending \cap Ids \subseteq host.pending,
         \A id \in host'.pending \ Ids : requests'[id].type # "authority_attach" \/ requests'[id].fenced = host.fenced,
         requests' = requests \/ host.epoch > 0
  PROVE  TransportInv'
<1>1. /\ TypeOK /\ EpochFollowsFeed /\ AttachNotStranded /\ FeedIsCounted /\ FenceClearsAttaches
      /\ host.last \in Nat /\ fed \in Nat
  BY DEF TransportInv, RepairedWholly, TypeOK, HostStates
<1>2. WireIsHonest' /\ AnswersAreSent'
  BY WireKeeps
<1>3. EpochFollowsFeed'
  BY <1>1 DEF EpochFollowsFeed
<1>4. AttachNotStranded'
  <2>1. \A a \in answered : a.request \in Ids
    BY <1>1 DEF TypeOK
  <2> QED BY <1>1, <2>1 DEF AttachNotStranded
<1>5. FeedIsCounted'
  BY <1>1 DEF FeedIsCounted
<1>6. FenceClearsAttaches'
  BY <1>1 DEF FenceClearsAttaches, Attaches
<1> QED BY <1>2, <1>3, <1>4, <1>5, <1>6 DEF TransportInv, RepairedWholly

(* A step whose only doing is to ask a host that was heard from. *)
LEMMA AskingKeeps ==
  ASSUME TransportInv, NEW type \in Types, Asks(type), host.epoch > 0,
         UNCHANGED <<wire, age, stopped, fed, answered, late>>,
         host' \in HostStates', host'.resync \subseteq host'.pending,
         host'.pending = host.pending \cup {Len(requests) + 1},
         host'.last = host.last, host'.epoch = host.epoch, host'.fenced = host.fenced
  PROVE  TransportInv'
<1>1. TypeOK
  BY DEF TransportInv, RepairedWholly
<1>2. /\ Ids \subseteq Ids' /\ Len(requests) + 1 \notin Ids /\ host.pending \subseteq Ids
      /\ requests' \in Seq([type : Types, fenced : BOOLEAN])
      /\ child' \in [epochs : Seq(1 .. MaxEpochs), inbox : Seq(Ids')]
      /\ child'.epochs = child.epochs
      /\ \A id \in Ids : requests'[id] = requests[id]
      /\ requests'[Len(requests) + 1].fenced = host.fenced
  <2>1. host.pending \subseteq Ids
    BY <1>1 DEF TypeOK, HostStates
  <2> QED BY <2>1, <1>1, AsksGrows
<1>3. wire' \in Seq(Frame')
  BY <1>2, WireKeeps
<1>4. TypeOK'
  <2>1. age' \in 0 .. 2 /\ stopped' \in BOOLEAN /\ fed' \in Nat /\ late' \in BOOLEAN
    BY <1>1 DEF TypeOK
  <2> QED BY <1>1, <1>2, <1>3, <2>1, TypeKeeps
<1>5. host'.pending \cap Ids \subseteq host.pending
  BY <1>2
<1>6. \A id \in host'.pending \ Ids : requests'[id].fenced = host.fenced
  BY <1>2
<1> QED BY <1>2, <1>4, <1>5, <1>6, QuietKeeps

(* requestAuthorityAttach and the queries. *)
LEMMA CallKeeps ==
  ASSUME TransportInv, NEW type \in {"authority_attach", "query"}, Call(type)
  PROVE  TransportInv'
<1>1. /\ TypeOK /\ host \in HostStates /\ host.resync \subseteq host.pending /\ type \in Types
      /\ wire \in Seq(Frame)
  BY DEF TransportInv, RepairedWholly, TypeOK, Types, Frame
<1>2. /\ host' = Asked(host, type) /\ Asks(type) /\ host.epoch > 0
      /\ UNCHANGED <<wire, age, stopped, fed, answered, late>>
  BY DEF Call
<1>3. /\ host' \in HostStates' /\ host'.resync \subseteq host'.pending
      /\ host'.pending = host.pending \cup {Len(requests) + 1}
      /\ host'.last = host.last /\ host'.epoch = host.epoch /\ host'.fenced = host.fenced
  BY <1>1, <1>2, AskedIsHost
<1> QED BY <1>1, <1>2, <1>3, AskingKeeps

(* The watchdog's probe. *)
LEMMA ProbeKeeps == TransportInv /\ Probe => TransportInv'
<1> SUFFICES ASSUME TransportInv, Probe PROVE TransportInv'
  OBVIOUS
<1> DEFINE h == Asked(host, "state_request")
<1>1. TypeOK /\ host \in HostStates /\ host.resync \subseteq host.pending /\ "state_request" \in Types
  BY DEF TransportInv, RepairedWholly, TypeOK, Types
<1>2. /\ host' = [h EXCEPT !.probe = Len(requests) + 1, !.heard = FALSE]
      /\ Asks("state_request") /\ host.epoch > 0
      /\ UNCHANGED <<wire, age, stopped, fed, answered, late>>
  BY DEF Probe
<1>3. /\ h \in HostStates' /\ h.resync \subseteq h.pending
      /\ h.pending = host.pending \cup {Len(requests) + 1}
      /\ h.last = host.last /\ h.epoch = host.epoch /\ h.fenced = host.fenced
  BY <1>1, <1>2, AskedIsHost
<1>4. Len(requests) + 1 \in Ids'
  BY <1>1, <1>2, AsksGrows
<1> HIDE DEF h
<1>5. /\ host' \in HostStates' /\ host'.resync \subseteq host'.pending
      /\ host'.pending = h.pending
      /\ host'.last = h.last /\ host'.epoch = h.epoch /\ host'.fenced = h.fenced
  BY <1>2, <1>3, <1>4 DEF HostStates
<1> QED BY <1>1, <1>2, <1>3, <1>5, AskingKeeps

(* A deadline passes. *)
LEMMA TimeoutKeeps ==
  ASSUME TransportInv, NEW id \in Ids, Timeout(id)
  PROVE  TransportInv'
<1> DEFINE h == Forget(host, {id})
<1>1. TypeOK /\ host \in HostStates /\ host.resync \subseteq host.pending
  BY DEF TransportInv, RepairedWholly, TypeOK
<1>2. /\ host' = ProbeSettled(h, id, TRUE) /\ late' = TRUE
      /\ UNCHANGED <<child, wire, age, stopped, fed, requests, answered>>
  BY DEF Timeout
<1>3. /\ h \in HostStates /\ h.resync \subseteq h.pending /\ h.pending = host.pending \ {id}
      /\ h.last = host.last /\ h.epoch = host.epoch /\ h.fenced = host.fenced
  BY <1>1, ForgetIsHost
<1> HIDE DEF h
<1>4. /\ host' \in HostStates /\ host'.pending = h.pending /\ host'.resync = h.resync
      /\ host'.last = h.last /\ host'.epoch = h.epoch /\ host'.fenced = h.fenced
  BY <1>2, <1>3, ProbeIsHost
<1>5. Ids' = Ids /\ HostStates' = HostStates
  BY <1>2 DEF Ids, HostStates
<1>6. TypeOK'
  BY <1>1, <1>2, <1>3, <1>4, <1>5 DEF TypeOK
<1>7. host'.pending \subseteq host.pending /\ host'.pending \subseteq Ids
  BY <1>1, <1>3, <1>4 DEF HostStates
<1> QED BY <1>2, <1>3, <1>4, <1>5, <1>6, <1>7, QuietKeeps

-----------------------------------------------------------------------------
(* handleMessage: what the six ways to receive a frame have in common.     *)

(* A frame that changes neither the host nor the feed. *)
LEMMA IgnoreKeeps ==
  ASSUME TransportInv, NEW f, Ignore(f), UNCHANGED <<stopped, answered, late>>,
         wire' = wire \/ (wire # <<>> /\ wire' = Tail(wire))
  PROVE  TransportInv'
<1>1. UNCHANGED <<host, age, fed, requests, child>>
  BY DEF Ignore, AsksNothing
<1>2. /\ TypeOK /\ EpochFollowsFeed /\ AttachNotStranded /\ FeedIsCounted /\ FenceClearsAttaches
  BY DEF TransportInv, RepairedWholly
<1>3. Ids' = Ids /\ HostStates' = HostStates
  BY <1>1 DEF Ids, HostStates
<1>4. WireIsHonest' /\ AnswersAreSent' /\ wire' \in Seq(Frame')
  BY <1>1, <1>3, WireKeeps
<1>5. TypeOK'
  BY <1>1, <1>2, <1>3, <1>4 DEF TypeOK, Frame
<1>6. EpochFollowsFeed' /\ AttachNotStranded' /\ FeedIsCounted' /\ FenceClearsAttaches'
  BY <1>1, <1>2, <1>3 DEF EpochFollowsFeed, AttachNotStranded, FeedIsCounted, FenceClearsAttaches, Attaches
<1> QED BY <1>4, <1>5, <1>6 DEF TransportInv, RepairedWholly

(* A frame in order that is counted and asks for nothing: the fence stays  *)
(* and nothing is delivered, or the frame is delivered.                    *)
LEMMA CountedKeeps ==
  ASSUME TransportInv, NEW f \in Frame, Honest(f), InOrder(f),
         UNCHANGED <<child, requests, stopped, answered, late>>,
         wire' = wire \/ (wire # <<>> /\ wire' = Tail(wire)), age' \in 0 .. 2,
         host' \in HostStates, host'.resync \subseteq host'.pending,
         host'.pending \subseteq host.pending, host'.last = f.n,
         f.kind = "answer" /\ ~host.fenced => f.id \notin host'.pending,
         \/ host.fenced /\ host'.fenced /\ fed' = fed /\ host'.epoch = host.epoch
         \/ /\ ~host'.fenced /\ fed' = f.n
            /\ \/ host'.epoch = f.epoch
               \/ host'.epoch = host.epoch /\ f.kind # "control" /\ ~host.fenced
  PROVE  TransportInv'
<1>1. /\ TypeOK /\ EpochFollowsFeed /\ AttachNotStranded /\ FeedIsCounted /\ FenceClearsAttaches
  BY DEF TransportInv, RepairedWholly
<1>2. Ids' = Ids /\ HostStates' = HostStates
  BY DEF Ids, HostStates
<1>3. WireIsHonest' /\ AnswersAreSent' /\ wire' \in Seq(Frame')
  BY <1>2, WireKeeps
<1>4. /\ host.last \in Nat /\ fed \in Nat /\ f.n \in Nat /\ host.epoch \in Nat
      /\ host.fenced \in BOOLEAN /\ host'.fenced \in BOOLEAN
      /\ child.epochs \in Seq(1 .. MaxEpochs)
  BY <1>1 DEF TypeOK, HostStates, Frame
<1>5. f.n \in 1 .. Len(child.epochs) /\ f.epoch = child.epochs[f.n] /\ f.n > host.last
  BY <1>4 DEF Honest, Numbered, InOrder
<1>6. TypeOK'
  <2>1. fed' \in Nat
    BY <1>4
  <2>2. child' \in [epochs : Seq(1 .. MaxEpochs), inbox : Seq(Ids')] /\ stopped' \in BOOLEAN
    BY <1>1, <1>2 DEF TypeOK
  <2>3. requests' \in Seq([type : Types, fenced : BOOLEAN]) /\ late' \in BOOLEAN
    BY <1>1 DEF TypeOK
  <2> QED BY <1>1, <1>2, <1>3, <2>1, <2>2, <2>3, TypeKeeps
<1>7. EpochFollowsFeed'
  <2> SUFFICES ASSUME host'.epoch > 0, ~host'.fenced PROVE host'.epoch = child.epochs[fed']
    BY DEF EpochFollowsFeed
  <2>1. CASE host'.epoch = f.epoch
    BY <2>1, <1>5
  <2>2. CASE host'.epoch = host.epoch /\ f.kind # "control" /\ ~host.fenced
    <3>1. fed = host.last /\ fed > 0 /\ host.epoch = child.epochs[fed]
      BY <2>2, <1>1 DEF FeedIsCounted, EpochFollowsFeed
    <3>2. f.n = host.last + 1 /\ f.n > 1 /\ f.n - 1 = fed
      BY <3>1, <1>4 DEF InOrder
    <3>3. child.epochs[f.n] = child.epochs[f.n - 1]
      BY <2>2, <3>2 DEF Honest, KeepsEpoch
    <3> QED BY <2>2, <3>1, <3>2, <3>3
  <2> QED BY <2>1, <2>2
<1>8. AttachNotStranded'
  <2> SUFFICES ASSUME NEW a \in answered, requests[a.request].type = "authority_attach",
                      ~requests[a.request].fenced, a.n <= f.n
               PROVE  a.request \notin host'.pending
    BY DEF AttachNotStranded
  <2>1. CASE host.fenced
    BY <2>1, <1>1 DEF FenceClearsAttaches, Attaches
  <2>2. CASE ~host.fenced
    <3>1. a.n <= host.last \/ (f.kind = "answer" /\ f.id = a.request)
      BY NextAnswer
    <3>2. a.n <= host.last => a.request \notin host.pending
      BY <1>1 DEF AttachNotStranded
    <3> QED BY <2>2, <3>1, <3>2
  <2> QED BY <2>1, <2>2
<1>9. FeedIsCounted'
  BY <1>1, <1>4, <1>5 DEF FeedIsCounted
<1>10. FenceClearsAttaches'
  BY <1>1 DEF FenceClearsAttaches, Attaches
<1> QED BY <1>3, <1>6, <1>7, <1>8, <1>9, <1>10 DEF TransportInv, RepairedWholly

(* A control envelope dropped under the fence. *)
LEMMA SkippedKeeps ==
  ASSUME TransportInv, NEW f \in Frame, Honest(f), Skipped(f), UNCHANGED <<stopped, answered, late>>,
         wire' = wire \/ (wire # <<>> /\ wire' = Tail(wire))
  PROVE  TransportInv'
<1>1. /\ host \in HostStates /\ host.resync \subseteq host.pending /\ age \in 0 .. 2
      /\ f.n \in Nat
  BY DEF TransportInv, RepairedWholly, TypeOK, Frame
<1>2. /\ host' = [host EXCEPT !.last = f.n] /\ InOrder(f) /\ host.fenced
      /\ UNCHANGED <<child, requests, age, fed>>
  BY DEF Skipped, AsksNothing
<1>3. /\ host' \in HostStates /\ host'.resync = host.resync /\ host'.pending = host.pending
      /\ host'.last = f.n /\ host'.fenced = host.fenced /\ host'.epoch = host.epoch
  BY <1>1, <1>2 DEF HostStates
<1> QED BY <1>1, <1>2, <1>3, CountedKeeps

(* A control envelope heard. *)
LEMMA ControlKeeps ==
  ASSUME TransportInv, NEW f \in Frame, Honest(f), Control(f), UNCHANGED <<stopped, answered, late>>,
         wire' = wire \/ (wire # <<>> /\ wire' = Tail(wire))
  PROVE  TransportInv'
<1>1. /\ host \in HostStates /\ host.resync \subseteq host.pending
      /\ f.n \in Nat /\ f.epoch \in Nat
  BY BoundsAssumption DEF TransportInv, RepairedWholly, TypeOK, Frame
<1>2. /\ host' = Heard([host EXCEPT !.last = f.n], f.epoch) /\ InOrder(f) /\ f.kind # "answer"
      /\ age' = 0 /\ fed' = f.n /\ UNCHANGED <<child, requests>>
  BY DEF Control, AsksNothing
<1>3. /\ host' \in HostStates /\ host'.resync = host.resync /\ host'.pending = host.pending
      /\ host'.last = f.n /\ ~host'.fenced /\ host'.epoch = f.epoch
  BY <1>1, <1>2 DEF HostStates, Heard
<1> QED BY <1>1, <1>2, <1>3, CountedKeeps

(* An event delivered. *)
LEMMA EventKeeps ==
  ASSUME TransportInv, NEW f \in Frame, Honest(f), Event(f), UNCHANGED <<stopped, answered, late>>,
         wire' = wire \/ (wire # <<>> /\ wire' = Tail(wire))
  PROVE  TransportInv'
<1>1. /\ host \in HostStates /\ host.resync \subseteq host.pending /\ age \in 0 .. 2
      /\ f.n \in Nat
  BY DEF TransportInv, RepairedWholly, TypeOK, Frame
<1>2. /\ host' = [host EXCEPT !.last = f.n] /\ InOrder(f) /\ f.kind = "event" /\ ~host.fenced
      /\ fed' = f.n /\ UNCHANGED <<child, requests, age>>
  BY DEF Event, AsksNothing, Barred
<1>3. /\ host' \in HostStates /\ host'.resync = host.resync /\ host'.pending = host.pending
      /\ host'.last = f.n /\ host'.fenced = host.fenced /\ host'.epoch = host.epoch
  BY <1>1, <1>2 DEF HostStates
<1> QED BY <1>1, <1>2, <1>3, CountedKeeps

(* What an answer does to the host: it is counted, its request forgotten,  *)
(* and a snapshot that was asked for is adopted.                           *)
LEMMA AnswerEffect ==
  ASSUME TypeOK, NEW f \in Frame, Answer(f)
  PROVE  /\ host' \in HostStates /\ host'.resync \subseteq host'.pending
         /\ host'.pending = host.pending \ {f.id} /\ host'.last = f.n
         /\ \/ host'.epoch = f.epoch /\ ~host'.fenced
            \/ host'.epoch = host.epoch /\ host'.fenced = host.fenced
         /\ age' \in 0 .. 2
<1> DEFINE counted == [host EXCEPT !.last = f.n]
           lifts == f.id \in host.resync /\ ~Refused(f)
           base == IF lifts THEN Resync(counted, f) ELSE counted
           settled == Forget(base, {f.id})
<1>1. /\ host \in HostStates /\ host.resync \subseteq host.pending /\ age \in 0 .. 2
      /\ f.n \in Nat /\ f.epoch \in Nat /\ host.pending \subseteq Ids
  BY BoundsAssumption DEF TypeOK, Frame, HostStates
<1>2. /\ counted \in HostStates /\ counted.resync = host.resync /\ counted.pending = host.pending
      /\ counted.last = f.n /\ counted.fenced = host.fenced /\ counted.epoch = host.epoch
  BY <1>1 DEF HostStates
<1>3. CASE f.id \in host.pending
  <2>1. /\ host' = ProbeSettled(settled, f.id, Refused(f)) /\ age' = IF lifts THEN 0 ELSE age
    BY <1>3 DEF Answer
  <2> HIDE DEF counted
  <2>2. /\ base \in HostStates /\ base.resync = host.resync /\ base.pending = host.pending
        /\ base.last = f.n
        /\ \/ base.epoch = f.epoch /\ ~base.fenced
           \/ base.epoch = host.epoch /\ base.fenced = host.fenced
    BY <1>1, <1>2 DEF HostStates, Heard, Resync
  <2> HIDE DEF base
  <2>3. {f.id} \in SUBSET Ids
    BY <1>1, <1>3
  <2>4. /\ settled \in HostStates /\ settled.resync \subseteq settled.pending
        /\ settled.pending = host.pending \ {f.id}
        /\ settled.last = f.n /\ settled.epoch = base.epoch /\ settled.fenced = base.fenced
    BY <1>1, <2>2, <2>3, ForgetIsHost
  <2> HIDE DEF settled
  <2>5. Refused(f) \in BOOLEAN
    BY DEF Refused, Mismatched
  <2>6. /\ host' \in HostStates /\ host'.pending = settled.pending /\ host'.resync = settled.resync
        /\ host'.last = settled.last /\ host'.epoch = settled.epoch /\ host'.fenced = settled.fenced
    BY <2>1, <2>4, <2>5, ProbeIsHost
  <2> QED BY <1>1, <2>1, <2>2, <2>4, <2>6
<1>4. CASE f.id \notin host.pending
  <2>1. host' = counted /\ age' = age
    BY <1>4 DEF Answer
  <2> QED BY <1>1, <1>2, <1>4, <2>1
<1> QED BY <1>3, <1>4

LEMMA AnswerKeeps ==
  ASSUME TransportInv, NEW f \in Frame, Honest(f), Answer(f), UNCHANGED <<stopped, answered, late>>,
         wire' = wire \/ (wire # <<>> /\ wire' = Tail(wire))
  PROVE  TransportInv'
<1>1. TypeOK
  BY DEF TransportInv, RepairedWholly
<1>2. /\ InOrder(f) /\ f.kind = "answer" /\ fed' = (IF host'.fenced THEN fed ELSE f.n)
      /\ UNCHANGED <<child, requests>>
  BY DEF Answer, AsksNothing
<1>3. /\ host' \in HostStates /\ host'.resync \subseteq host'.pending
      /\ host'.pending = host.pending \ {f.id} /\ host'.last = f.n
      /\ \/ host'.epoch = f.epoch /\ ~host'.fenced
         \/ host'.epoch = host.epoch /\ host'.fenced = host.fenced
      /\ age' \in 0 .. 2
  BY <1>1, AnswerEffect
<1>4. host.fenced \in BOOLEAN /\ host'.fenced \in BOOLEAN
  BY <1>1, <1>3 DEF TypeOK, HostStates
<1>5. \/ host.fenced /\ host'.fenced /\ fed' = fed /\ host'.epoch = host.epoch
      \/ /\ ~host'.fenced /\ fed' = f.n
         /\ \/ host'.epoch = f.epoch
            \/ host'.epoch = host.epoch /\ f.kind # "control" /\ ~host.fenced
  BY <1>2, <1>3, <1>4
<1> QED BY <1>2, <1>3, <1>5, CountedKeeps

(* A hole in the numbers: the host is fenced, its attaches are told, and a *)
(* full snapshot is asked for.                                             *)
LEMMA GapEffect ==
  ASSUME TransportInv, NEW f \in Frame, Gap(f)
  PROVE  /\ host' \in HostStates' /\ host'.resync \subseteq host'.pending
         /\ host'.pending = (host.pending \ Attaches) \cup {Len(requests) + 1}
         /\ host'.last = f.n /\ host'.epoch = host.epoch /\ host'.fenced
         /\ f.n > host.last /\ host.last > 0
<1> DEFINE fencedHost == [host EXCEPT !.last = f.n, !.fenced = TRUE]
           told == Forget(fencedHost, Attaches)
<1>1. /\ TypeOK /\ host \in HostStates /\ host.resync \subseteq host.pending
      /\ f.n \in Nat /\ host.last \in Nat /\ "state_request" \in Types
  BY DEF TransportInv, RepairedWholly, TypeOK, Frame, HostStates, Types
<1>2. Attaches \in SUBSET Ids
  BY <1>1 DEF Attaches, HostStates
<1>3. host' = Asked(told, "state_request") /\ Asks("state_request")
  BY DEF Gap
<1>4. /\ fencedHost \in HostStates /\ fencedHost.resync = host.resync
      /\ fencedHost.pending = host.pending /\ fencedHost.last = f.n /\ fencedHost.fenced
      /\ fencedHost.epoch = host.epoch
  BY <1>1 DEF HostStates
<1> HIDE DEF fencedHost
<1>5. /\ told \in HostStates /\ told.resync \subseteq told.pending
      /\ told.pending = host.pending \ Attaches
      /\ told.last = f.n /\ told.fenced /\ told.epoch = host.epoch
  BY <1>1, <1>2, <1>4, ForgetIsHost
<1> HIDE DEF told
<1>6. /\ host' \in HostStates' /\ host'.resync \subseteq host'.pending
      /\ host'.pending = told.pending \cup {Len(requests) + 1}
      /\ host'.last = told.last /\ host'.epoch = told.epoch /\ host'.fenced = told.fenced
  BY <1>1, <1>3, <1>5, AskedIsHost
<1>7. f.n > host.last /\ host.last > 0
  BY <1>1 DEF Gap, Ignored, Repeated, InOrder
<1> QED BY <1>5, <1>6, <1>7

LEMMA GapKeeps ==
  ASSUME TransportInv, NEW f \in Frame, Honest(f), Gap(f), UNCHANGED <<stopped, answered, late>>,
         wire' = wire \/ (wire # <<>> /\ wire' = Tail(wire))
  PROVE  TransportInv'
<1>1. TypeOK /\ FeedIsCounted /\ "state_request" \in Types
  BY DEF TransportInv, RepairedWholly, Types
<1>2. /\ host.last \in Nat /\ fed \in Nat /\ f.n \in Nat /\ host.pending \subseteq Ids
      /\ child.epochs \in Seq(1 .. MaxEpochs)
  BY <1>1 DEF TypeOK, HostStates, Frame
<1>3. /\ host' \in HostStates' /\ host'.resync \subseteq host'.pending
      /\ host'.pending = (host.pending \ Attaches) \cup {Len(requests) + 1}
      /\ host'.last = f.n /\ host'.epoch = host.epoch /\ host'.fenced
      /\ f.n > host.last /\ host.last > 0
  BY GapEffect
<1>4. UNCHANGED <<age, fed>> /\ Asks("state_request")
  BY DEF Gap
<1>5. /\ Ids \subseteq Ids' /\ Len(requests) + 1 \notin Ids
      /\ requests' \in Seq([type : Types, fenced : BOOLEAN])
      /\ child' \in [epochs : Seq(1 .. MaxEpochs), inbox : Seq(Ids')]
      /\ child'.epochs = child.epochs
      /\ \A id \in Ids : requests'[id] = requests[id]
      /\ requests'[Len(requests) + 1].type = "state_request"
  BY <1>1, <1>4, AsksGrows
<1>6. WireIsHonest' /\ AnswersAreSent' /\ wire' \in Seq(Frame')
  BY <1>5, WireKeeps
<1>7. TypeOK'
  <2>1. age' \in 0 .. 2 /\ stopped' \in BOOLEAN /\ fed' \in Nat /\ late' \in BOOLEAN
    BY <1>1, <1>4 DEF TypeOK
  <2> QED BY <1>1, <1>3, <1>5, <1>6, <2>1, TypeKeeps
<1>8. EpochFollowsFeed'
  BY <1>3 DEF EpochFollowsFeed
<1>9. \A id \in host'.pending : requests'[id].type # "authority_attach"
  <2> SUFFICES ASSUME NEW id \in host'.pending PROVE requests'[id].type # "authority_attach"
    OBVIOUS
  <2>1. CASE id = Len(requests) + 1
    BY <2>1, <1>5
  <2>2. CASE id \in host.pending \ Attaches
    <3>1. requests'[id] = requests[id]
      BY <2>2, <1>2, <1>5
    <3> QED BY <2>2, <3>1 DEF Attaches
  <2> QED BY <2>1, <2>2, <1>3
<1>10. AttachNotStranded' /\ FenceClearsAttaches'
  BY <1>9 DEF AttachNotStranded, FenceClearsAttaches, Attaches
<1>11. FeedIsCounted'
  <2>1. f.n <= Len(child.epochs)
    BY DEF Honest, Numbered
  <2> QED BY <1>1, <1>2, <1>3, <1>4, <1>5, <2>1 DEF FeedIsCounted
<1> QED BY <1>6, <1>7, <1>8, <1>10, <1>11 DEF TransportInv, RepairedWholly

(* handleMessage, for every frame. *)
LEMMA ReceiveKeeps == TransportInv /\ Receive => TransportInv'
<1> SUFFICES ASSUME TransportInv, Receive PROVE TransportInv'
  OBVIOUS
<1>1. PICK f : f = Head(wire)
  OBVIOUS
<1>2. /\ wire # <<>> /\ UNCHANGED <<stopped, answered, late>>
      /\ wire' = wire \/ wire' = Tail(wire)
      /\ Ignore(f) \/ Gap(f) \/ Skipped(f) \/ Control(f) \/ Event(f) \/ Answer(f)
  BY <1>1 DEF Receive
<1>3. f \in Frame /\ Honest(f)
  BY <1>1, <1>2, HeadIsHonest
<1>4. CASE Ignore(f)
  BY <1>2, <1>4, IgnoreKeeps
<1>5. CASE Gap(f)
  BY <1>2, <1>3, <1>5, GapKeeps
<1>6. CASE Skipped(f)
  BY <1>2, <1>3, <1>6, SkippedKeeps
<1>7. CASE Control(f)
  BY <1>2, <1>3, <1>7, ControlKeeps
<1>8. CASE Event(f)
  BY <1>2, <1>3, <1>8, EventKeeps
<1>9. CASE Answer(f)
  BY <1>2, <1>3, <1>9, AnswerKeeps
<1> QED BY <1>2, <1>4, <1>5, <1>6, <1>7, <1>8, <1>9

-----------------------------------------------------------------------------
(* The watchdog's own steps touch only the clock and the end. *)
LEMMA ClockKeeps ==
  ASSUME TransportInv, UNCHANGED <<child, wire, host, fed, requests, answered, late>>,
         age' \in 0 .. 2, stopped' \in BOOLEAN
  PROVE  TransportInv'
<1>1. Ids' = Ids /\ HostStates' = HostStates /\ TypeOK
  BY DEF Ids, HostStates, TransportInv, RepairedWholly
<1>2. TypeOK'
  BY <1>1 DEF TypeOK
<1>3. host.pending \subseteq Ids
  BY <1>1 DEF TypeOK, HostStates
<1> QED BY <1>1, <1>2, <1>3, QuietKeeps

LEMMA TransportStep == TransportInv /\ [Next]_vars => TransportInv'
<1> SUFFICES ASSUME TransportInv, [Next]_vars PROVE TransportInv'
  OBVIOUS
<1>1. TypeOK
  BY DEF TransportInv, RepairedWholly
<1>2. ASSUME NEW kind \in {"control", "full", "event"}, ChildEmits(kind) PROVE TransportInv'
  <2>1. PICK epoch \in ChildEpoch .. MaxEpochs :
          /\ epoch > ChildEpoch => kind = "control"
          /\ Transmits(kind, epoch, NoRequest, TRUE, [budget EXCEPT !.emits = @ - 1])
    BY <1>2 DEF ChildEmits
  <2>2. UNCHANGED <<host, age, stopped, fed, requests, answered, late>>
    BY <1>2 DEF ChildEmits
  <2>3. kind \in Kinds /\ kind # "answer" /\ NoRequest \in Ids \cup {NoRequest} /\ TRUE \in BOOLEAN
    BY DEF Kinds
  <2> QED BY <2>1, <2>2, <2>3, SentKeeps
<1>3. ASSUME ChildAnswers PROVE TransportInv'
  <2>1. PICK id : id = Head(child.inbox)
    OBVIOUS
  <2>2. /\ child.inbox # <<>> /\ UNCHANGED <<host, age, stopped, fed, requests, late>>
        /\ answered' = answered \cup {[request |-> id, n |-> Len(child.epochs) + 1]}
        /\ \E ok \in BOOLEAN : \E spent : Transmits("answer", ChildEpoch, id, ok, spent)
    BY <1>3, <2>1 DEF ChildAnswers
  <2>3. id \in Ids
    BY <1>1, <2>1, <2>2 DEF TypeOK
  <2>4. PICK ok \in BOOLEAN : \E spent : Transmits("answer", ChildEpoch, id, ok, spent)
    BY <2>2
  <2>6. PICK spent : Transmits("answer", ChildEpoch, id, ok, spent)
    BY <2>4
  <2>5. ChildEpoch \in ChildEpoch .. MaxEpochs /\ ~(ChildEpoch > ChildEpoch) /\ "answer" \in Kinds
    BY <1>1, ChildEpochIsEpoch, BoundsAssumption DEF Kinds
  <2> QED BY <2>2, <2>3, <2>5, <2>6, SentKeeps
<1>4. ASSUME NEW type \in {"authority_attach", "query"}, Call(type) PROVE TransportInv'
  BY <1>4, CallKeeps
<1>5. ASSUME NEW id \in Ids, Timeout(id) PROVE TransportInv'
  BY <1>5, TimeoutKeeps
<1>6. ASSUME TimePasses \/ WokenUp \/ Unresponsive \/ UNCHANGED vars PROVE TransportInv'
  <2>1. UNCHANGED <<child, wire, host, fed, requests, answered, late>>
    BY <1>6 DEF TimePasses, WokenUp, Unresponsive, vars
  <2>2. age \in 0 .. 2 /\ stopped \in BOOLEAN
    BY <1>1 DEF TypeOK
  <2>3. age' \in 0 .. 2
    BY <1>6, <2>2 DEF TimePasses, WokenUp, Unresponsive, vars
  <2>4. stopped' \in BOOLEAN
    BY <1>6, <2>2 DEF TimePasses, WokenUp, Unresponsive, vars
  <2> QED BY <2>1, <2>3, <2>4, ClockKeeps
<1> QED BY <1>2, <1>3, <1>4, <1>5, <1>6, ReceiveKeeps, ProbeKeeps DEF Next

-----------------------------------------------------------------------------
(* What one step hands to the listeners: the next frame, nothing, or the   *)
(* snapshot that ends a fence.                                             *)
LEMMA FeedStep == TransportInv /\ [Next]_vars => [Feed!FeedNext]_(Feed!feedVars)
<1> SUFFICES ASSUME TransportInv, [Next]_vars PROVE [Feed!FeedNext]_(Feed!feedVars)
  OBVIOUS
<1> USE DEF Feed!FeedNext, Feed!feedVars, Feed!Deliver, Feed!Fence, Feed!Repair
<1>1. /\ TypeOK /\ FeedIsCounted /\ host \in HostStates /\ host.resync \subseteq host.pending
      /\ host.last \in Nat /\ fed \in Nat /\ host.fenced \in BOOLEAN /\ "state_request" \in Types
  BY DEF TransportInv, RepairedWholly, TypeOK, HostStates, Types
<1>2. CASE UNCHANGED <<fed, host>>
  BY <1>2
<1>3. CASE fed' = fed /\ host'.fenced = host.fenced
  BY <1>3
<1>4. ASSUME NEW type \in Types, Asks(type), host' = Asked(host, type), UNCHANGED fed
      PROVE  [Feed!FeedNext]_(Feed!feedVars)
  BY <1>1, <1>3, <1>4, AskedIsHost
<1>5. CASE Receive
  <2>1. PICK f : f = Head(wire)
    OBVIOUS
  <2>2. /\ wire # <<>>
        /\ Ignore(f) \/ Gap(f) \/ Skipped(f) \/ Control(f) \/ Event(f) \/ Answer(f)
    BY <1>5, <2>1 DEF Receive
  <2>3. f \in Frame /\ Honest(f) /\ f.n \in Nat \ {0}
    BY <2>1, <2>2, HeadIsHonest DEF Frame, Honest, Numbered
  <2>4. InOrder(f) => f.n > fed /\ (~host.fenced /\ fed # 0 => f.n = fed + 1)
    BY <1>1, <2>3 DEF InOrder, FeedIsCounted
  <2>5. CASE Ignore(f)
    BY <1>2, <2>5 DEF Ignore
  <2>6. CASE Gap(f)
    BY <2>3, <2>6, GapEffect DEF Gap
  <2>7. CASE Skipped(f)
    BY <1>1, <1>3, <2>7 DEF Skipped, HostStates
  <2>8. CASE Control(f)
    <3>1. InOrder(f) /\ ~host'.fenced /\ fed' = f.n
      BY <1>1, <2>8 DEF Control, Heard, HostStates
    <3> QED BY <1>1, <2>3, <2>4, <3>1
  <2>9. CASE Event(f)
    <3>1. InOrder(f) /\ ~host.fenced /\ host'.fenced = host.fenced /\ fed' = f.n
      BY <1>1, <2>9 DEF Event, Barred, HostStates
    <3> QED BY <1>1, <2>3, <2>4, <3>1
  <2>10. CASE Answer(f)
    <3>1. InOrder(f) /\ fed' = IF host'.fenced THEN fed ELSE f.n
      BY <2>10 DEF Answer
    <3>2. ~host'.fenced \/ host'.fenced = host.fenced
      BY <1>1, <2>3, <2>10, AnswerEffect
    <3> QED BY <1>1, <2>3, <2>4, <3>1, <3>2
  <2> QED BY <2>2, <2>5, <2>6, <2>7, <2>8, <2>9, <2>10
<1>6. ASSUME NEW id \in Ids, Timeout(id) PROVE [Feed!FeedNext]_(Feed!feedVars)
  <2>1. /\ Forget(host, {id}) \in HostStates /\ Forget(host, {id}).fenced = host.fenced
    BY <1>1, ForgetIsHost
  <2>2. host'.fenced = host.fenced /\ fed' = fed
    BY <1>6, <2>1, ProbeIsHost DEF Timeout
  <2> QED BY <1>3, <2>2
<1>7. CASE Probe
  <2>1. /\ Asked(host, "state_request") \in HostStates' /\ Asked(host, "state_request").fenced = host.fenced
    BY <1>1, <1>7, AskedIsHost DEF Probe
  <2>2. host'.fenced = host.fenced /\ fed' = fed
    BY <1>7, <2>1 DEF Probe, HostStates
  <2> QED BY <1>3, <2>2
<1>8. ASSUME NEW type \in {"authority_attach", "query"}, Call(type) PROVE [Feed!FeedNext]_(Feed!feedVars)
  BY <1>4, <1>8 DEF Call, Types
<1>9. CASE \/ \E kind \in {"control", "full", "event"} : ChildEmits(kind)
           \/ ChildAnswers \/ TimePasses \/ WokenUp \/ Unresponsive \/ UNCHANGED vars
  BY <1>2, <1>9 DEF ChildEmits, ChildAnswers, TimePasses, WokenUp, Unresponsive, vars
<1> QED BY <1>5, <1>6, <1>7, <1>8, <1>9 DEF Next

-----------------------------------------------------------------------------
(* Whatever the channel loses or repeats, and whatever main asks meanwhile:*)
(* outside a fence main judges by the epoch of the last frame it handed    *)
(* on, and no attach of an intact channel waits for an answer that the     *)
(* channel has passed over.                                                *)
THEOREM FencesRepairWholly == Spec => []RepairedWholly
<1>1. TransportInv => RepairedWholly
  BY DEF TransportInv
<1> QED BY <1>1, TransportInit, TransportStep, PTL DEF Spec

(* SessionHost implements the feed: the listeners get the child's frames in*)
(* order and without a hole, except across a fence, and only a newer full  *)
(* snapshot ends a fence.                                                  *)
THEOREM ListenersGetTheFeed == Spec => FeedContract
<1>1. Init => Feed!FeedInit
  BY DEF Init, Feed!FeedInit
<1> QED BY <1>1, TransportInit, TransportStep, FeedStep, PTL DEF Spec, FeedContract, Feed!FeedSpec

-----------------------------------------------------------------------------
(***************************************************************************)
(* The timers of HostProcess.  Their invariant is inductive as it stands:  *)
(* what main knows of its child is kept in the same turn as the timers it  *)
(* stands for.                                                             *)
(***************************************************************************)
Inv == TimersFollowHumans

\* The definitions that the invariant unfolds to.
USE DEF Inv, TimersFollowHumans, Process!TimersFollowHumans, Process!TypeOK,
        Process!HostStates, Process!StartupBounded, Process!HumanIsNotAHang,
        Process!DeadlinesFollowUi, Process!StopEscalates, Process!Talks, Process!Rejected,
        Process!Surfaces

\* The process has just been forked.
LEMMA InitTimers ==
  ASSUME Process!Init PROVE Inv
<1> USE DEF Process!Init
<1>1. Process!TypeOK
  <2>1. 0 \in 0 .. MaxOpened
    BY OpenedAssumption
  <2> QED
    BY <2>1
<1>2. Process!StartupBounded /\ Process!HumanIsNotAHang
  OBVIOUS
<1>3. Process!DeadlinesFollowUi /\ Process!StopEscalates
  OBVIOUS
<1> QED
  BY <1>1, <1>2, <1>3

\* A dialog or panel opens: the long timer takes over from the short one.
LEMMA OpenTimers ==
  ASSUME Inv, NEW s \in Dialogs \cup Panels, Process!OpenSurface(s)
  PROVE  Inv'
<1> DEFINE paused == Process!Paused(owner, s)
<1>1. /\ process.open \subseteq Dialogs \cup Panels /\ process.opened + 1 \in 0 .. MaxOpened
      /\ process' = [process EXCEPT !.open = process.open \cup {s}, !.opened = process.opened + 1]
  BY OpenedAssumption DEF Process!OpenSurface
<1>2. /\ process' \in [alive : BOOLEAN, ready : BOOLEAN, open : SUBSET (Dialogs \cup Panels),
                       transition : BOOLEAN, opened : 0 .. MaxOpened, doomed : BOOLEAN]
      /\ process'.open = process.open \cup {s} /\ process'.alive = process.alive
      /\ process'.doomed = process.doomed
  BY <1>1
<1>3. /\ paused \in Process!HostStates /\ paused.leaseUi = owner.leaseUi
      /\ paused.stopping = owner.stopping /\ paused.terminateTimer = owner.terminateTimer
      /\ paused.killTimer = owner.killTimer
      /\ owner.startupTimer \/ owner.dialogTimer => paused.startupTimer \/ paused.dialogTimer
      /\ paused.startupTimer => paused.startupUi = {} /\ ~paused.ready
  BY DEF Process!Paused
<1>4. owner' = IF process.transition THEN [paused EXCEPT !.leaseUi = paused.leaseUi \cup {s}] ELSE paused
  BY DEF Process!OpenSurface
<1> HIDE DEF paused
<1>5. /\ owner' \in Process!HostStates /\ owner'.leaseUi \subseteq process'.open
      /\ owner'.stopping = owner.stopping /\ owner'.terminateTimer = owner.terminateTimer
      /\ owner'.killTimer = owner.killTimer
      /\ owner.startupTimer \/ owner.dialogTimer => owner'.startupTimer \/ owner'.dialogTimer
      /\ owner'.startupTimer => owner'.startupUi = {} /\ ~owner'.ready
  BY <1>2, <1>3, <1>4
<1>6. /\ reload' = CASE reload = "ticking" /\ owner'.leaseUi # {} -> "suspended"
                     [] reload = "suspended" /\ owner'.leaseUi = {} -> "ticking"
                     [] OTHER -> reload
      /\ lease' = (owner'.leaseUi # {}) /\ start' = start
  BY DEF Process!OpenSurface, Process!Leases
<1> QED
  BY <1>2, <1>5, <1>6

\* It closes: with the last one the short timer is armed again.
LEMMA CloseTimers ==
  ASSUME Inv, NEW s \in Dialogs \cup Panels, Process!CloseSurface(s)
  PROVE  Inv'
BY DEF Process!CloseSurface, Process!Resumed, Process!Leases

\* Every panel closes at once.
LEMMA ClearTimers ==
  ASSUME Inv, Process!ClearPanels PROVE Inv'
BY DEF Process!ClearPanels, Process!Leases

\* The child is ready: nothing bounds the start any more.
LEMMA ReadyTimers ==
  ASSUME Inv, NEW control \in BOOLEAN, Process!ReadyMessage(control) PROVE Inv'
BY DEF Process!ReadyMessage, Process!Leases

\* A transition begins, or ends and takes its provisional surfaces along.
LEMMA TransitionTimers ==
  ASSUME Inv, Process!TransitionStarted \/ Process!TransitionBatch PROVE Inv'
BY DEF Process!TransitionStarted, Process!TransitionBatch, Process!Leases

\* The start fails: by an error, or because a timer fired.
LEMMA FailureTimers ==
  ASSUME Inv, Process!StartError \/ Process!StartupTimeout \/ Process!DialogTimeout
  PROVE  Inv'
BY DEF Process!StartError, Process!StartupTimeout, Process!DialogTimeout

\* A lifecycle request begins with its deadline running or suspended, and ends.
LEMMA ReloadTimers ==
  ASSUME Inv, Process!ReloadInPlace \/ Process!ReloadSettles PROVE Inv'
BY DEF Process!ReloadInPlace, Process!ReloadSettles

\* A stop is asked for, and goes on to SIGTERM and SIGKILL.
LEMMA StopTimers ==
  ASSUME Inv, \/ \E graceful \in BOOLEAN : Process!Stop(graceful)
              \/ Process!Terminate \/ Process!Kill
  PROVE  Inv'
<1>1. CASE Process!Kill
  BY <1>1 DEF Process!Kill
<1>2. CASE Process!Terminate
  BY <1>2 DEF Process!Terminate, Process!StoppedBySignal
<1>3. CASE \E graceful \in BOOLEAN : Process!Stop(graceful)
  <2> PICK graceful \in BOOLEAN : Process!Stop(graceful)
    BY <1>3
  <2> DEFINE quiet == [owner EXCEPT !.stopping = TRUE, !.startupTimer = FALSE,
                                    !.dialogTimer = FALSE]
  <2>1. /\ quiet \in Process!HostStates /\ quiet.stopping /\ ~quiet.startupTimer
        /\ quiet.leaseUi = owner.leaseUi
    OBVIOUS
  <2>2. /\ owner' = IF graceful THEN [quiet EXCEPT !.connected = FALSE, !.terminateTimer = TRUE]
                    ELSE [quiet EXCEPT !.terminateTimer = FALSE, !.killTimer = TRUE]
        /\ UNCHANGED <<process, start, reload, lease>>
    BY DEF Process!Stop, Process!StoppedBySignal
  <2> HIDE DEF quiet
  <2>3. /\ owner' \in Process!HostStates /\ owner'.stopping /\ ~owner'.startupTimer
        /\ owner'.leaseUi = owner.leaseUi /\ (owner'.terminateTimer \/ owner'.killTimer)
    BY <2>1, <2>2
  <2> QED
    BY <2>2, <2>3
<1> QED
  BY <1>1, <1>2, <1>3

\* The process is gone.
LEMMA ExitTimers ==
  ASSUME Inv, Process!Exit PROVE Inv'
BY DEF Process!Exit

\* Every step of the process keeps the invariant.
LEMMA StepTimers ==
  ASSUME Inv, [Process!Next]_(Process!vars) PROVE Inv'
<1>1. CASE UNCHANGED Process!vars
  BY <1>1 DEF Process!vars
<1>2. CASE Process!Next
  <2> HIDE DEF Inv
  <2> QED
    BY <1>2, OpenTimers, CloseTimers, ClearTimers, ReadyTimers, TransitionTimers, FailureTimers,
       ReloadTimers, StopTimers, ExitTimers DEF Process!Next
<1> QED
  BY <1>1, <1>2

\* Whatever a child does while it starts, talks to a human and is stopped: a start
\* that is waited for has a timer, no short timer runs against a human, deadlines
\* and the registry's lease follow the provisional surfaces, and a stop that was
\* asked for always has its next step to come (pauseStartupForUi,
\* resumeStartupAfterUi, addTransitionUiBlocker, terminateAfterGracefulDisconnect).
THEOREM TimersAreTrue == Process!Spec => []TimersFollowHumans
<1> HIDE DEF Inv
<1>1. Process!Init => Inv
  BY InitTimers
<1>2. Inv /\ [Process!Next]_(Process!vars) => Inv'
  BY StepTimers
<1>3. Inv => TimersFollowHumans
  BY DEF Inv
<1> HIDE DEF TimersFollowHumans
<1> QED
  BY <1>1, <1>2, <1>3, PTL DEF Process!Spec
=============================================================================
