------------------------ MODULE IntentAdmissionProofs ------------------------
(***************************************************************************)
(* Custody, exclusion and the handing of prompts to Pi, for every set of   *)
(* intents and plans and every number of drains that wait.                 *)
(***************************************************************************)
EXTENDS IntentAdmission, TLAPS, SequenceTheorems, WellFoundedInduction

(***************************************************************************)
(* The inductive invariant, over the state as one value w, so that it can  *)
(* be asked of the values between two helpers of one handler as well.      *)
(***************************************************************************)
Jobs == {"none", "submit", "draining", "drained", "reload"}
Activities == {"none", "custody", "admitting", "consumed", "invoking", "unknown"}
Transitions == {"none", "prepare", "crossed", "failed"}
Accepting == {"queued", "handled", "started", "running", "ended"}
Stages == {"none", "preflight", "done", "failed"} \cup Accepting
Receipts == {"none", "admitted", "not_admitted"}

Scheds == [ingress : Seq(Intents), drains : 0..MaxDrains, job : Jobs, waits : Intents \cup {None}]
Items == [id : Prompts, phase : Phases, barrier : Nat, at : Nat]
Auths ==
    [custody : SUBSET Items, sequence : Nat, active : [Intents -> Activities],
     fence : Prompts \cup {None}, wakers : 0..MaxDrains, transition : Transitions,
     stale : SUBSET Intents, fatal : BOOLEAN, barrier : Nat, escapes : Nat]
Admissions == [open : BOOLEAN, cancelled : BOOLEAN, crossed : BOOLEAN, late : BOOLEAN, seen : BOOLEAN]
Comps ==
    [open : BOOLEAN, cmd : Compactions \cup {None}, seen : BOOLEAN, failed : BOOLEAN,
     aborted : BOOLEAN, auto : Nat]
Navs == [now : Navigations \cup {None}, barrier : Nat, shown : SUBSET Navigations]
Pis == [streaming : BOOLEAN, queue : Seq(Prompts), stage : [Prompts -> Stages]]
Logs ==
    [receipt : [Intents -> Receipts], outcome : [Intents -> Outcomes], kept : Seq(Prompts),
     sent : Seq(Prompts), idle : SUBSET Prompts, crossed : SUBSET Prompts, ran : SUBSET Prompts,
     unsent : SUBSET Prompts, taken : SUBSET Prompts]

Worlds ==
    [sched : Scheds, auth : Auths, adm : [Prompts -> Admissions], comp : Comps, nav : Navs,
     pi : Pis, log : Logs]

Typed(w) ==
    /\ w \in Worlds
    /\ w.sched.waits # None <=> w.sched.job \in {"submit", "drained", "reload"}
    /\ w.sched.job \in {"submit", "drained"} => w.sched.waits \in Prompts

\* An intent is dispatched once, and what waits in ingress has gone nowhere yet.
Fresh(w) ==
    /\ \A j, k \in DOMAIN w.sched.ingress : w.sched.ingress[j] = w.sched.ingress[k] => j = k
    /\ \A j \in DOMAIN w.sched.ingress :
           /\ w.sched.ingress[j] \notin ToSet(w.log.kept) \cup ToSet(w.log.sent)
           /\ w.log.receipt[w.sched.ingress[j]] # "none"
    /\ \A p \in ToSet(w.log.kept) \cup ToSet(w.log.sent) : w.log.receipt[p] # "none"

\* The numbers of custody are the places in the order in which it was taken.
Ordered(w) ==
    /\ w.auth.sequence = Len(w.log.kept)
    /\ \A a, b \in DOMAIN w.log.kept : w.log.kept[a] = w.log.kept[b] => a = b
    /\ \A x \in w.auth.custody : x.at \in DOMAIN w.log.kept /\ w.log.kept[x.at] = x.id
    /\ \A x, y \in w.auth.custody : x.at = y.at => x = y

\* A prompt that Pi has is an open admission; Pi accepts it before it does
\* anything else with it, and never after its cancellation.
Pending(w) ==
    \A p \in Prompts :
        /\ w.adm[p].open <=> w.pi.stage[p] \notin {"none", "done", "failed"}
        /\ w.pi.stage[p] \in Accepting => w.adm[p].crossed
        /\ w.adm[p].crossed <=> p \in w.log.crossed
        /\ ~(w.adm[p].crossed /\ w.adm[p].cancelled)
        /\ w.pi.stage[p] # "none" \/ p \in w.log.crossed => p \in ToSet(w.log.sent)
        /\ ~w.auth.fatal /\ p \in ToSet(w.pi.queue) \cup w.log.ran => p \in w.log.crossed

\* A prompt that was sent to an idle Pi holds the fence until it has settled.
IdleFenced(w) ==
    \A p \in w.log.idle : w.pi.stage[p] \in {"done", "failed"} \/ w.auth.fence = p

\* Of what is in custody Pi has the item that the drain waits for, at most,
\* and that one is the first.
First(w, x) == \A y \in w.auth.custody : x.at <= y.at
HeadSent(w) ==
    /\ \A x \in w.auth.custody :
           w.adm[x.id].open \/ x.id \in w.log.crossed
               => w.sched.job = "drained" /\ w.sched.waits = x.id
    /\ w.sched.job = "drained" =>
           /\ w.nav.now = None /\ w.sched.waits \in ToSet(w.log.sent)
           /\ \A x \in w.auth.custody : x.id = w.sched.waits => First(w, x)
           /\ w.log.taken = {} => \E x \in w.auth.custody : x.id = w.sched.waits

Alone(w) ==
    w.auth.transition \in {"prepare", "crossed"} =>
        /\ w.sched.job = "reload" /\ w.auth.custody = {} /\ w.auth.fence = None
        /\ ~Navigating(w) /\ \A p \in Prompts : ~w.adm[p].open
        /\ Unsettled(w) \subseteq Reloads

Fifo(w) ==
    \A a, b \in DOMAIN w.log.kept :
        a < b /\ w.log.kept[b] \in ToSet(w.log.sent)
            => w.log.kept[a] \in ToSet(w.log.sent) \cup w.log.unsent
Whole(w) ==
    \A p \in ToSet(w.log.kept) :
        \/ p \in {item.id : item \in w.auth.custody}
        \/ p \in ToSet(w.log.sent) \cup w.log.unsent
Safe(w) == w.log.taken = {} => Fifo(w) /\ Whole(w)

Good(w) ==
    /\ Typed(w) /\ Fresh(w) /\ Ordered(w) /\ Pending(w) /\ IdleFenced(w) /\ HeadSent(w)
    /\ Alone(w) /\ Safe(w)

AdmissionInv == plan \in Plans /\ Good(World)
-----------------------------------------------------------------------------
(***************************************************************************)
(* Most of what a handler does only follows what was there: v Follows w    *)
(* when v has the prompts of w where they were or further on, and nothing  *)
(* new.  The rest (dispatch, custody, handing over, acceptance, the start  *)
(* of a navigation or of a transition) has a lemma of its own.             *)
(***************************************************************************)
JobFollows(v, w) ==
    \/ v.sched.job = w.sched.job /\ v.sched.waits = w.sched.waits
    \/ /\ v.sched.job \in {"none", "draining"} /\ v.sched.waits = None
       /\ w.sched.job # "drained"
       /\ w.sched.job = "reload" => v.auth.transition \notin {"prepare", "crossed"}

BarriersFollow(v, w) ==
    /\ \/ v.sched.ingress = w.sched.ingress
       \/ w.sched.ingress # <<>> /\ v.sched.ingress = Tail(w.sched.ingress)
    /\ \/ v.auth.transition = w.auth.transition
       \/ v.auth.transition \notin {"prepare", "crossed"}
       \/ w.auth.transition \in {"prepare", "crossed"}
    /\ w.auth.fatal => v.auth.fatal
    /\ v.nav.now # None => v.nav.now = w.nav.now
    /\ Navigating(v) => Navigating(w)
    /\ v.auth.fence # w.auth.fence =>
           /\ v.auth.fence = None
           /\ \A p \in Prompts : w.auth.fence = p => v.pi.stage[p] \in {"done", "failed"}

CustodyFollows(v, w) ==
    /\ v.auth.sequence = w.auth.sequence
    /\ v.auth.custody \subseteq w.auth.custody
    /\ \A x \in w.auth.custody \ v.auth.custody :
           /\ x.id \in v.log.unsent
           /\ w.sched.job = "drained" /\ x.id = w.sched.waits => v.log.taken # {}

PromptFollows(v, w, p) ==
    /\ v.adm[p].crossed = w.adm[p].crossed
    /\ v.adm[p].cancelled => w.adm[p].cancelled \/ ~w.adm[p].crossed
    /\ \/ /\ v.adm[p].open = w.adm[p].open
          /\ \/ v.pi.stage[p] = w.pi.stage[p]
             \/ {v.pi.stage[p], w.pi.stage[p]} \subseteq Accepting
       \/ ~v.adm[p].open /\ v.pi.stage[p] \in {"done", "failed"} /\ w.pi.stage[p] # "none"

LogFollows(v, w) ==
    /\ v.log.receipt = w.log.receipt /\ v.log.kept = w.log.kept /\ v.log.sent = w.log.sent
    /\ v.log.idle = w.log.idle /\ v.log.crossed = w.log.crossed
    /\ \A i \in Intents : w.log.outcome[i] # "none" => v.log.outcome[i] # "none"
    /\ w.log.unsent \subseteq v.log.unsent /\ w.log.taken \subseteq v.log.taken
    /\ v.log.ran \subseteq w.log.ran \cup ToSet(w.pi.queue) \cup w.log.crossed
    /\ v.auth.fatal \/ ToSet(v.pi.queue) \subseteq ToSet(w.pi.queue)

Follows(v, w) ==
    /\ Typed(v)
    /\ JobFollows(v, w) /\ BarriersFollow(v, w) /\ CustodyFollows(v, w) /\ LogFollows(v, w)
    /\ \A p \in Prompts : PromptFollows(v, w, p)

-----------------------------------------------------------------------------
(* A non-empty set of numbers has a least one. *)
LEMMA LeastOf ==
    ASSUME NEW S \in SUBSET Nat, S # {}
    PROVE  \E x \in S : \A y \in S : x <= y
<1>1. PICK x \in S : \A y \in S : <<y, x>> \notin OpToRel(<, Nat)
  BY WFMin, NatLessThanWellFounded, Zenon
<1>2. \A y \in S : ~(y < x)
  BY <1>1 DEF OpToRel
<1> QED
  BY <1>2

(* What the elements of a sequence are, after its head is gone or with one *)
(* more at its end.                                                        *)
LEMMA TailFacts ==
    ASSUME NEW S, NEW s \in Seq(S), s # <<>>
    PROVE  /\ Tail(s) \in Seq(S) /\ DOMAIN Tail(s) = 1 .. Len(s) - 1
           /\ \A j \in DOMAIN Tail(s) : j + 1 \in DOMAIN s /\ Tail(s)[j] = s[j + 1]
           /\ Head(s) = s[1] /\ 1 \in DOMAIN s /\ Head(s) \in S
           /\ ToSet(Tail(s)) \subseteq ToSet(s)
<1>1. /\ Tail(s) \in Seq(S) /\ Len(Tail(s)) = Len(s) - 1 /\ Len(s) \in Nat /\ Len(s) > 0
      /\ \A j \in 1 .. Len(s) - 1 : Tail(s)[j] = s[j + 1]
      /\ Head(s) = s[1] /\ DOMAIN s = 1 .. Len(s) /\ Head(s) \in S
  BY HeadTailProperties, LenProperties, EmptySeq
<1>2. DOMAIN Tail(s) = 1 .. Len(s) - 1
  BY <1>1
<1>3. \A j \in DOMAIN Tail(s) : j + 1 \in DOMAIN s /\ Tail(s)[j] = s[j + 1]
  BY <1>1, <1>2
<1>4. ToSet(Tail(s)) \subseteq ToSet(s)
  BY <1>3 DEF ToSet
<1> QED
  BY <1>1, <1>2, <1>3, <1>4

\* What the elements of a sequence are with one more at its end.
LEMMA AppendFacts ==
    ASSUME NEW S, NEW s \in Seq(S), NEW e \in S
    PROVE  /\ Append(s, e) \in Seq(S) /\ DOMAIN Append(s, e) = 1 .. Len(s) + 1
           /\ DOMAIN s = 1 .. Len(s) /\ Len(s) \in Nat /\ Len(Append(s, e)) = Len(s) + 1
           /\ \A j \in 1 .. Len(s) : Append(s, e)[j] = s[j]
           /\ Append(s, e)[Len(s) + 1] = e
           /\ ToSet(Append(s, e)) = ToSet(s) \cup {e}
<1>1. /\ Append(s, e) \in Seq(S) /\ Len(Append(s, e)) = Len(s) + 1 /\ Len(s) \in Nat
      /\ \A j \in 1 .. Len(s) : Append(s, e)[j] = s[j]
      /\ Append(s, e)[Len(s) + 1] = e
      /\ DOMAIN s = 1 .. Len(s)
  BY AppendProperties, LenProperties
<1>2. DOMAIN Append(s, e) = 1 .. Len(s) + 1
  BY <1>1, LenProperties
<1>3. ToSet(Append(s, e)) = ToSet(s) \cup {e}
  <2>1. ASSUME NEW x \in ToSet(Append(s, e)) PROVE x \in ToSet(s) \cup {e}
    <3>1. PICK j \in 1 .. Len(s) + 1 : x = Append(s, e)[j]
      BY <1>2, <2>1 DEF ToSet
    <3>2. CASE j = Len(s) + 1
      BY <1>1, <3>1, <3>2
    <3>3. CASE j \in 1 .. Len(s)
      BY <1>1, <3>1, <3>3 DEF ToSet
    <3> QED
      BY <1>1, <3>2, <3>3
  <2>2. ASSUME NEW x \in ToSet(s) PROVE x \in ToSet(Append(s, e))
    <3>1. PICK j \in 1 .. Len(s) : x = s[j]
      BY <1>1, <2>2 DEF ToSet
    <3> QED
      BY <1>1, <1>2, <3>1 DEF ToSet
  <2>3. e \in ToSet(Append(s, e))
    BY <1>1, <1>2 DEF ToSet
  <2> QED
    BY <2>1, <2>2, <2>3
<1> QED
  BY <1>1, <1>2, <1>3

(* The invariant survives whatever only follows. *)
LEMMA FollowsKeeps ==
    ASSUME NEW w, NEW v, Good(w), Follows(v, w)
    PROVE  Good(v)
<1>0. /\ w \in Worlds /\ Typed(w) /\ v \in Worlds /\ Typed(v)
      /\ JobFollows(v, w) /\ BarriersFollow(v, w) /\ CustodyFollows(v, w) /\ LogFollows(v, w)
      /\ \A p \in Prompts : PromptFollows(v, w, p)
  BY DEF Good, Typed, Follows
<1>1. Fresh(v)
  <2>1. CASE v.sched.ingress = w.sched.ingress
    BY <1>0, <2>1 DEF Good, Fresh, LogFollows
  <2>2. CASE w.sched.ingress # <<>> /\ v.sched.ingress = Tail(w.sched.ingress)
    <3> DEFINE s == w.sched.ingress
               t == v.sched.ingress
    <3>1. s \in Seq(Intents)
      BY <1>0 DEF Worlds, Scheds
    <3>2. \A j \in DOMAIN t : j \in Nat /\ j + 1 \in DOMAIN s /\ t[j] = s[j + 1]
      BY <2>2, <3>1, TailFacts
    <3>3. \A j, k \in DOMAIN t : t[j] = t[k] => j = k
      <4> SUFFICES ASSUME NEW j \in DOMAIN t, NEW k \in DOMAIN t, t[j] = t[k]
                   PROVE  j = k
        OBVIOUS
      <4>1. j + 1 = k + 1
        BY <3>2 DEF Good, Fresh
      <4> QED
        BY <3>2, <4>1
    <3>4. \A j \in DOMAIN t : /\ t[j] \notin ToSet(w.log.kept) \cup ToSet(w.log.sent)
                              /\ w.log.receipt[t[j]] # "none"
      BY <3>2 DEF Good, Fresh
    <3>5. v.log.kept = w.log.kept /\ v.log.sent = w.log.sent /\ v.log.receipt = w.log.receipt
      BY <1>0 DEF LogFollows
    <3>6. \A p \in ToSet(v.log.kept) \cup ToSet(v.log.sent) : v.log.receipt[p] # "none"
      BY <3>5 DEF Good, Fresh
    <3> QED
      BY <3>3, <3>4, <3>5, <3>6 DEF Fresh
  <2> QED
    BY <1>0, <2>1, <2>2 DEF BarriersFollow
<1>2. Ordered(v)
  BY <1>0 DEF Good, Ordered, CustodyFollows, LogFollows
<1>3. Pending(v)
  <2> SUFFICES ASSUME NEW p \in Prompts
               PROVE  /\ v.adm[p].open <=> v.pi.stage[p] \notin {"none", "done", "failed"}
                      /\ v.pi.stage[p] \in Accepting => v.adm[p].crossed
                      /\ v.adm[p].crossed <=> p \in v.log.crossed
                      /\ ~(v.adm[p].crossed /\ v.adm[p].cancelled)
                      /\ v.pi.stage[p] # "none" \/ p \in v.log.crossed => p \in ToSet(v.log.sent)
                      /\ ~v.auth.fatal /\ p \in ToSet(v.pi.queue) \cup v.log.ran
                           => p \in v.log.crossed
    BY DEF Pending
  <2>1. /\ PromptFollows(v, w, p) /\ v.log.crossed = w.log.crossed /\ v.log.sent = w.log.sent
        /\ w.adm[p] \in Admissions /\ v.adm[p] \in Admissions
    BY <1>0 DEF LogFollows, Worlds
  <2>2. /\ w.adm[p].open <=> w.pi.stage[p] \notin {"none", "done", "failed"}
        /\ w.pi.stage[p] \in Accepting => w.adm[p].crossed
        /\ w.adm[p].crossed <=> p \in w.log.crossed
        /\ ~(w.adm[p].crossed /\ w.adm[p].cancelled)
        /\ w.pi.stage[p] # "none" \/ p \in w.log.crossed => p \in ToSet(w.log.sent)
        /\ ~w.auth.fatal /\ p \in ToSet(w.pi.queue) \cup w.log.ran => p \in w.log.crossed
    BY DEF Good, Pending
  <2>3. v.adm[p].open <=> v.pi.stage[p] \notin {"none", "done", "failed"}
    BY <2>1, <2>2 DEF PromptFollows, Accepting, Admissions
  <2>4. v.pi.stage[p] \in Accepting => v.adm[p].crossed
    BY <2>1, <2>2 DEF PromptFollows, Accepting, Admissions
  <2>5. /\ v.adm[p].crossed <=> p \in v.log.crossed
        /\ ~(v.adm[p].crossed /\ v.adm[p].cancelled)
    BY <2>1, <2>2 DEF PromptFollows, Admissions
  <2>6. v.pi.stage[p] # "none" \/ p \in v.log.crossed => p \in ToSet(v.log.sent)
    BY <2>1, <2>2 DEF PromptFollows, Accepting
  <2>7. ~v.auth.fatal /\ p \in ToSet(v.pi.queue) \cup v.log.ran => p \in v.log.crossed
    BY <1>0, <2>2 DEF LogFollows, BarriersFollow, Worlds, Auths
  <2> QED
    BY <2>3, <2>4, <2>5, <2>6, <2>7
<1>4. IdleFenced(v)
  <2> SUFFICES ASSUME NEW p \in v.log.idle
               PROVE  v.pi.stage[p] \in {"done", "failed"} \/ v.auth.fence = p
    BY DEF IdleFenced
  <2>1. p \in w.log.idle /\ p \in Prompts /\ PromptFollows(v, w, p)
    BY <1>0 DEF LogFollows, Worlds, Logs
  <2>2. w.pi.stage[p] \in {"done", "failed"} \/ w.auth.fence = p
    BY <2>1 DEF Good, IdleFenced
  <2>3. w.pi.stage[p] \in {"done", "failed"} => v.pi.stage[p] \in {"done", "failed"}
    BY <2>1 DEF PromptFollows, Accepting
  <2> QED
    BY <1>0, <2>1, <2>2, <2>3 DEF BarriersFollow
<1>5. HeadSent(v)
  <2>1. ASSUME NEW x \in v.auth.custody, v.adm[x.id].open \/ x.id \in v.log.crossed
        PROVE  v.sched.job = "drained" /\ v.sched.waits = x.id
    <3>1. x \in w.auth.custody /\ x.id \in Prompts
      BY <1>0, <2>1 DEF CustodyFollows, Worlds, Auths, Items
    <3>2. w.adm[x.id].open \/ x.id \in w.log.crossed
      BY <1>0, <2>1, <3>1 DEF PromptFollows, LogFollows
    <3>3. w.sched.job = "drained" /\ w.sched.waits = x.id
      BY <3>1, <3>2 DEF Good, HeadSent
    <3> QED
      BY <1>0, <3>3 DEF JobFollows
  <2>2. ASSUME v.sched.job = "drained"
        PROVE  /\ v.nav.now = None /\ v.sched.waits \in ToSet(v.log.sent)
               /\ \A x \in v.auth.custody : x.id = v.sched.waits => First(v, x)
               /\ v.log.taken = {} => \E x \in v.auth.custody : x.id = v.sched.waits
    <3>1. w.sched.job = "drained" /\ v.sched.waits = w.sched.waits
      BY <1>0, <2>2 DEF JobFollows
    <3>2. v.nav.now = None /\ v.sched.waits \in ToSet(v.log.sent)
      BY <1>0, <3>1 DEF Good, HeadSent, BarriersFollow, LogFollows
    <3>3. \A x \in v.auth.custody : x.id = v.sched.waits => First(v, x)
      BY <1>0, <3>1 DEF Good, HeadSent, CustodyFollows, First
    <3>4. v.log.taken = {} => \E x \in v.auth.custody : x.id = v.sched.waits
      <4> SUFFICES ASSUME v.log.taken = {}
                   PROVE  \E x \in v.auth.custody : x.id = v.sched.waits
        OBVIOUS
      <4>1. w.log.taken = {}
        BY <1>0 DEF LogFollows
      <4>2. PICK x \in w.auth.custody : x.id = w.sched.waits
        BY <3>1, <4>1 DEF Good, HeadSent
      <4> QED
        BY <1>0, <3>1, <4>2 DEF CustodyFollows
    <3> QED
      BY <3>2, <3>3, <3>4
  <2> QED
    BY <2>1, <2>2 DEF HeadSent
<1>6. Alone(v)
  <2> SUFFICES ASSUME v.auth.transition \in {"prepare", "crossed"}
               PROVE  /\ v.sched.job = "reload" /\ v.auth.custody = {} /\ v.auth.fence = None
                      /\ ~Navigating(v) /\ \A p \in Prompts : ~v.adm[p].open
                      /\ Unsettled(v) \subseteq Reloads
    BY DEF Alone
  <2>1. w.auth.transition \in {"prepare", "crossed"}
    BY <1>0 DEF BarriersFollow
  <2>2. /\ w.sched.job = "reload" /\ w.auth.custody = {} /\ w.auth.fence = None
        /\ ~Navigating(w) /\ \A p \in Prompts : ~w.adm[p].open
        /\ Unsettled(w) \subseteq Reloads
    BY <2>1 DEF Good, Alone
  <2>3. v.sched.job = "reload"
    BY <1>0, <2>2 DEF JobFollows
  <2>4. v.auth.custody = {} /\ v.auth.fence = None /\ ~Navigating(v)
    BY <1>0, <2>2 DEF CustodyFollows, BarriersFollow
  <2>5. \A p \in Prompts : ~v.adm[p].open
    BY <1>0, <2>2 DEF PromptFollows
  <2>6. Unsettled(v) \subseteq Unsettled(w)
    BY <1>0 DEF Unsettled, LogFollows
  <2> QED
    BY <2>2, <2>3, <2>4, <2>5, <2>6
<1>7. Safe(v)
  <2> SUFFICES ASSUME v.log.taken = {} PROVE Fifo(v) /\ Whole(v)
    BY DEF Safe
  <2>1. w.log.taken = {}
    BY <1>0 DEF LogFollows
  <2>2. Fifo(w) /\ Whole(w)
    BY <2>1 DEF Good, Safe
  <2>3. Fifo(v)
    BY <1>0, <2>2 DEF Fifo, LogFollows
  <2>4. Whole(v)
    BY <1>0, <2>2 DEF Whole, LogFollows, CustodyFollows
  <2> QED
    BY <2>3, <2>4
<1> QED
  BY <1>0, <1>1, <1>2, <1>3, <1>4, <1>5, <1>6, <1>7 DEF Good

-----------------------------------------------------------------------------
(***************************************************************************)
(* The helpers.  Kin is what the steps after a helper still rely on.       *)
(***************************************************************************)
Kin(v, w) == v.pi = w.pi /\ v.adm = w.adm /\ v.log.sent = w.log.sent

(* settleDispatchedIntent touches outcomes only. *)
LEMMA SettledKeeps ==
    ASSUME NEW w, Good(w), NEW i \in Intents, NEW result \in Outcomes, result # "none"
    PROVE  Good(SettledAs(w, i, result)) /\ Kin(SettledAs(w, i, result), w)
<1>0. w \in Worlds
  BY DEF Good, Typed
<1>1. CASE w.log.outcome[i] # "none"
  BY <1>1 DEF SettledAs, Kin
<1>2. CASE w.log.outcome[i] = "none"
  <2> DEFINE v == [w EXCEPT !.log.outcome[i] = result]
  <2>1. SettledAs(w, i, result) = v
    BY <1>2 DEF SettledAs
  <2>2. [w.log EXCEPT !.outcome[i] = result] \in Logs
    BY <1>0 DEF Worlds, Logs
  <2>3. v \in Worlds
    BY <1>0, <2>2 DEF Worlds
  <2>4. /\ v.sched = w.sched /\ v.auth = w.auth /\ v.nav = w.nav /\ v.pi = w.pi /\ v.adm = w.adm
        /\ v.log = [w.log EXCEPT !.outcome[i] = result]
    BY <1>0 DEF Worlds
  <2> HIDE DEF v
  <2>5. Typed(v)
    BY <2>3, <2>4 DEF Good, Typed
  <2>6. LogFollows(v, w)
    BY <1>0, <2>4 DEF LogFollows, Worlds, Logs
  <2>7. Follows(v, w)
    BY <2>4, <2>5, <2>6 DEF Follows, JobFollows, BarriersFollow, CustodyFollows, PromptFollows, Navigating
  <2> QED
    BY <1>0, <2>1, <2>4, <2>7, FollowsKeeps DEF Kin, Worlds, Logs
<1> QED
  BY <1>1, <1>2

(* scheduleCustodyDrain touches the drains that wait only. *)
LEMMA DrainedKeeps ==
    ASSUME NEW w, Good(w), NEW n \in 0 .. MaxDrains
    PROVE  Good(DrainedTimes(w, n)) /\ Kin(DrainedTimes(w, n), w)
<1>0. w \in Worlds
  BY DEF Good, Typed
<1>1. CASE Held(w) \/ w.auth.custody = {}
  BY <1>1 DEF DrainedTimes, Kin
<1>2. CASE ~(Held(w) \/ w.auth.custody = {})
  <2>1. PICK m \in 0 .. MaxDrains : DrainedTimes(w, n) = [w EXCEPT !.sched.drains = m]
    <3>1. w.sched.drains \in 0 .. MaxDrains /\ MaxDrains \in Nat
      BY <1>0, AdmissionAssumption DEF Worlds, Scheds
    <3> DEFINE m == IF w.sched.drains + n > MaxDrains THEN MaxDrains ELSE w.sched.drains + n
    <3>2. m \in 0 .. MaxDrains
      BY <3>1
    <3>3. DrainedTimes(w, n) = [w EXCEPT !.sched.drains = m]
      BY <1>2 DEF DrainedTimes
    <3> QED
      BY <3>2, <3>3
  <2> DEFINE v == [w EXCEPT !.sched.drains = m]
  <2>2. [w.sched EXCEPT !.drains = m] \in Scheds
    BY <1>0 DEF Worlds, Scheds
  <2>3. v \in Worlds
    BY <1>0, <2>2 DEF Worlds
  <2>4. /\ v.auth = w.auth /\ v.nav = w.nav /\ v.pi = w.pi /\ v.adm = w.adm /\ v.log = w.log
        /\ v.sched.job = w.sched.job /\ v.sched.waits = w.sched.waits
        /\ v.sched.ingress = w.sched.ingress
    BY <1>0 DEF Worlds, Scheds
  <2> HIDE DEF v
  <2>5. Typed(v)
    BY <2>3, <2>4 DEF Good, Typed
  <2>6. Follows(v, w)
    BY <2>4, <2>5 DEF Follows, JobFollows, BarriersFollow, CustodyFollows, PromptFollows, LogFollows, Navigating
  <2> QED
    BY <2>1, <2>4, <2>6, FollowsKeeps DEF Kin, v
<1> QED
  BY <1>1, <1>2

\* Once, as most callers ask for it.
LEMMA DrainedOnce ==
    ASSUME NEW w, Good(w)
    PROVE  Good(Drained(w)) /\ Kin(Drained(w), w)
<1>1. 1 \in 0 .. MaxDrains
  BY AdmissionAssumption
<1> QED
  BY <1>1, DrainedKeeps DEF Drained

(* restoreCustody gives back what it takes out.  The item that the drain   *)
(* waits for may be among them only once that is on record.                *)
LEMMA RestoredKeeps ==
    ASSUME NEW w, Good(w), NEW ids \in SUBSET Prompts,
           w.sched.job = "drained" /\ w.sched.waits \in ids => w.log.taken # {}
    PROVE  Good(Restored(w, ids)) /\ Kin(Restored(w, ids), w)
<1>0. w \in Worlds /\ Prompts \subseteq Intents
  BY DEF Good, Typed, Intents
<1> DEFINE custody == {item \in w.auth.custody : item.id \notin ids}
           active == [i \in Intents |-> IF i \in ids THEN "unknown" ELSE w.auth.active[i]]
           outcome == [i \in Intents |-> IF i \in ids /\ w.log.outcome[i] = "none"
                                         THEN "outcome_unknown" ELSE w.log.outcome[i]]
           v == [w EXCEPT !.auth.custody = custody, !.auth.active = active,
                          !.log.unsent = w.log.unsent \cup ids, !.log.outcome = outcome]
<1>1. Restored(w, ids) = v
  BY <1>0 DEF Restored, AllSettledAs, Worlds, Auths, Logs
<1>2. custody \in SUBSET Items /\ active \in [Intents -> Activities] /\ outcome \in [Intents -> Outcomes]
  BY <1>0 DEF Worlds, Auths, Logs, Activities, Outcomes
<1>3. /\ [w.auth EXCEPT !.custody = custody, !.active = active] \in Auths
      /\ [w.log EXCEPT !.unsent = w.log.unsent \cup ids, !.outcome = outcome] \in Logs
  <2> HIDE DEF custody, active, outcome
  <2> QED
    BY <1>0, <1>2 DEF Worlds, Auths, Logs
<1>4. \A i \in Intents : w.log.outcome[i] # "none" => outcome[i] # "none"
  OBVIOUS
<1>5. \A x \in w.auth.custody \ custody : x.id \in ids
  OBVIOUS
<1>6. custody \subseteq w.auth.custody
  OBVIOUS
<1> HIDE DEF custody, active, outcome
<1>7. v \in Worlds
  BY <1>0, <1>3 DEF Worlds
<1>8. /\ v.sched = w.sched /\ v.nav = w.nav /\ v.pi = w.pi /\ v.adm = w.adm
      /\ v.auth = [w.auth EXCEPT !.custody = custody, !.active = active]
      /\ v.log = [w.log EXCEPT !.unsent = w.log.unsent \cup ids, !.outcome = outcome]
  BY <1>0 DEF Worlds
<1> HIDE DEF v
<1>9. Typed(v)
  BY <1>7, <1>8 DEF Good, Typed
<1>10. CustodyFollows(v, w)
  BY <1>0, <1>5, <1>6, <1>8 DEF CustodyFollows, Worlds, Auths, Logs
<1>11. LogFollows(v, w)
  BY <1>0, <1>4, <1>8 DEF LogFollows, Worlds, Auths, Logs
<1>12. BarriersFollow(v, w)
  BY <1>0, <1>8 DEF BarriersFollow, Worlds, Auths, Navigating
<1>13. Follows(v, w)
  BY <1>8, <1>9, <1>10, <1>11, <1>12 DEF Follows, JobFollows, PromptFollows
<1> QED
  BY <1>0, <1>1, <1>8, <1>13, FollowsKeeps DEF Kin, Worlds, Logs

(* What the invariant does not look at may change freely. *)
LEMMA SameKeeps ==
    ASSUME NEW w, NEW v, Good(w), v \in Worlds,
           v.sched.ingress = w.sched.ingress, v.sched.job = w.sched.job,
           v.sched.waits = w.sched.waits,
           v.auth.custody = w.auth.custody, v.auth.sequence = w.auth.sequence,
           v.auth.fence = w.auth.fence, v.auth.transition = w.auth.transition,
           v.auth.fatal = w.auth.fatal, v.nav = w.nav, v.adm = w.adm, v.pi = w.pi, v.log = w.log
    PROVE  Good(v) /\ Kin(v, w)
<1>1. Typed(v)
  BY DEF Good, Typed
<1>2. Follows(v, w)
  BY <1>1 DEF Follows, JobFollows, BarriersFollow, CustodyFollows, PromptFollows, LogFollows, Navigating
<1> QED
  BY <1>2, FollowsKeeps DEF Kin

\* activeIntents is bookkeeping the invariant does not look at.
LEMMA ActiveKeeps ==
    ASSUME NEW w, Good(w), NEW i \in Intents, NEW a \in Activities
    PROVE  /\ Good([w EXCEPT !.auth.active[i] = a]) /\ Kin([w EXCEPT !.auth.active[i] = a], w)
           /\ [w EXCEPT !.auth.active[i] = a].sched = w.sched
           /\ [w EXCEPT !.auth.active[i] = a].auth.fence = w.auth.fence
<1>0. w \in Worlds
  BY DEF Good, Typed
<1> DEFINE v == [w EXCEPT !.auth.active[i] = a]
<1>1. [w.auth EXCEPT !.active[i] = a] \in Auths
  BY <1>0 DEF Worlds, Auths
<1>2. v \in Worlds
  BY <1>0, <1>1 DEF Worlds
<1>3. /\ v.sched = w.sched /\ v.nav = w.nav /\ v.pi = w.pi /\ v.adm = w.adm /\ v.log = w.log
      /\ v.auth = [w.auth EXCEPT !.active[i] = a]
  BY <1>0 DEF Worlds
<1> HIDE DEF v
<1>4. /\ v.auth.custody = w.auth.custody /\ v.auth.sequence = w.auth.sequence
      /\ v.auth.fence = w.auth.fence /\ v.auth.transition = w.auth.transition
      /\ v.auth.fatal = w.auth.fatal
  BY <1>0, <1>3 DEF Worlds, Auths
<1>5. Good(v) /\ Kin(v, w)
  BY <1>2, <1>3, <1>4, SameKeeps
<1> QED
  BY <1>3, <1>4, <1>5 DEF v

(* The fence of a prompt is lifted once that prompt has settled. *)
LEMMA LiftedKeeps ==
    ASSUME NEW w, Good(w), NEW p \in Prompts, w.pi.stage[p] \in {"done", "failed"}
    PROVE  Good(FenceLifted(w, p)) /\ Kin(FenceLifted(w, p), w)
<1>0. w \in Worlds /\ p # None /\ w.auth.wakers \in 0 .. MaxDrains
  BY AdmissionAssumption DEF Good, Typed, Intents, Worlds, Auths
<1>1. CASE w.auth.fence # p
  BY <1>1 DEF FenceLifted, Kin
<1>2. CASE w.auth.fence = p
  <2> DEFINE v == [w EXCEPT !.auth.fence = None, !.auth.wakers = 0]
  <2>1. FenceLifted(w, p) = DrainedTimes(v, w.auth.wakers)
    BY <1>2 DEF FenceLifted
  <2>2. [w.auth EXCEPT !.fence = None, !.wakers = 0] \in Auths
    <3>1. 0 \in 0 .. MaxDrains /\ None \in Prompts \cup {None}
      BY AdmissionAssumption
    <3> QED
      BY <1>0, <3>1 DEF Worlds, Auths
  <2>3. v \in Worlds
    BY <1>0, <2>2 DEF Worlds
  <2>4. /\ v.sched = w.sched /\ v.nav = w.nav /\ v.pi = w.pi /\ v.adm = w.adm /\ v.log = w.log
        /\ v.auth = [w.auth EXCEPT !.fence = None, !.wakers = 0]
    BY <1>0 DEF Worlds
  <2> HIDE DEF v
  <2>5. Typed(v)
    BY <2>3, <2>4 DEF Good, Typed
  <2>6. /\ v.auth.custody = w.auth.custody /\ v.auth.sequence = w.auth.sequence
        /\ v.auth.fence = None /\ v.auth.transition = w.auth.transition
        /\ v.auth.fatal = w.auth.fatal
    BY <1>0, <2>4 DEF Worlds, Auths
  <2>7. Follows(v, w)
    BY <1>2, <2>4, <2>5, <2>6
       DEF Follows, JobFollows, BarriersFollow, CustodyFollows, PromptFollows, LogFollows, Navigating
  <2>8. Good(v) /\ Kin(v, w)
    BY <2>4, <2>7, FollowsKeeps DEF Kin
  <2> QED
    BY <1>0, <2>1, <2>8, DrainedKeeps DEF Kin
<1> QED
  BY <1>1, <1>2

\* What follows the settlement of a promise whose admit has returned.
LEMMA ConcludedKeeps ==
    ASSUME NEW w, Good(w), NEW p \in Prompts, w.pi.stage[p] \in {"done", "failed"}
    PROVE  Good(Concluded(w, p)) /\ Kin(Concluded(w, p), w)
<1>0. p \in Intents
  BY DEF Intents
<1> DEFINE result == IF w.pi.stage[p] = "done" THEN "completed"
                     ELSE IF w.adm[p].crossed THEN "outcome_unknown" ELSE "rejected"
           x == [w EXCEPT !.auth.active[p] = "none"]
           y == IF w.adm[p].cancelled THEN w ELSE SettledAs(x, p, result)
<1>1. Good(x) /\ Kin(x, w)
  BY <1>0, ActiveKeeps DEF Activities
<1>2. result \in Outcomes /\ result # "none"
  BY DEF Outcomes
<1>3. Concluded(w, p) = FenceLifted(y, p)
  BY DEF Concluded
<1> HIDE DEF x, result
<1>4. Good(SettledAs(x, p, result)) /\ Kin(SettledAs(x, p, result), x)
  BY <1>0, <1>1, <1>2, SettledKeeps
<1>5. Good(y) /\ Kin(y, w)
  BY <1>1, <1>4 DEF Kin
<1> HIDE DEF y
<1>6. y.pi.stage[p] \in {"done", "failed"}
  BY <1>5 DEF Kin
<1>7. Good(FenceLifted(y, p)) /\ Kin(FenceLifted(y, p), y)
  BY <1>5, <1>6, LiftedKeeps
<1> QED
  BY <1>3, <1>5, <1>7 DEF Kin

(* The promise of a prompt that was sent settles. *)
LEMMA PromiseKeeps ==
    ASSUME NEW w, Good(w), NEW p \in Prompts, NEW stage \in {"done", "failed"},
           w.pi.stage[p] # "none"
    PROVE  /\ Good(PromiseSettled(w, p, stage))
           /\ PromiseSettled(w, p, stage).log.sent = w.log.sent
<1>0. w \in Worlds /\ p \in Intents
  BY DEF Good, Typed, Intents
<1> DEFINE x == [w EXCEPT !.pi.stage[p] = stage, !.adm[p].open = FALSE]
<1>1. [w.pi EXCEPT !.stage[p] = stage] \in Pis
  BY <1>0 DEF Worlds, Pis, Stages
<1>2. [w.adm EXCEPT ![p].open = FALSE] \in [Prompts -> Admissions]
  BY <1>0 DEF Worlds, Admissions
<1>3. x \in Worlds
  BY <1>0, <1>1, <1>2 DEF Worlds
<1>4. /\ x.sched = w.sched /\ x.nav = w.nav /\ x.auth = w.auth /\ x.log = w.log
      /\ x.pi = [w.pi EXCEPT !.stage[p] = stage] /\ x.adm = [w.adm EXCEPT ![p].open = FALSE]
  BY <1>0 DEF Worlds
<1>5. /\ x.pi.queue = w.pi.queue /\ x.pi.stage[p] = stage
      /\ ~x.adm[p].open /\ x.adm[p].crossed = w.adm[p].crossed
      /\ x.adm[p].cancelled = w.adm[p].cancelled
      /\ \A q \in Prompts \ {p} : x.pi.stage[q] = w.pi.stage[q] /\ x.adm[q] = w.adm[q]
  BY <1>0, <1>4 DEF Worlds, Pis, Admissions
<1> HIDE DEF x
<1>6. Typed(x)
  BY <1>3, <1>4 DEF Good, Typed
<1>7. \A q \in Prompts : PromptFollows(x, w, q)
  BY <1>5 DEF PromptFollows
<1>8. Follows(x, w)
  BY <1>4, <1>5, <1>6, <1>7 DEF Follows, JobFollows, BarriersFollow, CustodyFollows, LogFollows, Navigating
<1>9. Good(x)
  BY <1>8, FollowsKeeps
<1> DEFINE act == IF x.auth.active[p] = "unknown" THEN "none" ELSE x.auth.active[p]
           y == [x EXCEPT !.auth.active[p] = act]
           z == IF ~w.adm[p].cancelled THEN x ELSE Drained(y)
<1>10. act \in Activities
  BY <1>0, <1>3 DEF Worlds, Auths, Activities
<1>11. Good(y) /\ Kin(y, x)
  <2> HIDE DEF act
  <2> QED
    BY <1>0, <1>9, <1>10, ActiveKeeps
<1>12. PromiseSettled(w, p, stage) = IF Waiting /\ sched.waits = p THEN z ELSE Concluded(z, p)
  BY <1>3 DEF PromiseSettled, x
<1> HIDE DEF y
<1>13. Good(z) /\ Kin(z, x)
  BY <1>9, <1>11, DrainedOnce DEF Kin
<1> HIDE DEF z
<1>14. z.pi.stage[p] \in {"done", "failed"}
  BY <1>5, <1>13 DEF Kin
<1>15. Good(Concluded(z, p)) /\ Kin(Concluded(z, p), z)
  BY <1>13, <1>14, ConcludedKeeps
<1> QED
  BY <1>4, <1>12, <1>13, <1>15 DEF Kin

(* What else a prompt of an unsettled world may be: not yet sent. *)
LEMMA NotSent ==
    ASSUME NEW w, Good(w), NEW p \in Prompts, p \notin ToSet(w.log.sent)
    PROVE  w.pi.stage[p] = "none" /\ ~w.adm[p].open /\ p \notin w.log.crossed
BY DEF Good, Pending

(* A prompt that has gone nowhere yet takes the last place in custody. *)
LEMMA InCustodyKeeps ==
    ASSUME NEW w, Good(w), NEW p \in Prompts, NEW phase \in Phases,
           w.sched.job # "drained", w.auth.transition \notin {"prepare", "crossed"},
           w.log.receipt[p] # "none", p \notin ToSet(w.log.kept) \cup ToSet(w.log.sent),
           \A j \in DOMAIN w.sched.ingress : w.sched.ingress[j] # p
    PROVE  Good(InCustody(w, p, phase)) /\ Kin(InCustody(w, p, phase), w)
<1>0. /\ w \in Worlds /\ p \in Intents /\ w.log.kept \in Seq(Prompts) /\ w.auth.sequence \in Nat
      /\ w.auth.barrier \in Nat /\ w.auth.custody \subseteq Items
  BY DEF Good, Typed, Intents, Worlds, Auths, Logs
<1> DEFINE n == w.auth.sequence + 1
           new == [id |-> p, phase |-> phase, barrier |-> w.auth.barrier, at |-> n]
           v == InCustody(w, p, phase)
           custody == w.auth.custody \cup {new}
           kept == Append(w.log.kept, p)
<1>1. new \in Items /\ n \in Nat /\ new.id = p /\ new.at = n
  BY <1>0 DEF Items
<1>2. /\ kept \in Seq(Prompts) /\ DOMAIN kept = 1 .. n /\ DOMAIN w.log.kept = 1 .. w.auth.sequence
      /\ \A j \in 1 .. w.auth.sequence : kept[j] = w.log.kept[j]
      /\ kept[n] = p /\ Len(kept) = n /\ ToSet(kept) = ToSet(w.log.kept) \cup {p}
  BY <1>0, AppendFacts DEF Good, Ordered
<1>3. /\ v.sched = w.sched /\ v.nav = w.nav /\ v.pi = w.pi /\ v.adm = w.adm /\ v.comp = w.comp
      /\ v.auth = [w.auth EXCEPT !.sequence = n, !.custody = custody, !.active[p] = "custody"]
      /\ v.log = [w.log EXCEPT !.kept = kept]
  BY <1>0 DEF InCustody, Worlds, Auths, Logs
<1>4. custody \in SUBSET Items
  BY <1>0, <1>1
<1>5. \A x \in custody : x \in w.auth.custody \/ x = new
  OBVIOUS
<1>6. w.auth.custody \subseteq custody /\ new \in custody
  OBVIOUS
<1>7. v = [w EXCEPT !.auth = [w.auth EXCEPT !.sequence = n, !.custody = custody, !.active[p] = "custody"],
                    !.log = [w.log EXCEPT !.kept = kept]]
  BY <1>0 DEF InCustody, Worlds, Auths, Logs
<1> HIDE DEF v, custody, kept, new, n
<1>8. v \in Worlds
  <2>1. [w.auth EXCEPT !.sequence = n, !.custody = custody, !.active[p] = "custody"] \in Auths
    BY <1>0, <1>1, <1>4 DEF Worlds, Auths, Activities
  <2>2. [w.log EXCEPT !.kept = kept] \in Logs
    BY <1>0, <1>2 DEF Worlds, Logs
  <2> QED
    BY <1>0, <1>7, <2>1, <2>2 DEF Worlds
<1>9. /\ v.auth.custody = custody /\ v.auth.sequence = n /\ v.auth.fence = w.auth.fence
      /\ v.auth.transition = w.auth.transition /\ v.auth.fatal = w.auth.fatal
      /\ v.log.kept = kept /\ v.log.sent = w.log.sent /\ v.log.receipt = w.log.receipt
      /\ v.log.idle = w.log.idle /\ v.log.crossed = w.log.crossed /\ v.log.ran = w.log.ran
      /\ v.log.taken = w.log.taken /\ v.log.unsent = w.log.unsent
  BY <1>0, <1>3 DEF Worlds, Auths, Logs
<1>10. Typed(v)
  BY <1>3, <1>8 DEF Good, Typed
<1>11. Fresh(v)
  BY <1>2, <1>3, <1>9 DEF Good, Fresh
<1>12. Ordered(v)
  <2>1. \A a \in 1 .. w.auth.sequence : w.log.kept[a] # p
    BY <1>2 DEF ToSet
  <2>2. \A a, b \in 1 .. n : kept[a] = kept[b] => a = b
    <3> SUFFICES ASSUME NEW a \in 1 .. n, NEW b \in 1 .. n, kept[a] = kept[b] PROVE a = b
      OBVIOUS
    <3>1. (a \in 1 .. w.auth.sequence \/ a = n) /\ (b \in 1 .. w.auth.sequence \/ b = n)
      BY <1>0, <1>1 DEF n
    <3> QED
      BY <1>2, <2>1, <3>1 DEF Good, Ordered
  <2>3. \A x \in w.auth.custody : x.at \in 1 .. w.auth.sequence /\ w.log.kept[x.at] = x.id
    BY <1>2 DEF Good, Ordered
  <2>4. \A x \in custody : x.at \in 1 .. n /\ kept[x.at] = x.id
    <3> SUFFICES ASSUME NEW x \in custody PROVE x.at \in 1 .. n /\ kept[x.at] = x.id
      OBVIOUS
    <3>1. CASE x = new
      BY <1>0, <1>1, <1>2, <3>1 DEF n
    <3>2. CASE x \in w.auth.custody
      BY <1>0, <1>2, <2>3, <3>2 DEF n
    <3> QED
      BY <1>5, <3>1, <3>2
  <2>5. \A x, y \in custody : x.at = y.at => x = y
    <3> SUFFICES ASSUME NEW x \in custody, NEW y \in custody, x.at = y.at PROVE x = y
      OBVIOUS
    <3>1. CASE x \in w.auth.custody /\ y \in w.auth.custody
      BY <3>1 DEF Good, Ordered
    <3>2. \A z \in w.auth.custody : z.at # n
      BY <1>0, <2>3 DEF n
    <3> QED
      BY <1>1, <1>5, <3>1, <3>2
  <2> QED
    BY <1>2, <1>9, <2>2, <2>4, <2>5 DEF Ordered
<1>13. Pending(v) /\ IdleFenced(v) /\ Alone(v)
  BY <1>3, <1>9 DEF Good, Pending, IdleFenced, Alone
<1>14. HeadSent(v)
  BY <1>1, <1>3, <1>5, <1>9, NotSent DEF Good, HeadSent
<1>15. Safe(v)
  <2> SUFFICES ASSUME w.log.taken = {} PROVE Fifo(v) /\ Whole(v)
    BY <1>9 DEF Safe
  <2>1. Fifo(w) /\ Whole(w)
    BY DEF Good, Safe
  <2>2. Fifo(v)
    <3> SUFFICES ASSUME NEW a \in 1 .. n, NEW b \in 1 .. n, a < b, kept[b] \in ToSet(w.log.sent)
                 PROVE  kept[a] \in ToSet(w.log.sent) \cup w.log.unsent
      BY <1>2, <1>9 DEF Fifo
    <3>1. b # n
      BY <1>2
    <3>2. a \in 1 .. w.auth.sequence /\ b \in 1 .. w.auth.sequence
      BY <1>0, <3>1 DEF n
    <3> QED
      BY <1>2, <2>1, <3>2 DEF Fifo
  <2>3. Whole(v)
    <3> SUFFICES ASSUME NEW q \in ToSet(kept)
                 PROVE  \/ q \in {item.id : item \in custody}
                        \/ q \in ToSet(w.log.sent) \cup w.log.unsent
      BY <1>9 DEF Whole
    <3>1. CASE q = p
      BY <1>1, <1>6, <3>1
    <3>2. CASE q \in ToSet(w.log.kept)
      BY <1>6, <2>1, <3>2 DEF Whole
    <3> QED
      BY <1>2, <3>1, <3>2
  <2> QED
    BY <2>2, <2>3
<1>16. Good(v) /\ Kin(v, w)
  BY <1>3, <1>9, <1>10, <1>11, <1>12, <1>13, <1>14, <1>15 DEF Good, Kin
<1> QED
  BY <1>16 DEF v

(***************************************************************************)
(* A prompt may be handed to Pi when Pi does not have it yet, nothing      *)
(* excludes it, and it is new or the first of custody.                     *)
(***************************************************************************)
Ready(w, p, job) ==
    /\ w.sched.job # "drained" /\ w.auth.transition \notin {"prepare", "crossed"}
    /\ w.pi.streaming \/ w.auth.fence = None
    /\ w.nav.now = None
    /\ ~w.adm[p].open /\ p \notin w.log.crossed
    /\ w.log.receipt[p] # "none"
    /\ \A j \in DOMAIN w.sched.ingress : w.sched.ingress[j] # p
    /\ \/ job = "submit" /\ p \notin ToSet(w.log.kept)
       \/ job = "drained" /\ \E x \in w.auth.custody : x.id = p /\ First(w, x)

\* The value after a hand-over is a state.
LEMMA HandedShape ==
    ASSUME NEW w \in Worlds, NEW p, NEW job, NEW v, v = Handed(w, p, job),
           v.sched \in Scheds, v.auth \in Auths, v.adm \in [Prompts -> Admissions],
           v.pi \in Pis, v.log \in Logs, v.comp = w.comp, v.nav = w.nav
    PROVE  v \in Worlds
BY DEF Handed, Worlds

\* admit up to its first await: what was ready is in Pi's hands.
LEMMA HandedKeeps ==
    ASSUME NEW w, Good(w), NEW p \in Prompts, NEW job \in {"submit", "drained"}, Ready(w, p, job)
    PROVE  Good(Handed(w, p, job)) /\ Handed(w, p, job).log.sent = Append(w.log.sent, p)
<1>0. /\ w \in Worlds /\ p \in Intents /\ p # None /\ w.log.sent \in Seq(Prompts)
      /\ w.auth.custody \subseteq Items /\ w.log.kept \in Seq(Prompts)
  BY AdmissionAssumption DEF Good, Typed, Intents, Worlds, Auths, Logs
<1> DEFINE new == [open |-> TRUE, cancelled |-> FALSE, crossed |-> FALSE, late |-> FALSE, seen |-> FALSE]
           fence == IF w.pi.streaming THEN w.auth.fence ELSE p
           idle == IF w.pi.streaming THEN w.log.idle \ {p} ELSE w.log.idle \cup {p}
           sent == Append(w.log.sent, p)
           v == Handed(w, p, job)
<1>1. /\ sent \in Seq(Prompts) /\ ToSet(sent) = ToSet(w.log.sent) \cup {p}
      /\ new \in Admissions /\ new.open /\ ~new.cancelled /\ ~new.crossed
  BY <1>0, AppendFacts DEF Admissions
<1>2. /\ fence \in Prompts \cup {None} /\ idle \in SUBSET Prompts
      /\ \A q \in idle : q # p => q \in w.log.idle
      /\ ~w.pi.streaming => fence = p
      /\ w.pi.streaming => fence = w.auth.fence /\ p \notin idle
  BY <1>0 DEF Worlds, Auths, Logs
<1>3. /\ v.sched = [w.sched EXCEPT !.job = job, !.waits = p] /\ v.nav = w.nav /\ v.comp = w.comp
      /\ v.auth = [w.auth EXCEPT !.active[p] = "admitting", !.fence = fence]
      /\ v.adm = [w.adm EXCEPT ![p] = new]
      /\ v.pi = [w.pi EXCEPT !.stage[p] = "preflight"]
      /\ v.log = [w.log EXCEPT !.sent = sent, !.idle = idle]
  BY <1>0 DEF Handed, Worlds, Auths, Logs
<1>4. v = Handed(w, p, job)
  OBVIOUS
<1> HIDE DEF v, sent, idle, fence, new
<1>5. v \in Worlds
  <2>1. [w.sched EXCEPT !.job = job, !.waits = p] \in Scheds
    BY <1>0 DEF Worlds, Scheds, Jobs
  <2>2. [w.auth EXCEPT !.active[p] = "admitting", !.fence = fence] \in Auths
    BY <1>0, <1>2 DEF Worlds, Auths, Activities
  <2>3. [w.adm EXCEPT ![p] = new] \in [Prompts -> Admissions]
    BY <1>0, <1>1 DEF Worlds
  <2>4. [w.pi EXCEPT !.stage[p] = "preflight"] \in Pis
    BY <1>0 DEF Worlds, Pis, Stages
  <2>5. [w.log EXCEPT !.sent = sent, !.idle = idle] \in Logs
    BY <1>0, <1>1, <1>2 DEF Worlds, Logs
  <2> QED
    BY <1>0, <1>3, <1>4, <2>1, <2>2, <2>3, <2>4, <2>5, HandedShape
<1>6. /\ v.sched.ingress = w.sched.ingress /\ v.sched.job = job /\ v.sched.waits = p
      /\ v.auth.custody = w.auth.custody /\ v.auth.sequence = w.auth.sequence /\ v.auth.fence = fence
      /\ v.auth.transition = w.auth.transition /\ v.auth.fatal = w.auth.fatal
      /\ v.adm[p] = new /\ v.pi.stage[p] = "preflight" /\ v.pi.queue = w.pi.queue
      /\ \A q \in Prompts \ {p} : v.adm[q] = w.adm[q] /\ v.pi.stage[q] = w.pi.stage[q]
      /\ v.log.kept = w.log.kept /\ v.log.sent = sent /\ v.log.receipt = w.log.receipt
      /\ v.log.idle = idle /\ v.log.crossed = w.log.crossed /\ v.log.ran = w.log.ran
      /\ v.log.taken = w.log.taken /\ v.log.unsent = w.log.unsent
  BY <1>0, <1>3 DEF Worlds, Scheds, Auths, Pis, Logs
<1>7. Typed(v)
  BY <1>0, <1>5, <1>6 DEF Typed
<1>8. Fresh(v)
  <2>1. p \notin ToSet(w.sched.ingress)
    BY DEF Ready, ToSet
  <2> QED
    BY <1>1, <1>6 DEF Good, Fresh, Ready
<1>9. Ordered(v)
  BY <1>6 DEF Good, Ordered
<1>10. Pending(v)
  <2> SUFFICES ASSUME NEW q \in Prompts
               PROVE  /\ v.adm[q].open <=> v.pi.stage[q] \notin {"none", "done", "failed"}
                      /\ v.pi.stage[q] \in Accepting => v.adm[q].crossed
                      /\ v.adm[q].crossed <=> q \in v.log.crossed
                      /\ ~(v.adm[q].crossed /\ v.adm[q].cancelled)
                      /\ v.pi.stage[q] # "none" \/ q \in v.log.crossed => q \in ToSet(v.log.sent)
                      /\ ~v.auth.fatal /\ q \in ToSet(v.pi.queue) \cup v.log.ran
                           => q \in v.log.crossed
    BY DEF Pending
  <2>1. CASE q = p
    <3>1. p \notin w.log.crossed
      BY DEF Ready
    <3>2. ~w.auth.fatal /\ p \in ToSet(w.pi.queue) \cup w.log.ran => p \in w.log.crossed
      BY DEF Good, Pending
    <3> QED
      BY <1>1, <1>6, <2>1, <3>1, <3>2 DEF Accepting
  <2>2. CASE q # p
    BY <1>1, <1>6, <2>2 DEF Good, Pending
  <2> QED
    BY <2>1, <2>2
<1>11. IdleFenced(v)
  <2> SUFFICES ASSUME NEW q \in idle PROVE v.pi.stage[q] \in {"done", "failed"} \/ fence = q
    BY <1>6 DEF IdleFenced
  <2>1. q \in Prompts
    BY <1>2
  <2>2. CASE q = p
    BY <1>2, <2>2
  <2>3. CASE q # p
    <3>1. w.pi.stage[q] \in {"done", "failed"} \/ w.auth.fence = q
      BY <1>2, <2>3 DEF Good, IdleFenced
    <3>2. q # None
      BY <2>1, AdmissionAssumption DEF Intents
    <3> QED
      BY <1>2, <1>6, <2>1, <2>3, <3>1, <3>2 DEF Ready
  <2> QED
    BY <2>2, <2>3
<1>12. HeadSent(v)
  <2>1. \A x \in w.auth.custody : x.id \in Prompts /\ ~w.adm[x.id].open /\ x.id \notin w.log.crossed
    BY <1>0 DEF Good, HeadSent, Ready, Items
  <2>2. \A x \in w.auth.custody : x.at \in DOMAIN w.log.kept /\ w.log.kept[x.at] = x.id
    BY DEF Good, Ordered
  <2>3. CASE job = "submit"
    <3>1. \A x \in w.auth.custody : x.id # p
      BY <2>2, <2>3 DEF Ready, ToSet
    <3> QED
      BY <1>6, <2>1, <2>3, <3>1 DEF HeadSent
  <2>4. CASE job = "drained"
    <3>1. PICK x \in w.auth.custody : x.id = p /\ First(w, x)
      BY <2>4 DEF Ready
    <3>2. \A y \in w.auth.custody : y.id = p => y = x
      BY <2>2, <3>1 DEF Good, Ordered
    <3>3. v.nav.now = None
      BY <1>3 DEF Ready
    <3>4. First(v, x)
      BY <1>6, <3>1 DEF First
    <3>5. p \in ToSet(v.log.sent)
      BY <1>1, <1>6
    <3>6. \A y \in v.auth.custody : y.id = p => First(v, y)
      BY <1>6, <3>2, <3>4
    <3>7. \A y \in v.auth.custody : v.adm[y.id].open \/ y.id \in v.log.crossed => y.id = p
      BY <1>6, <2>1
    <3> QED
      BY <1>6, <2>4, <3>1, <3>3, <3>5, <3>6, <3>7 DEF HeadSent
  <2> QED
    BY <2>3, <2>4
<1>13. Alone(v)
  BY <1>6 DEF Alone, Ready
<1>14. Safe(v)
  <2> SUFFICES ASSUME w.log.taken = {} PROVE Fifo(v) /\ Whole(v)
    BY <1>6 DEF Safe
  <2>1. Fifo(w) /\ Whole(w)
    BY DEF Good, Safe
  <2>2. Whole(v)
    BY <1>1, <1>6, <2>1 DEF Whole
  <2>3. Fifo(v)
    <3> SUFFICES ASSUME NEW a \in DOMAIN w.log.kept, NEW b \in DOMAIN w.log.kept, a < b,
                        w.log.kept[b] \in ToSet(w.log.sent) \cup {p}
                 PROVE  w.log.kept[a] \in ToSet(w.log.sent) \cup {p} \cup w.log.unsent
      BY <1>1, <1>6 DEF Fifo
    <3>1. CASE w.log.kept[b] \in ToSet(w.log.sent)
      BY <2>1, <3>1 DEF Fifo
    <3>2. CASE w.log.kept[b] = p
      <4>1. p \in ToSet(w.log.kept)
        BY <3>2 DEF ToSet
      <4>2. PICK x \in w.auth.custody : x.id = p /\ First(w, x)
        BY <4>1 DEF Ready
      <4>3. x.at = b
        BY <3>2, <4>2 DEF Good, Ordered
      <4>4. ASSUME NEW y \in w.auth.custody PROVE y.id # w.log.kept[a]
        <5>1. x.at <= y.at
          BY <4>2 DEF First
        <5>2. y.at \in DOMAIN w.log.kept /\ w.log.kept[y.at] = y.id
          BY DEF Good, Ordered
        <5>3. y.at # a
          BY <1>0, <4>3, <5>1, <5>2, LenProperties
        <5> QED
          BY <5>2, <5>3 DEF Good, Ordered
      <4>5. w.log.kept[a] \in ToSet(w.log.kept)
        BY DEF ToSet
      <4> QED
        BY <2>1, <4>4, <4>5 DEF Whole
    <3> QED
      BY <3>1, <3>2
  <2> QED
    BY <2>2, <2>3
<1>15. Good(v)
  BY <1>7, <1>8, <1>9, <1>10, <1>11, <1>12, <1>13, <1>14 DEF Good
<1> QED
  BY <1>6, <1>15 DEF v, sent

-----------------------------------------------------------------------------
(***************************************************************************)
(* One step: the invariant afterwards, and a prompt handed to Pi only when *)
(* it may be.                                                              *)
(***************************************************************************)
Free ==
    /\ ~comp.open /\ comp.cmd = None /\ nav.now = None /\ nav.shown = {}
    /\ \A p \in Prompts : ~(adm[p].open /\ adm[p].cancelled)
SentRightly ==
    \/ log'.sent = log.sent
    \/ Free /\ \E p \in Prompts : p \notin log.crossed /\ log'.sent = Append(log.sent, p)
Step == AdmissionInv' /\ SentRightly

(* The state as one value. *)
LEMMA Here ==
    ASSUME AdmissionInv
    PROVE  \E w \in Worlds :
               /\ w = World /\ Good(w)
               /\ w.sched = sched /\ w.auth = auth /\ w.adm = adm /\ w.comp = comp
               /\ w.nav = nav /\ w.pi = pi /\ w.log = log
BY DEF AdmissionInv, Good, Typed, World

\* A handler that ends in a good value leaves a good state.
LEMMA Become ==
    ASSUME AdmissionInv, NEW v, Good(v), Becomes(v)
    PROVE  AdmissionInv' /\ log'.sent = v.log.sent
<1>1. v \in Worlds
  BY DEF Good, Typed
<1>2. World' = v
  BY <1>1 DEF Worlds, World, Becomes
<1>3. Good(World)'
  BY <1>2
<1> QED
  BY <1>3 DEF AdmissionInv, Becomes

(* A step that hands nothing over. *)
LEMMA QuietStep ==
    ASSUME AdmissionInv, NEW v, Good(v), Becomes(v), v.log.sent = log.sent
    PROVE  Step
BY Become DEF Step, SentRightly

\* The handlers, first those that only follow: an admission is late.
LEMMA DeadlineStep ==
    ASSUME AdmissionInv, NEW p \in Prompts, Deadline(p) PROVE Step
<1>0. PICK w \in Worlds : /\ w = World /\ Good(w) /\ w.log = log
  BY Here
<1> DEFINE v == [w EXCEPT !.adm[p].late = TRUE]
<1>1. Becomes(v)
  BY <1>0 DEF Deadline
<1>2. [w.adm EXCEPT ![p].late = TRUE] \in [Prompts -> Admissions]
  BY <1>0 DEF Worlds, Admissions
<1>3. v \in Worlds
  BY <1>0, <1>2 DEF Worlds
<1>4. /\ v.sched = w.sched /\ v.auth = w.auth /\ v.nav = w.nav /\ v.pi = w.pi /\ v.log = w.log
      /\ v.adm = [w.adm EXCEPT ![p].late = TRUE]
  BY <1>0 DEF Worlds
<1> HIDE DEF v
<1>5. \A q \in Prompts : /\ v.adm[q].open = w.adm[q].open /\ v.adm[q].crossed = w.adm[q].crossed
                         /\ v.adm[q].cancelled = w.adm[q].cancelled
  BY <1>0, <1>4 DEF Worlds, Admissions
<1>6. Typed(v)
  BY <1>0, <1>3, <1>4 DEF Good, Typed
<1>7. Follows(v, w)
  BY <1>4, <1>5, <1>6
     DEF Follows, JobFollows, BarriersFollow, CustodyFollows, PromptFollows, LogFollows, Navigating
<1> QED
  BY <1>0, <1>1, <1>4, <1>7, FollowsKeeps, QuietStep

\* The poll of an admission sees the turn it started.
LEMMA PollStep ==
    ASSUME AdmissionInv, NEW p \in Prompts, Poll(p) PROVE Step
<1>0. PICK w \in Worlds : /\ w = World /\ Good(w) /\ w.log = log
  BY Here
<1> DEFINE v == [w EXCEPT !.adm[p].seen = TRUE]
<1>1. Becomes(v)
  BY <1>0 DEF Poll
<1>2. [w.adm EXCEPT ![p].seen = TRUE] \in [Prompts -> Admissions]
  BY <1>0 DEF Worlds, Admissions
<1>3. v \in Worlds
  BY <1>0, <1>2 DEF Worlds
<1>4. /\ v.sched = w.sched /\ v.auth = w.auth /\ v.nav = w.nav /\ v.pi = w.pi /\ v.log = w.log
      /\ v.adm = [w.adm EXCEPT ![p].seen = TRUE]
  BY <1>0 DEF Worlds
<1> HIDE DEF v
<1>5. \A q \in Prompts : /\ v.adm[q].open = w.adm[q].open /\ v.adm[q].crossed = w.adm[q].crossed
                         /\ v.adm[q].cancelled = w.adm[q].cancelled
  BY <1>0, <1>4 DEF Worlds, Admissions
<1>6. Typed(v)
  BY <1>0, <1>3, <1>4 DEF Good, Typed
<1>7. Follows(v, w)
  BY <1>4, <1>5, <1>6
     DEF Follows, JobFollows, BarriersFollow, CustodyFollows, PromptFollows, LogFollows, Navigating
<1> QED
  BY <1>0, <1>1, <1>4, <1>7, FollowsKeeps, QuietStep

\* The renderer acknowledges a branch, which may let custody go.
LEMMA AcknowledgeStep ==
    ASSUME AdmissionInv, NEW n \in Navigations, Acknowledge(n) PROVE Step
<1>0. PICK w \in Worlds : /\ w = World /\ Good(w) /\ w.log = log /\ w.nav = nav
  BY Here
<1> DEFINE v == [w EXCEPT !.nav.shown = w.nav.shown \ {n}]
<1>1. Becomes(Drained(v)) /\ n \in w.nav.shown
  BY <1>0 DEF Acknowledge
<1>2. [w.nav EXCEPT !.shown = w.nav.shown \ {n}] \in Navs
  BY <1>0 DEF Worlds, Navs
<1>3. v \in Worlds
  BY <1>0, <1>2 DEF Worlds
<1>4. /\ v.sched = w.sched /\ v.auth = w.auth /\ v.adm = w.adm /\ v.pi = w.pi /\ v.log = w.log
      /\ v.nav = [w.nav EXCEPT !.shown = w.nav.shown \ {n}]
  BY <1>0 DEF Worlds
<1>5. v.nav.now = w.nav.now /\ v.nav.shown \subseteq w.nav.shown
  BY <1>0, <1>4 DEF Worlds, Navs
<1> HIDE DEF v
<1>6. Typed(v)
  BY <1>0, <1>3, <1>4 DEF Good, Typed
<1>7. Follows(v, w)
  BY <1>4, <1>5, <1>6
     DEF Follows, JobFollows, BarriersFollow, CustodyFollows, PromptFollows, LogFollows, Navigating
<1>8. Good(Drained(v)) /\ Kin(Drained(v), v)
  BY <1>0, <1>7, FollowsKeeps, DrainedOnce
<1> QED
  BY <1>0, <1>1, <1>4, <1>8, QuietStep DEF Kin

\* A transition goes on to its second phase.
LEMMA ReloadCrossesStep ==
    ASSUME AdmissionInv, ReloadCrosses PROVE Step
<1>0. PICK w \in Worlds : /\ w = World /\ Good(w) /\ w.log = log /\ w.auth = auth
  BY Here
<1> DEFINE v == [w EXCEPT !.auth.transition = "crossed"]
<1>1. Becomes(v) /\ w.auth.transition = "prepare"
  BY <1>0 DEF ReloadCrosses
<1>2. [w.auth EXCEPT !.transition = "crossed"] \in Auths
  BY <1>0 DEF Worlds, Auths, Transitions
<1>3. v \in Worlds
  BY <1>0, <1>2 DEF Worlds
<1>4. /\ v.sched = w.sched /\ v.nav = w.nav /\ v.adm = w.adm /\ v.pi = w.pi /\ v.log = w.log
      /\ v.auth = [w.auth EXCEPT !.transition = "crossed"]
  BY <1>0 DEF Worlds
<1>5. /\ v.auth.custody = w.auth.custody /\ v.auth.sequence = w.auth.sequence
      /\ v.auth.fence = w.auth.fence /\ v.auth.fatal = w.auth.fatal
  BY <1>0, <1>4 DEF Worlds, Auths
<1> HIDE DEF v
<1>6. Typed(v)
  BY <1>0, <1>3, <1>4 DEF Good, Typed
<1>7. Follows(v, w)
  BY <1>1, <1>4, <1>5, <1>6
     DEF Follows, JobFollows, BarriersFollow, CustodyFollows, PromptFollows, LogFollows, Navigating
<1> QED
  BY <1>0, <1>1, <1>4, <1>7, FollowsKeeps, QuietStep

\* A turn begins with a prompt that was accepted.
LEMMA PiStreamsStep ==
    ASSUME AdmissionInv, NEW p \in Prompts, PiStreams(p) PROVE Step
<1>0. PICK w \in Worlds : /\ w = World /\ Good(w) /\ w.log = log /\ w.pi = pi
  BY Here
<1> DEFINE ran == w.log.ran \cup {p}
           v == [w EXCEPT !.pi.stage[p] = "running", !.pi.streaming = TRUE, !.log.ran = ran]
<1>1. Becomes(v) /\ w.pi.stage[p] = "started"
  BY <1>0 DEF PiStreams
<1>2. ran \in SUBSET Prompts
  BY <1>0 DEF Worlds, Logs
<1>3. p \in w.log.crossed
  BY <1>0, <1>1 DEF Good, Pending, Accepting
<1>4. ran \subseteq w.log.ran \cup w.log.crossed
  BY <1>3
<1> HIDE DEF ran
<1>5. /\ [w.pi EXCEPT !.stage[p] = "running", !.streaming = TRUE] \in Pis
      /\ [w.log EXCEPT !.ran = ran] \in Logs
  BY <1>0, <1>2 DEF Worlds, Pis, Logs, Stages, Accepting
<1>6. v \in Worlds
  BY <1>0, <1>5 DEF Worlds
<1>7. /\ v.sched = w.sched /\ v.nav = w.nav /\ v.adm = w.adm /\ v.auth = w.auth
      /\ v.pi = [w.pi EXCEPT !.stage[p] = "running", !.streaming = TRUE]
      /\ v.log = [w.log EXCEPT !.ran = ran]
  BY <1>0 DEF Worlds
<1> HIDE DEF v
<1>8. /\ v.pi.queue = w.pi.queue /\ v.pi.stage[p] = "running"
      /\ \A q \in Prompts \ {p} : v.pi.stage[q] = w.pi.stage[q]
  BY <1>0, <1>7 DEF Worlds, Pis
<1>9. Typed(v)
  BY <1>0, <1>6, <1>7 DEF Good, Typed
<1>10. \A q \in Prompts : PromptFollows(v, w, q)
  BY <1>1, <1>7, <1>8 DEF PromptFollows, Accepting
<1>11. LogFollows(v, w)
  BY <1>0, <1>4, <1>7, <1>8 DEF LogFollows, Worlds, Logs
<1>12. v.log.sent = w.log.sent /\ v.log.unsent = w.log.unsent /\ v.log.taken = w.log.taken
  BY <1>0, <1>7 DEF Worlds, Logs
<1>13. Follows(v, w)
  BY <1>1, <1>7, <1>8, <1>9, <1>10, <1>11, <1>12
     DEF Follows, JobFollows, BarriersFollow, CustodyFollows, Navigating
<1> QED
  BY <1>0, <1>1, <1>12, <1>13, FollowsKeeps, QuietStep

\* Pi takes the next prompt of its queue into the turn.
LEMMA PiDeliversStep ==
    ASSUME AdmissionInv, PiDelivers PROVE Step
<1>0. PICK w \in Worlds : /\ w = World /\ Good(w) /\ w.log = log /\ w.pi = pi
  BY Here
<1> DEFINE ran == w.log.ran \cup {Head(w.pi.queue)}
           queue == Tail(w.pi.queue)
           v == [w EXCEPT !.pi.queue = queue, !.log.ran = ran]
<1>1. Becomes(v) /\ w.pi.queue # <<>>
  BY <1>0 DEF PiDelivers
<1>2. w.pi.queue \in Seq(Prompts)
  BY <1>0 DEF Worlds, Pis
<1>3. /\ queue \in Seq(Prompts) /\ ToSet(queue) \subseteq ToSet(w.pi.queue)
      /\ Head(w.pi.queue) \in Prompts
  BY <1>1, <1>2, TailFacts
<1>4. Head(w.pi.queue) \in ToSet(w.pi.queue)
  BY <1>1, <1>2, TailFacts DEF ToSet
<1>5. ran \in SUBSET Prompts /\ ran \subseteq w.log.ran \cup ToSet(w.pi.queue)
  BY <1>0, <1>3, <1>4 DEF Worlds, Logs
<1> HIDE DEF ran, queue
<1>6. [w.pi EXCEPT !.queue = queue] \in Pis /\ [w.log EXCEPT !.ran = ran] \in Logs
  BY <1>0, <1>3, <1>5 DEF Worlds, Pis, Logs
<1>7. v \in Worlds
  BY <1>0, <1>6 DEF Worlds
<1>8. /\ v.sched = w.sched /\ v.nav = w.nav /\ v.adm = w.adm /\ v.auth = w.auth
      /\ v.pi = [w.pi EXCEPT !.queue = queue] /\ v.log = [w.log EXCEPT !.ran = ran]
  BY <1>0 DEF Worlds
<1> HIDE DEF v
<1>9. v.pi.queue = queue /\ v.pi.stage = w.pi.stage
  BY <1>0, <1>8 DEF Worlds, Pis
<1>10. Typed(v)
  BY <1>0, <1>7, <1>8 DEF Good, Typed
<1>11. LogFollows(v, w)
  BY <1>0, <1>3, <1>5, <1>8, <1>9 DEF LogFollows, Worlds, Logs
<1>12. v.log.sent = w.log.sent
  BY <1>0, <1>8 DEF Worlds, Logs
<1>13. Follows(v, w)
  BY <1>8, <1>9, <1>10, <1>11
     DEF Follows, JobFollows, BarriersFollow, CustodyFollows, PromptFollows, Navigating
<1> QED
  BY <1>0, <1>1, <1>12, <1>13, FollowsKeeps, QuietStep

\* The turn is over.
LEMMA PiTurnEndsStep ==
    ASSUME AdmissionInv, PiTurnEnds PROVE Step
<1>0. PICK w \in Worlds : /\ w = World /\ Good(w) /\ w.log = log /\ w.pi = pi
  BY Here
<1> DEFINE stage == [p \in Prompts |-> IF w.pi.stage[p] = "running" THEN "ended" ELSE w.pi.stage[p]]
           v == [w EXCEPT !.pi.streaming = FALSE, !.pi.stage = stage]
<1>1. Becomes(v)
  BY <1>0 DEF PiTurnEnds
<1>2. stage \in [Prompts -> Stages]
  BY <1>0 DEF Worlds, Pis, Stages, Accepting
<1>3. \A q \in Prompts : stage[q] = w.pi.stage[q] \/ {stage[q], w.pi.stage[q]} \subseteq Accepting
  BY DEF Accepting
<1>4. \A q \in Prompts : w.pi.stage[q] \in {"done", "failed"} => stage[q] \in {"done", "failed"}
  OBVIOUS
<1> HIDE DEF stage
<1>5. [w.pi EXCEPT !.streaming = FALSE, !.stage = stage] \in Pis
  BY <1>0, <1>2 DEF Worlds, Pis
<1>6. v \in Worlds
  BY <1>0, <1>5 DEF Worlds
<1>7. /\ v.sched = w.sched /\ v.nav = w.nav /\ v.adm = w.adm /\ v.auth = w.auth /\ v.log = w.log
      /\ v.pi = [w.pi EXCEPT !.streaming = FALSE, !.stage = stage]
  BY <1>0 DEF Worlds
<1> HIDE DEF v
<1>8. v.pi.queue = w.pi.queue /\ v.pi.stage = stage
  BY <1>0, <1>7 DEF Worlds, Pis
<1>9. Typed(v)
  BY <1>0, <1>6, <1>7 DEF Good, Typed
<1>10. \A q \in Prompts : PromptFollows(v, w, q)
  BY <1>3, <1>7, <1>8 DEF PromptFollows
<1>11. Follows(v, w)
  BY <1>7, <1>8, <1>9, <1>10
     DEF Follows, JobFollows, BarriersFollow, CustodyFollows, LogFollows, Navigating
<1> QED
  BY <1>0, <1>1, <1>7, <1>11, FollowsKeeps, QuietStep

\* The promise of a prompt resolves.
LEMMA PiSettlesStep ==
    ASSUME AdmissionInv, NEW p \in Prompts, PiSettles(p) PROVE Step
<1>0. PICK w \in Worlds : /\ w = World /\ Good(w) /\ w.log = log /\ w.pi = pi
  BY Here
<1>1. Becomes(PromiseSettled(w, p, "done")) /\ w.pi.stage[p] # "none"
  BY <1>0 DEF PiSettles
<1>2. PICK stage \in {"done", "failed"} : stage = "done"
  OBVIOUS
<1> QED
  BY <1>0, <1>1, <1>2, PromiseKeeps, QuietStep

\* The promise of a prompt rejects.
LEMMA PiFailsStep ==
    ASSUME AdmissionInv, NEW p \in Prompts, PiFails(p) PROVE Step
<1>0. PICK w \in Worlds : /\ w = World /\ Good(w) /\ w.log = log /\ w.pi = pi
  BY Here
<1>1. Becomes(PromiseSettled(w, p, "failed")) /\ w.pi.stage[p] # "none"
  BY <1>0 DEF PiFails
<1>2. PICK stage \in {"done", "failed"} : stage = "failed"
  OBVIOUS
<1> QED
  BY <1>0, <1>1, <1>2, PromiseKeeps, QuietStep

(* A compaction starts. *)
LEMMA CompStartsStep ==
    ASSUME AdmissionInv, CompStarts PROVE Step
<1>0. PICK w \in Worlds : /\ w = World /\ Good(w) /\ w.log = log /\ w.comp = comp /\ w.auth = auth
  BY Here
<1> DEFINE Only(v) == /\ v.sched = w.sched /\ v.nav = w.nav /\ v.adm = w.adm /\ v.pi = w.pi
                      /\ v.log = w.log /\ v.auth = [w.auth EXCEPT !.barrier = w.auth.barrier + 1]
<1>1. [w.auth EXCEPT !.barrier = w.auth.barrier + 1] \in Auths /\ w.comp \in Comps
  BY <1>0 DEF Worlds, Auths
<1>2. ASSUME Becomes([w EXCEPT !.comp.open = TRUE, !.comp.seen = TRUE, !.comp.failed = FALSE,
                               !.comp.aborted = FALSE, !.auth.barrier = @ + 1])
      PROVE  \E v \in Worlds : Becomes(v) /\ Only(v)
  <2> DEFINE v == [w EXCEPT !.comp.open = TRUE, !.comp.seen = TRUE, !.comp.failed = FALSE,
                            !.comp.aborted = FALSE, !.auth.barrier = @ + 1]
  <2>1. [w.comp EXCEPT !.open = TRUE, !.seen = TRUE, !.failed = FALSE, !.aborted = FALSE] \in Comps
    BY <1>1 DEF Comps
  <2>2. v \in Worlds
    BY <1>0, <1>1, <2>1 DEF Worlds
  <2>3. Only(v)
    BY <1>0 DEF Worlds
  <2> QED
    BY <1>2, <2>2, <2>3
<1>3. ASSUME Becomes([w EXCEPT !.comp.open = TRUE, !.comp.auto = @ + 1, !.comp.failed = FALSE,
                               !.comp.aborted = FALSE, !.auth.barrier = @ + 1])
      PROVE  \E v \in Worlds : Becomes(v) /\ Only(v)
  <2> DEFINE v == [w EXCEPT !.comp.open = TRUE, !.comp.auto = @ + 1, !.comp.failed = FALSE,
                            !.comp.aborted = FALSE, !.auth.barrier = @ + 1]
  <2>1. [w.comp EXCEPT !.open = TRUE, !.auto = @ + 1, !.failed = FALSE, !.aborted = FALSE] \in Comps
    <3>1. w.comp.auto + 1 \in Nat
      BY <1>1 DEF Comps
    <3> QED
      BY <1>1, <3>1 DEF Comps
  <2>2. v \in Worlds
    BY <1>0, <1>1, <2>1 DEF Worlds
  <2>3. Only(v)
    BY <1>0 DEF Worlds
  <2> QED
    BY <1>3, <2>2, <2>3
<1>4. PICK v \in Worlds : Becomes(v) /\ Only(v)
  BY <1>0, <1>2, <1>3 DEF CompStarts
<1>5. /\ v.auth.custody = w.auth.custody /\ v.auth.sequence = w.auth.sequence
      /\ v.auth.fence = w.auth.fence /\ v.auth.transition = w.auth.transition
      /\ v.auth.fatal = w.auth.fatal
  BY <1>0, <1>4 DEF Worlds, Auths
<1>6. Good(v)
  BY <1>0, <1>4, <1>5, SameKeeps
<1> QED
  BY <1>0, <1>4, <1>6, QuietStep

(* The end of the barrier gives custody back or asks for its drain. *)
LEMMA OverKeeps ==
    ASSUME NEW w, Good(w), NEW failed \in BOOLEAN
    PROVE  Good(CompactionOver(w, failed)) /\ Kin(CompactionOver(w, failed), w)
<1>0. w \in Worlds /\ w.auth.custody \subseteq Items
  BY DEF Good, Typed, Worlds, Auths
<1> DEFINE ids == HeldBy(w, "compaction")
           taken == w.log.taken \cup (ids \cap {w.sched.waits})
           v == [w EXCEPT !.log.taken = taken]
<1>1. CASE Compacting(w)
  BY <1>1 DEF CompactionOver, Kin
<1>2. CASE ~Compacting(w) /\ ~failed
  BY <1>2, DrainedOnce DEF CompactionOver
<1>3. CASE ~Compacting(w) /\ failed
  <2>1. CompactionOver(w, failed) = Restored(v, ids)
    BY <1>3 DEF CompactionOver
  <2>2. ids \in SUBSET Prompts
    BY <1>0 DEF HeldBy, Items
  <2>3. taken \in SUBSET Prompts /\ w.log.taken \subseteq taken
    BY <1>0, <2>2 DEF Worlds, Logs
  <2>4. w.sched.waits \in ids => taken # {}
    OBVIOUS
  <2> HIDE DEF taken, ids
  <2>5. [w.log EXCEPT !.taken = taken] \in Logs
    BY <1>0, <2>3 DEF Worlds, Logs
  <2>6. v \in Worlds
    BY <1>0, <2>5 DEF Worlds
  <2>7. /\ v.sched = w.sched /\ v.nav = w.nav /\ v.adm = w.adm /\ v.auth = w.auth /\ v.pi = w.pi
        /\ v.log = [w.log EXCEPT !.taken = taken]
    BY <1>0 DEF Worlds
  <2> HIDE DEF v
  <2>8. Typed(v)
    BY <2>6, <2>7 DEF Good, Typed
  <2>9. LogFollows(v, w)
    BY <1>0, <2>3, <2>7 DEF LogFollows, Worlds, Logs
  <2>10. Follows(v, w)
    BY <2>7, <2>8, <2>9
       DEF Follows, JobFollows, BarriersFollow, CustodyFollows, PromptFollows, Navigating
  <2>11. v.log.taken = taken /\ v.log.sent = w.log.sent
    BY <1>0, <2>7 DEF Worlds, Logs
  <2>12. Good(Restored(v, ids)) /\ Kin(Restored(v, ids), v)
    BY <2>2, <2>4, <2>7, <2>10, <2>11, FollowsKeeps, RestoredKeeps
  <2> QED
    BY <2>1, <2>7, <2>11, <2>12 DEF Kin
<1> QED
  BY <1>1, <1>2, <1>3

\* The span of a compaction ends.
LEMMA CompEndsStep ==
    ASSUME AdmissionInv, CompEnds PROVE Step
<1>0. PICK w \in Worlds : /\ w = World /\ Good(w) /\ w.log = log /\ w.comp = comp
  BY Here
<1>1. PICK failed \in {comp.aborted, comp.aborted \/ plan.compactFails} :
          Becomes(CompactionOver([w EXCEPT !.comp.open = FALSE, !.comp.failed = failed], failed))
  BY <1>0 DEF CompEnds
<1>2. failed \in BOOLEAN
  BY <1>0, <1>1, AdmissionAssumption DEF Worlds, Comps, AdmissionInv
<1> DEFINE v == [w EXCEPT !.comp.open = FALSE, !.comp.failed = failed]
<1>3. [w.comp EXCEPT !.open = FALSE, !.failed = failed] \in Comps
  BY <1>0, <1>2 DEF Worlds, Comps
<1>4. v \in Worlds
  BY <1>0, <1>3 DEF Worlds
<1>5. v.sched = w.sched /\ v.auth = w.auth /\ v.nav = w.nav /\ v.adm = w.adm /\ v.pi = w.pi /\ v.log = w.log
  BY <1>0 DEF Worlds
<1> HIDE DEF v
<1>6. Good(v)
  BY <1>0, <1>4, <1>5, SameKeeps
<1>7. Good(CompactionOver(v, failed)) /\ Kin(CompactionOver(v, failed), v)
  BY <1>2, <1>6, OverKeeps
<1>8. Becomes(CompactionOver(v, failed))
  BY <1>1 DEF v
<1> QED
  BY <1>0, <1>5, <1>7, <1>8, QuietStep DEF Kin

\* The promise of a compaction command settles.
LEMMA CompSettlesStep ==
    ASSUME AdmissionInv, CompSettles PROVE Step
<1>0. PICK w \in Worlds : /\ w = World /\ Good(w) /\ w.log = log /\ w.comp = comp
  BY Here
<1> DEFINE failed == ~w.comp.seen \/ w.comp.failed
           cmd == w.comp.cmd
           v == [w EXCEPT !.comp.cmd = None, !.auth.active[cmd] = "none"]
           result == IF failed THEN "rejected" ELSE "completed"
<1>1. /\ Becomes(SettledAs(CompactionOver(v, failed), cmd, result)) /\ cmd # None
  BY <1>0 DEF CompSettles
<1>2. cmd \in Intents /\ failed \in BOOLEAN /\ result \in Outcomes /\ result # "none"
  BY <1>0, <1>1 DEF Worlds, Comps, Intents, Outcomes
<1>3. [w.comp EXCEPT !.cmd = None] \in Comps /\ [w.auth EXCEPT !.active[cmd] = "none"] \in Auths
  BY <1>0, <1>2 DEF Worlds, Comps, Auths, Activities
<1> HIDE DEF failed, cmd, result
<1>4. v \in Worlds
  BY <1>0, <1>3 DEF Worlds
<1>5. /\ v.sched = w.sched /\ v.nav = w.nav /\ v.adm = w.adm /\ v.pi = w.pi /\ v.log = w.log
      /\ v.auth = [w.auth EXCEPT !.active[cmd] = "none"]
  BY <1>0 DEF Worlds
<1> HIDE DEF v
<1>6. /\ v.auth.custody = w.auth.custody /\ v.auth.sequence = w.auth.sequence
      /\ v.auth.fence = w.auth.fence /\ v.auth.transition = w.auth.transition
      /\ v.auth.fatal = w.auth.fatal
  BY <1>0, <1>5 DEF Worlds, Auths
<1>7. Good(v)
  BY <1>0, <1>4, <1>5, <1>6, SameKeeps
<1>8. PICK x : x = CompactionOver(v, failed)
  OBVIOUS
<1>9. Good(x) /\ Kin(x, v)
  BY <1>2, <1>7, <1>8, OverKeeps
<1>10. Good(SettledAs(x, cmd, result)) /\ Kin(SettledAs(x, cmd, result), x)
  BY <1>2, <1>9, SettledKeeps
<1> QED
  BY <1>0, <1>1, <1>5, <1>8, <1>9, <1>10, QuietStep DEF Kin

\* A navigation ends: while it ran, the drain waited for no prompt.
LEMMA NavEndsStep ==
    ASSUME AdmissionInv, NavEnds PROVE Step
<1>0. PICK w \in Worlds : /\ w = World /\ Good(w) /\ w.log = log /\ w.nav = nav /\ w.auth = auth
  BY Here
<1> DEFINE now == w.nav.now
           kept == {item.id : item \in {x \in w.auth.custody :
                        x.phase = "navigation" /\ x.barrier = w.nav.barrier}}
<1>1. /\ now # None
      /\ \/ Becomes(Drained(SettledAs([w EXCEPT !.nav.now = None, !.nav.shown = @ \cup {now}],
                                      now, "completed")))
         \/ Becomes(Drained(SettledAs(Restored([w EXCEPT !.nav.now = None], kept), now, "rejected")))
  BY <1>0 DEF NavEnds
<1>2. now \in Intents /\ now \in Navigations
  BY <1>0, <1>1 DEF Worlds, Navs, Intents
<1>3. {"completed", "rejected"} \subseteq Outcomes \ {"none"}
  BY DEF Outcomes
<1>4. ASSUME NEW x, Good(x), x.log.sent = w.log.sent, NEW result \in {"completed", "rejected"},
             Becomes(Drained(SettledAs(x, now, result)))
      PROVE  Step
  <2> HIDE DEF now
  <2>1. PICK y : y = SettledAs(x, now, result)
    OBVIOUS
  <2>2. Good(y) /\ Kin(y, x)
    BY <1>2, <1>3, <1>4, <2>1, SettledKeeps
  <2>3. Good(Drained(y)) /\ Kin(Drained(y), y)
    BY <2>2, DrainedOnce
  <2> QED
    BY <1>0, <1>4, <2>1, <2>2, <2>3, QuietStep DEF Kin
<1>5. ASSUME NEW shown \in SUBSET Navigations
      PROVE  LET v == [w EXCEPT !.nav.now = None, !.nav.shown = shown]
             IN  /\ Good(v) /\ v.log = w.log /\ v.sched = w.sched /\ v.auth = w.auth
  <2> DEFINE v == [w EXCEPT !.nav.now = None, !.nav.shown = shown]
  <2>1. [w.nav EXCEPT !.now = None, !.shown = shown] \in Navs
    BY <1>0 DEF Worlds, Navs
  <2>2. v \in Worlds
    BY <1>0, <2>1 DEF Worlds
  <2>3. /\ v.sched = w.sched /\ v.auth = w.auth /\ v.adm = w.adm /\ v.pi = w.pi /\ v.log = w.log
        /\ v.nav.now = None
    BY <1>0 DEF Worlds, Navs
  <2> HIDE DEF v
  <2>4. Typed(v)
    BY <1>0, <2>2, <2>3 DEF Good, Typed
  <2>5. Navigating(w)
    BY <1>1 DEF Navigating
  <2>6. Follows(v, w)
    BY <2>3, <2>4, <2>5
       DEF Follows, JobFollows, BarriersFollow, CustodyFollows, PromptFollows, LogFollows
  <2>7. Good(v)
    BY <1>0, <2>6, FollowsKeeps
  <2> QED
    BY <2>3, <2>7 DEF v
<1>6. CASE Becomes(Drained(SettledAs([w EXCEPT !.nav.now = None, !.nav.shown = @ \cup {now}],
                                     now, "completed")))
  <2>1. w.nav.shown \cup {now} \in SUBSET Navigations
    BY <1>0, <1>2 DEF Worlds, Navs
  <2>2. PICK x : x = [w EXCEPT !.nav.now = None, !.nav.shown = w.nav.shown \cup {now}]
    OBVIOUS
  <2>3. Good(x) /\ x.log = w.log
    BY <1>5, <2>1, <2>2
  <2>4. Becomes(Drained(SettledAs(x, now, "completed")))
    BY <1>6, <2>2
  <2>5. PICK result \in {"completed", "rejected"} : result = "completed"
    OBVIOUS
  <2> HIDE DEF now
  <2> QED
    BY <1>4, <2>3, <2>4, <2>5
<1>7. CASE Becomes(Drained(SettledAs(Restored([w EXCEPT !.nav.now = None], kept), now, "rejected")))
  <2>1. w.nav.shown \in SUBSET Navigations
    BY <1>0 DEF Worlds, Navs
  <2>2. PICK x : x = [w EXCEPT !.nav.now = None]
    OBVIOUS
  <2>3. x = [w EXCEPT !.nav.now = None, !.nav.shown = w.nav.shown]
    BY <1>0, <2>2 DEF Worlds, Navs
  <2>4. Good(x) /\ x.log = w.log /\ x.sched = w.sched
    BY <1>5, <2>1, <2>3
  <2>5. kept \in SUBSET Prompts
    BY <1>0 DEF Worlds, Auths, Items
  <2>6. w.sched.job # "drained"
    BY <1>0, <1>1 DEF Good, HeadSent
  <2>7. Becomes(Drained(SettledAs(Restored(x, kept), now, "rejected")))
    BY <1>7, <2>2
  <2>8. PICK result \in {"completed", "rejected"} : result = "rejected"
    OBVIOUS
  <2> HIDE DEF now, kept
  <2>9. PICK y : y = Restored(x, kept)
    OBVIOUS
  <2>10. Good(y) /\ Kin(y, x)
    BY <2>4, <2>5, <2>6, <2>9, RestoredKeeps
  <2> QED
    BY <1>4, <2>4, <2>7, <2>8, <2>9, <2>10 DEF Kin
<1> QED
  BY <1>1, <1>6, <1>7

\* A transition ends, and with it the job that was alone.
LEMMA ReloadEndsStep ==
    ASSUME AdmissionInv, ReloadEnds PROVE Step
<1>0. PICK w \in Worlds : /\ w = World /\ Good(w) /\ w.log = log /\ w.sched = sched /\ w.auth = auth
  BY Here
<1>1. /\ w.auth.transition \in {"prepare", "crossed"} /\ w.sched.job = "reload"
      /\ w.sched.waits \in Intents
  BY <1>0 DEF ReloadEnds, Good, Alone, Typed, Worlds, Scheds
<1>2. ASSUME NEW v \in Worlds, NEW result \in Outcomes \ {"none"},
             v.sched = [w.sched EXCEPT !.job = "none", !.waits = None],
             v.adm = w.adm, v.pi = w.pi, v.log = w.log, v.nav = w.nav,
             v.auth.transition \in {"none", "failed"},
             v.auth.custody = w.auth.custody, v.auth.sequence = w.auth.sequence,
             v.auth.fence = w.auth.fence, v.auth.fatal = w.auth.fatal,
             Becomes(SettledAs(v, w.sched.waits, result))
      PROVE  Step
  <2>1. v.sched.job = "none" /\ v.sched.waits = None /\ v.sched.ingress = w.sched.ingress
    BY <1>0, <1>2 DEF Worlds, Scheds
  <2>2. Typed(v)
    BY <1>2, <2>1 DEF Typed
  <2>3. Follows(v, w)
    BY <1>1, <1>2, <2>1, <2>2
       DEF Follows, JobFollows, BarriersFollow, CustodyFollows, PromptFollows, LogFollows, Navigating
  <2>4. PICK i \in Intents : i = w.sched.waits
    BY <1>1
  <2>5. Good(SettledAs(v, i, result)) /\ Kin(SettledAs(v, i, result), v)
    BY <1>0, <1>2, <2>3, FollowsKeeps, SettledKeeps
  <2> QED
    BY <1>0, <1>2, <2>4, <2>5, QuietStep DEF Kin
<1> DEFINE stale == w.auth.stale \cup ToSet(w.sched.ingress)
<1>3. w.auth.stale \in SUBSET Intents /\ stale \in SUBSET Intents
  <2>1. w.sched.ingress \in Seq(Intents)
    BY <1>0 DEF Worlds, Scheds
  <2>2. ToSet(w.sched.ingress) \subseteq Intents
    BY <2>1, LenProperties DEF ToSet
  <2> QED
    BY <1>0, <2>2 DEF Worlds, Auths
<1>4. {"completed", "outcome_unknown", "rejected"} \subseteq Outcomes \ {"none"}
  BY DEF Outcomes
<1>5. PICK r : r = Released(w)
  OBVIOUS
<1>6. /\ r \in Worlds /\ r.sched = [w.sched EXCEPT !.job = "none", !.waits = None]
      /\ r.auth = w.auth /\ r.adm = w.adm /\ r.pi = w.pi /\ r.log = w.log /\ r.nav = w.nav
  <2>1. [w.sched EXCEPT !.job = "none", !.waits = None] \in Scheds
    BY <1>0 DEF Worlds, Scheds, Jobs
  <2> QED
    BY <1>0, <1>5, <2>1 DEF Released, Worlds
<1>7. \/ Becomes(SettledAs([r EXCEPT !.auth.transition = "none",
                     !.auth.stale = @ \cup ToSet(w.sched.ingress)], w.sched.waits, "completed"))
      \/ Becomes(SettledAs([r EXCEPT !.auth.transition = "failed"], w.sched.waits, "outcome_unknown"))
      \/ Becomes(SettledAs([r EXCEPT !.auth.transition = "none"], w.sched.waits, "rejected"))
  BY <1>0, <1>5 DEF ReloadEnds
<1>8. CASE Becomes(SettledAs([r EXCEPT !.auth.transition = "none",
                     !.auth.stale = @ \cup ToSet(w.sched.ingress)], w.sched.waits, "completed"))
  <2> DEFINE v == [r EXCEPT !.auth.transition = "none", !.auth.stale = stale]
  <2>1. Becomes(SettledAs(v, w.sched.waits, "completed"))
    BY <1>6, <1>8
  <2> HIDE DEF stale
  <2>2. [r.auth EXCEPT !.transition = "none", !.stale = stale] \in Auths
    BY <1>3, <1>6 DEF Worlds, Auths, Transitions
  <2>3. v \in Worlds
    BY <1>6, <2>2 DEF Worlds
  <2>4. /\ v.sched = r.sched /\ v.adm = w.adm /\ v.pi = w.pi /\ v.log = w.log /\ v.nav = w.nav
        /\ v.auth.transition = "none"
        /\ v.auth.custody = w.auth.custody /\ v.auth.sequence = w.auth.sequence
        /\ v.auth.fence = w.auth.fence /\ v.auth.fatal = w.auth.fatal
    BY <1>6 DEF Worlds, Auths
  <2> HIDE DEF v
  <2> QED
    BY <1>2, <1>4, <1>6, <2>1, <2>3, <2>4
<1>9. CASE Becomes(SettledAs([r EXCEPT !.auth.transition = "failed"], w.sched.waits,
                             "outcome_unknown"))
  <2> DEFINE v == [r EXCEPT !.auth.transition = "failed"]
  <2>1. [r.auth EXCEPT !.transition = "failed"] \in Auths
    BY <1>6 DEF Worlds, Auths, Transitions
  <2>2. v \in Worlds
    BY <1>6, <2>1 DEF Worlds
  <2>3. /\ v.sched = r.sched /\ v.adm = w.adm /\ v.pi = w.pi /\ v.log = w.log /\ v.nav = w.nav
        /\ v.auth.transition = "failed"
        /\ v.auth.custody = w.auth.custody /\ v.auth.sequence = w.auth.sequence
        /\ v.auth.fence = w.auth.fence /\ v.auth.fatal = w.auth.fatal
    BY <1>6 DEF Worlds, Auths
  <2>4. Becomes(SettledAs(v, w.sched.waits, "outcome_unknown"))
    BY <1>9
  <2> HIDE DEF v
  <2> QED
    BY <1>2, <1>4, <1>6, <2>2, <2>3, <2>4
<1>10. CASE Becomes(SettledAs([r EXCEPT !.auth.transition = "none"], w.sched.waits, "rejected"))
  <2> DEFINE v == [r EXCEPT !.auth.transition = "none"]
  <2>1. [r.auth EXCEPT !.transition = "none"] \in Auths
    BY <1>6 DEF Worlds, Auths, Transitions
  <2>2. v \in Worlds
    BY <1>6, <2>1 DEF Worlds
  <2>3. /\ v.sched = r.sched /\ v.adm = w.adm /\ v.pi = w.pi /\ v.log = w.log /\ v.nav = w.nav
        /\ v.auth.transition = "none"
        /\ v.auth.custody = w.auth.custody /\ v.auth.sequence = w.auth.sequence
        /\ v.auth.fence = w.auth.fence /\ v.auth.fatal = w.auth.fatal
    BY <1>6 DEF Worlds, Auths
  <2>4. Becomes(SettledAs(v, w.sched.waits, "rejected"))
    BY <1>10
  <2> HIDE DEF v
  <2> QED
    BY <1>2, <1>4, <1>6, <2>2, <2>3, <2>4
<1> QED
  BY <1>7, <1>8, <1>9, <1>10

(***************************************************************************)
(* Pi accepts a prompt, u being w with the prompt perhaps already in Pi's  *)
(* queue: it is accepted for good, or was cancelled and its promise fails. *)
(***************************************************************************)
Reached(u, w, p) ==
    /\ u \in Worlds
    /\ u.sched = w.sched /\ u.auth = w.auth /\ u.adm = w.adm /\ u.nav = w.nav /\ u.log = w.log
    /\ u.pi.stage = w.pi.stage /\ ToSet(u.pi.queue) \subseteq ToSet(w.pi.queue) \cup {p}

\* The acceptance: Pi has the prompt for good, and custody does not.
LEMMA AcceptsKeeps ==
    ASSUME NEW w, Good(w), NEW p \in Prompts, NEW u, Reached(u, w, p), NEW stage \in Accepting,
           w.pi.stage[p] = "preflight", ~w.adm[p].cancelled
    PROVE  Good(Accepts(u, p, stage)) /\ Accepts(u, p, stage).log.sent = w.log.sent
<1>0. w \in Worlds /\ u \in Worlds
  BY DEF Good, Typed, Reached
<1> DEFINE crossed == u.log.crossed \cup {p}
           v == [u EXCEPT !.adm[p].crossed = TRUE, !.pi.stage[p] = stage, !.log.crossed = crossed]
<1>1. Accepts(u, p, stage) = v
  BY DEF Accepts
<1>2. crossed \in SUBSET Prompts /\ crossed = w.log.crossed \cup {p}
  BY <1>0 DEF Worlds, Logs, Reached
<1> HIDE DEF crossed
<1>3. /\ [u.adm EXCEPT ![p].crossed = TRUE] \in [Prompts -> Admissions]
      /\ [u.pi EXCEPT !.stage[p] = stage] \in Pis
      /\ [u.log EXCEPT !.crossed = crossed] \in Logs
  <2>1. stage \in Stages
    BY DEF Stages
  <2>2. [u.adm EXCEPT ![p].crossed = TRUE] \in [Prompts -> Admissions]
    BY <1>0 DEF Worlds, Admissions
  <2>3. [u.pi EXCEPT !.stage[p] = stage] \in Pis
    BY <1>0, <2>1 DEF Worlds, Pis
  <2>4. [u.log EXCEPT !.crossed = crossed] \in Logs
    BY <1>0, <1>2 DEF Worlds, Logs
  <2> QED
    BY <2>2, <2>3, <2>4
<1>4. v \in Worlds
  BY <1>0, <1>3 DEF Worlds
<1>5. /\ v.sched = u.sched /\ v.auth = u.auth /\ v.nav = u.nav
      /\ v.adm = [u.adm EXCEPT ![p].crossed = TRUE]
      /\ v.pi = [u.pi EXCEPT !.stage[p] = stage] /\ v.log = [u.log EXCEPT !.crossed = crossed]
  BY <1>0 DEF Worlds
<1> HIDE DEF v
<1>6. /\ v.sched = w.sched /\ v.auth = w.auth /\ v.nav = w.nav
      /\ v.adm[p].crossed /\ v.adm[p].open = w.adm[p].open /\ v.adm[p].cancelled = w.adm[p].cancelled
      /\ v.pi.stage[p] = stage /\ ToSet(v.pi.queue) \subseteq ToSet(w.pi.queue) \cup {p}
      /\ \A q \in Prompts \ {p} : v.adm[q] = w.adm[q] /\ v.pi.stage[q] = w.pi.stage[q]
  <2>1. u.adm = w.adm /\ u.adm \in [Prompts -> Admissions] /\ u.pi \in Pis
    BY <1>0 DEF Worlds, Reached
  <2>2. /\ v.sched = w.sched /\ v.auth = w.auth /\ v.nav = w.nav
    BY <1>5 DEF Reached
  <2>3. /\ v.adm[p].crossed /\ v.adm[p].open = w.adm[p].open
        /\ v.adm[p].cancelled = w.adm[p].cancelled
        /\ \A q \in Prompts \ {p} : v.adm[q] = w.adm[q]
    BY <1>5, <2>1 DEF Admissions
  <2>4. /\ v.pi.stage[p] = stage /\ v.pi.queue = u.pi.queue
        /\ \A q \in Prompts \ {p} : v.pi.stage[q] = u.pi.stage[q]
    BY <1>5, <2>1 DEF Pis
  <2> QED
    BY <2>2, <2>3, <2>4 DEF Reached
<1>7. /\ v.log.crossed = w.log.crossed \cup {p}
      /\ v.log.kept = w.log.kept /\ v.log.sent = w.log.sent /\ v.log.receipt = w.log.receipt
      /\ v.log.outcome = w.log.outcome
      /\ v.log.idle = w.log.idle /\ v.log.ran = w.log.ran
      /\ v.log.taken = w.log.taken /\ v.log.unsent = w.log.unsent
  BY <1>0, <1>2, <1>5 DEF Worlds, Logs, Reached
<1>8. w.adm[p].open /\ p \in ToSet(w.log.sent)
  BY DEF Good, Pending
<1>9. Typed(v)
  BY <1>4, <1>6 DEF Good, Typed
<1>10. Fresh(v) /\ Ordered(v)
  BY <1>6, <1>7 DEF Good, Fresh, Ordered
<1>11. Pending(v)
  <2> SUFFICES ASSUME NEW q \in Prompts
               PROVE  /\ v.adm[q].open <=> v.pi.stage[q] \notin {"none", "done", "failed"}
                      /\ v.pi.stage[q] \in Accepting => v.adm[q].crossed
                      /\ v.adm[q].crossed <=> q \in v.log.crossed
                      /\ ~(v.adm[q].crossed /\ v.adm[q].cancelled)
                      /\ v.pi.stage[q] # "none" \/ q \in v.log.crossed => q \in ToSet(v.log.sent)
                      /\ ~v.auth.fatal /\ q \in ToSet(v.pi.queue) \cup v.log.ran
                           => q \in v.log.crossed
    BY DEF Pending
  <2>1. CASE q = p
    BY <1>6, <1>7, <1>8, <2>1 DEF Accepting
  <2>2. CASE q # p
    BY <1>6, <1>7, <2>2 DEF Good, Pending
  <2> QED
    BY <2>1, <2>2
<1>12. IdleFenced(v)
  <2>1. p \in w.log.idle => w.auth.fence = p
    BY DEF Good, IdleFenced
  <2>2. w.log.idle \subseteq Prompts
    BY <1>0 DEF Worlds, Logs
  <2> QED
    BY <1>6, <1>7, <2>1, <2>2 DEF Good, IdleFenced
<1>13. HeadSent(v)
  <2>1. \A x \in w.auth.custody : x.id \in Prompts
    BY <1>0 DEF Worlds, Auths, Items
  <2> QED
    BY <1>6, <1>7, <1>8, <2>1 DEF Good, HeadSent, First
<1>14. Alone(v)
  BY <1>6, <1>8 DEF Good, Alone
<1>15. Safe(v)
  BY <1>6, <1>7 DEF Good, Safe, Fifo, Whole
<1>16. Good(v)
  BY <1>9, <1>10, <1>11, <1>12, <1>13, <1>14, <1>15 DEF Good
<1> QED
  BY <1>1, <1>7, <1>16

\* The queue is emptied to take a cancelled entry out of it.
LEMMA SweptKeeps ==
    ASSUME NEW w, Good(w), NEW p \in Prompts, NEW u, Reached(u, w, p)
    PROVE  /\ Good(Swept(u)) /\ Swept(u).log.sent = w.log.sent
           /\ Swept(u).pi.stage = w.pi.stage
<1>0. w \in Worlds /\ u \in Worlds
  BY DEF Good, Typed, Reached
<1> DEFINE unsent == u.log.unsent \cup {q \in ToSet(u.pi.queue) : ~u.adm[q].cancelled}
           v == [u EXCEPT !.pi.queue = <<>>, !.log.unsent = unsent]
<1>1. Swept(u) = v
  BY DEF Swept
<1>2. u.pi.queue \in Seq(Prompts)
  BY <1>0 DEF Worlds, Pis
<1>3. ToSet(u.pi.queue) \subseteq Prompts
  BY <1>2, LenProperties DEF ToSet
<1>4. unsent \in SUBSET Prompts /\ w.log.unsent \subseteq unsent
  BY <1>0, <1>3 DEF Worlds, Logs, Reached
<1>5. <<>> \in Seq(Prompts) /\ ToSet(<<>>) = {}
  BY EmptySeq, LenProperties DEF ToSet
<1> HIDE DEF unsent
<1>6. [u.pi EXCEPT !.queue = <<>>] \in Pis /\ [u.log EXCEPT !.unsent = unsent] \in Logs
  BY <1>0, <1>4, <1>5 DEF Worlds, Pis, Logs
<1>7. v \in Worlds
  BY <1>0, <1>6 DEF Worlds
<1>8. /\ v.sched = u.sched /\ v.auth = u.auth /\ v.nav = u.nav /\ v.adm = u.adm
      /\ v.pi = [u.pi EXCEPT !.queue = <<>>] /\ v.log = [u.log EXCEPT !.unsent = unsent]
  BY <1>0 DEF Worlds
<1> HIDE DEF v
<1>9. v.pi.stage = w.pi.stage /\ v.pi.queue = <<>>
  BY <1>0, <1>8 DEF Worlds, Pis, Reached
<1>10. v.sched = w.sched /\ v.auth = w.auth /\ v.nav = w.nav /\ v.adm = w.adm
  BY <1>8 DEF Reached
<1>11. Typed(v)
  BY <1>7, <1>10 DEF Good, Typed
<1>12. LogFollows(v, w)
  BY <1>0, <1>4, <1>5, <1>8, <1>9 DEF LogFollows, Worlds, Logs, Reached
<1>13. Follows(v, w)
  BY <1>9, <1>10, <1>11, <1>12
     DEF Follows, JobFollows, BarriersFollow, CustodyFollows, PromptFollows, Navigating
<1> QED
  BY <1>1, <1>9, <1>12, <1>13, FollowsKeeps DEF LogFollows

\* The queue could not be emptied: the authority is fenced for good.
LEMMA SweepFailsKeeps ==
    ASSUME NEW w, Good(w), NEW p \in Prompts, NEW u, Reached(u, w, p)
    PROVE  /\ Good(SweepFails(u)) /\ SweepFails(u).log.sent = w.log.sent
           /\ SweepFails(u).pi.stage = w.pi.stage
<1>0. w \in Worlds /\ u \in Worlds
  BY DEF Good, Typed, Reached
<1> DEFINE v == [u EXCEPT !.auth.fatal = TRUE]
<1>1. SweepFails(u) = v
  BY DEF SweepFails
<1>2. [u.auth EXCEPT !.fatal = TRUE] \in Auths
  BY <1>0 DEF Worlds, Auths
<1>3. v \in Worlds
  BY <1>0, <1>2 DEF Worlds
<1>4. /\ v.sched = w.sched /\ v.nav = w.nav /\ v.adm = w.adm /\ v.pi.stage = w.pi.stage
      /\ v.log = w.log /\ v.auth = [w.auth EXCEPT !.fatal = TRUE]
  BY <1>0 DEF Worlds, Reached
<1> HIDE DEF v
<1>5. /\ v.auth.custody = w.auth.custody /\ v.auth.sequence = w.auth.sequence
      /\ v.auth.fence = w.auth.fence /\ v.auth.transition = w.auth.transition
      /\ v.auth.fatal
  BY <1>0, <1>4 DEF Worlds, Auths
<1>6. Typed(v)
  BY <1>3, <1>4 DEF Good, Typed
<1>7. Follows(v, w)
  BY <1>4, <1>5, <1>6
     DEF Follows, JobFollows, BarriersFollow, CustodyFollows, LogFollows, PromptFollows, Navigating
<1> QED
  BY <1>1, <1>4, <1>7, FollowsKeeps

\* Either way the step is right.
LEMMA AcceptedKeeps ==
    ASSUME AdmissionInv, NEW w, w = World, NEW p \in Prompts, NEW u, Reached(u, w, p),
           NEW stage \in Accepting, w.pi.stage[p] = "preflight",
           \E v \in Accepted(u, p, stage) : Becomes(v)
    PROVE  Step
<1>0. Good(w) /\ w.log = log
  BY Here
<1>1. PICK v \in Accepted(u, p, stage) : Becomes(v)
  OBVIOUS
<1>2. PICK failed \in {"done", "failed"} : failed = "failed"
  OBVIOUS
<1>3. ASSUME NEW x, Good(x), x.log.sent = log.sent, x.pi.stage = w.pi.stage,
             v = PromiseSettled(x, p, "failed")
      PROVE  Good(v) /\ v.log.sent = log.sent
  BY <1>2, <1>3, PromiseKeeps
<1>4. CASE ~u.adm[p].cancelled
  <2>1. v = Accepts(u, p, stage) /\ ~w.adm[p].cancelled
    BY <1>1, <1>4 DEF Accepted, Reached
  <2> QED
    BY <1>0, <1>1, <2>1, AcceptsKeeps, QuietStep
<1>5. CASE u.adm[p].cancelled /\ v = PromiseSettled(Swept(u), p, "failed")
  <2>1. PICK x : x = Swept(u)
    OBVIOUS
  <2>2. Good(x) /\ x.log.sent = w.log.sent /\ x.pi.stage = w.pi.stage
    BY <1>0, <2>1, SweptKeeps
  <2> QED
    BY <1>0, <1>1, <1>3, <1>5, <2>1, <2>2, QuietStep
<1>6. CASE u.adm[p].cancelled /\ v = PromiseSettled(SweepFails(u), p, "failed")
  <2>1. PICK x : x = SweepFails(u)
    OBVIOUS
  <2>2. Good(x) /\ x.log.sent = w.log.sent /\ x.pi.stage = w.pi.stage
    BY <1>0, <2>1, SweepFailsKeeps
  <2> QED
    BY <1>0, <1>1, <1>3, <1>6, <2>1, <2>2, QuietStep
<1> QED
  BY <1>1, <1>4, <1>5, <1>6 DEF Accepted

\* Pi accepts a prompt into its queue.
LEMMA PiQueuesStep ==
    ASSUME AdmissionInv, NEW p \in Prompts, PiQueues(p) PROVE Step
<1>0. PICK w \in Worlds : w = World /\ w.pi = pi
  BY Here
<1> DEFINE queue == Append(w.pi.queue, p)
           u == [w EXCEPT !.pi.queue = queue]
<1>1. w.pi.stage[p] = "preflight" /\ \E v \in Accepted(u, p, "queued") : Becomes(v)
  BY <1>0 DEF PiQueues
<1>2. queue \in Seq(Prompts) /\ ToSet(queue) = ToSet(w.pi.queue) \cup {p}
  <2>1. w.pi.queue \in Seq(Prompts)
    BY <1>0 DEF Worlds, Pis
  <2> QED
    BY <2>1, AppendFacts
<1> HIDE DEF queue
<1>3. [w.pi EXCEPT !.queue = queue] \in Pis
  BY <1>0, <1>2 DEF Worlds, Pis
<1>4. u \in Worlds
  BY <1>0, <1>3 DEF Worlds
<1>5. /\ u.sched = w.sched /\ u.auth = w.auth /\ u.nav = w.nav /\ u.adm = w.adm /\ u.log = w.log
      /\ u.pi.queue = queue /\ u.pi.stage = w.pi.stage
  BY <1>0 DEF Worlds, Pis
<1> HIDE DEF u
<1>6. Reached(u, w, p)
  BY <1>2, <1>4, <1>5 DEF Reached
<1>7. PICK stage \in Accepting : stage = "queued"
  BY DEF Accepting
<1> QED
  BY <1>0, <1>1, <1>6, <1>7, AcceptedKeeps

\* Pi accepts a prompt it handles without a turn.
LEMMA PiHandlesStep ==
    ASSUME AdmissionInv, NEW p \in Prompts, PiHandles(p) PROVE Step
<1>0. PICK w \in Worlds : w = World /\ w.pi = pi
  BY Here
<1>1. w.pi.stage[p] = "preflight" /\ \E v \in Accepted(w, p, "handled") : Becomes(v)
  BY <1>0 DEF PiHandles
<1>2. PICK stage \in Accepting : stage = "handled"
  BY DEF Accepting
<1>3. Reached(w, w, p)
  BY <1>0 DEF Reached
<1> QED
  BY <1>0, <1>1, <1>2, <1>3, AcceptedKeeps

\* Pi accepts a prompt and starts a turn for it.
LEMMA PiStartsStep ==
    ASSUME AdmissionInv, NEW p \in Prompts, PiStarts(p) PROVE Step
<1>0. PICK w \in Worlds : w = World /\ w.pi = pi
  BY Here
<1>1. w.pi.stage[p] = "preflight" /\ \E v \in Accepted(w, p, "started") : Becomes(v)
  BY <1>0 DEF PiStarts
<1>2. PICK stage \in Accepting : stage = "started"
  BY DEF Accepting
<1>3. Reached(w, w, p)
  BY <1>0 DEF Reached
<1> QED
  BY <1>0, <1>1, <1>2, <1>3, AcceptedKeeps

\* The outcomes of several intents at once.
LEMMA AllSettledKeeps ==
    ASSUME NEW w, Good(w), NEW ids, NEW result \in Outcomes, result # "none"
    PROVE  Good(AllSettledAs(w, ids, result)) /\ Kin(AllSettledAs(w, ids, result), w)
<1>0. w \in Worlds
  BY DEF Good, Typed
<1> DEFINE outcome == [i \in Intents |-> IF i \in ids /\ w.log.outcome[i] = "none" THEN result
                                         ELSE w.log.outcome[i]]
           v == [w EXCEPT !.log.outcome = outcome]
<1>1. AllSettledAs(w, ids, result) = v
  BY DEF AllSettledAs
<1>2. outcome \in [Intents -> Outcomes]
  BY <1>0 DEF Worlds, Logs
<1>3. \A i \in Intents : w.log.outcome[i] # "none" => outcome[i] # "none"
  OBVIOUS
<1> HIDE DEF outcome
<1>4. [w.log EXCEPT !.outcome = outcome] \in Logs
  BY <1>0, <1>2 DEF Worlds, Logs
<1>5. v \in Worlds
  BY <1>0, <1>4 DEF Worlds
<1>6. /\ v.sched = w.sched /\ v.auth = w.auth /\ v.nav = w.nav /\ v.adm = w.adm /\ v.pi = w.pi
      /\ v.log = [w.log EXCEPT !.outcome = outcome]
  BY <1>0 DEF Worlds
<1> HIDE DEF v
<1>7. Typed(v)
  BY <1>5, <1>6 DEF Good, Typed
<1>8. LogFollows(v, w)
  BY <1>0, <1>3, <1>6 DEF LogFollows, Worlds, Logs
<1>9. Follows(v, w)
  BY <1>6, <1>7, <1>8
     DEF Follows, JobFollows, BarriersFollow, CustodyFollows, PromptFollows, Navigating
<1> QED
  BY <1>1, <1>6, <1>8, <1>9, FollowsKeeps DEF Kin, LogFollows

(* Escape cancels what Pi has not accepted, and then what it aims at. *)
LEMMA EscapeStep ==
    ASSUME AdmissionInv, Escape PROVE Step
<1>0. PICK w \in Worlds : /\ w = World /\ Good(w) /\ w.log = log /\ w.auth = auth /\ w.adm = adm
                          /\ w.comp = comp /\ w.pi = pi /\ w.nav = nav
  BY Here
<1> DEFINE ids == Cancellable(w)
           active == [i \in Intents |-> IF i \in ids THEN "unknown" ELSE w.auth.active[i]]
           adm2 == [p \in Prompts |-> [w.adm[p] EXCEPT !.cancelled = @ \/ p \in ids]]
           f == [w EXCEPT !.auth.escapes = @ + 1, !.auth.active = active, !.adm = adm2]
           aborted == [f EXCEPT !.comp.aborted = w.comp.open]
           cleared == [f EXCEPT !.pi.queue = <<>>,
                                !.log.unsent = @ \cup (ToSet(w.pi.queue) \ ids)]
<1>1. \E x \in {f, aborted, cleared} : Becomes(AllSettledAs(x, ids, "outcome_unknown"))
  <2> DEFINE aimed == CASE nav.now # None -> f
                        [] nav.now = None /\ Compacting(World) -> aborted
                        [] nav.now = None /\ ~Compacting(World) /\ pi.streaming -> cleared
                        [] OTHER -> f
  <2>1. Becomes(AllSettledAs(aimed, ids, "outcome_unknown"))
    BY <1>0 DEF Escape
  <2> HIDE DEF ids, f, aborted, cleared
  <2>2. aimed \in {f, aborted, cleared}
    <3>1. CASE nav.now # None
      BY <3>1
    <3>2. CASE nav.now = None /\ Compacting(World)
      BY <3>2
    <3>3. CASE nav.now = None /\ ~Compacting(World) /\ pi.streaming
      BY <3>3
    <3>4. CASE nav.now = None /\ ~Compacting(World) /\ ~pi.streaming
      BY <3>4
    <3> QED
      BY <3>1, <3>2, <3>3, <3>4
  <2> QED
    BY <2>1, <2>2
<1>2. ids \subseteq Prompts /\ \A p \in ids : ~w.adm[p].crossed
  BY DEF Cancellable
<1>3. active \in [Intents -> Activities]
  BY <1>0 DEF Worlds, Auths, Activities
<1>4. /\ adm2 \in [Prompts -> Admissions]
      /\ \A p \in Prompts : /\ adm2[p].open = w.adm[p].open /\ adm2[p].crossed = w.adm[p].crossed
                            /\ adm2[p].cancelled => w.adm[p].cancelled \/ ~w.adm[p].crossed
  <2> SUFFICES ASSUME NEW p \in Prompts
               PROVE  /\ adm2[p] \in Admissions
                      /\ adm2[p].open = w.adm[p].open /\ adm2[p].crossed = w.adm[p].crossed
                      /\ adm2[p].cancelled => w.adm[p].cancelled \/ ~w.adm[p].crossed
    OBVIOUS
  <2>1. w.adm[p] \in Admissions
    BY <1>0 DEF Worlds
  <2>2. adm2[p] = [w.adm[p] EXCEPT !.cancelled = w.adm[p].cancelled \/ p \in ids]
    OBVIOUS
  <2>3. (w.adm[p].cancelled \/ p \in ids) \in BOOLEAN
    OBVIOUS
  <2> HIDE DEF adm2, ids
  <2>4. adm2[p] \in Admissions /\ adm2[p].open = w.adm[p].open /\ adm2[p].crossed = w.adm[p].crossed
    BY <2>1, <2>2, <2>3 DEF Admissions
  <2>5. adm2[p].cancelled = (w.adm[p].cancelled \/ p \in ids)
    BY <2>1, <2>2 DEF Admissions
  <2> QED
    BY <1>2, <2>4, <2>5
<1> HIDE DEF ids, active, adm2
<1>5. [w.auth EXCEPT !.escapes = w.auth.escapes + 1, !.active = active] \in Auths
  <2>1. w.auth.escapes + 1 \in Nat
    BY <1>0 DEF Worlds, Auths
  <2> QED
    BY <1>0, <1>3, <2>1 DEF Worlds, Auths
<1>6. f \in Worlds
  BY <1>0, <1>4, <1>5 DEF Worlds
<1>7. /\ f.sched = w.sched /\ f.adm = adm2 /\ f.comp = w.comp /\ f.nav = w.nav /\ f.pi = w.pi
      /\ f.log = w.log /\ f.auth = [w.auth EXCEPT !.escapes = w.auth.escapes + 1, !.active = active]
  BY <1>0 DEF Worlds
<1> HIDE DEF f
<1>8. /\ f.auth.custody = w.auth.custody /\ f.auth.sequence = w.auth.sequence
      /\ f.auth.fence = w.auth.fence /\ f.auth.transition = w.auth.transition
      /\ f.auth.fatal = w.auth.fatal
  BY <1>0, <1>7 DEF Worlds, Auths
<1>9. Good(f)
  <2>1. Typed(f)
    BY <1>0, <1>6, <1>7 DEF Good, Typed
  <2>2. \A p \in Prompts : PromptFollows(f, w, p)
    BY <1>4, <1>7 DEF PromptFollows
  <2>3. Follows(f, w)
    BY <1>7, <1>8, <2>1, <2>2
       DEF Follows, JobFollows, BarriersFollow, CustodyFollows, LogFollows, Navigating
  <2> QED
    BY <1>0, <2>3, FollowsKeeps
<1>10. Good(aborted) /\ aborted.log.sent = w.log.sent
  <2>1. [f.comp EXCEPT !.aborted = w.comp.open] \in Comps
    BY <1>0, <1>6, <1>7 DEF Worlds, Comps
  <2>2. aborted \in Worlds
    BY <1>6, <2>1 DEF Worlds
  <2>3. /\ aborted.sched = f.sched /\ aborted.auth = f.auth /\ aborted.adm = f.adm
        /\ aborted.nav = f.nav /\ aborted.pi = f.pi /\ aborted.log = f.log
    BY <1>6 DEF Worlds
  <2> HIDE DEF aborted
  <2> QED
    BY <1>7, <1>9, <2>2, <2>3, SameKeeps
<1>11. Good(cleared) /\ cleared.log.sent = w.log.sent
  <2> DEFINE unsent == w.log.unsent \cup (ToSet(w.pi.queue) \ ids)
             v == [f EXCEPT !.pi.queue = <<>>, !.log.unsent = unsent]
  <2>1. cleared = v
    BY <1>6, <1>7 DEF Worlds
  <2>2. w.pi.queue \in Seq(Prompts)
    BY <1>0 DEF Worlds, Pis
  <2>3. ToSet(w.pi.queue) \subseteq Prompts
    BY <2>2, LenProperties DEF ToSet
  <2>4. unsent \in SUBSET Prompts /\ w.log.unsent \subseteq unsent
    BY <1>0, <2>3 DEF Worlds, Logs
  <2>5. <<>> \in Seq(Prompts) /\ ToSet(<<>>) = {}
    BY EmptySeq, LenProperties DEF ToSet
  <2> HIDE DEF unsent, cleared
  <2>6. [f.pi EXCEPT !.queue = <<>>] \in Pis /\ [f.log EXCEPT !.unsent = unsent] \in Logs
    BY <1>6, <2>4, <2>5 DEF Worlds, Pis, Logs
  <2>7. v \in Worlds
    BY <1>6, <2>6 DEF Worlds
  <2>8. /\ v.sched = f.sched /\ v.auth = f.auth /\ v.nav = f.nav /\ v.adm = f.adm
        /\ v.pi = [f.pi EXCEPT !.queue = <<>>] /\ v.log = [f.log EXCEPT !.unsent = unsent]
    BY <1>6 DEF Worlds
  <2> HIDE DEF v
  <2>9. v.pi.stage = f.pi.stage /\ v.pi.queue = <<>>
    BY <1>6, <2>8 DEF Worlds, Pis
  <2>10. Typed(v)
    BY <1>9, <2>7, <2>8 DEF Good, Typed
  <2>11. LogFollows(v, f)
    BY <1>6, <1>7, <2>4, <2>5, <2>8, <2>9 DEF LogFollows, Worlds, Logs
  <2>12. Follows(v, f)
    BY <2>8, <2>9, <2>10, <2>11
       DEF Follows, JobFollows, BarriersFollow, CustodyFollows, PromptFollows, Navigating
  <2> QED
    BY <1>7, <1>9, <2>1, <2>11, <2>12, FollowsKeeps DEF LogFollows
<1> HIDE DEF aborted, cleared
<1>12. PICK x \in {f, aborted, cleared} : Becomes(AllSettledAs(x, ids, "outcome_unknown"))
  BY <1>1
<1>13. Good(x) /\ x.log.sent = log.sent
  BY <1>0, <1>7, <1>9, <1>10, <1>11
<1>14. PICK result \in Outcomes : result = "outcome_unknown"
  BY DEF Outcomes
<1>15. Good(AllSettledAs(x, ids, result)) /\ Kin(AllSettledAs(x, ids, result), x)
  BY <1>13, <1>14, AllSettledKeeps
<1> QED
  BY <1>12, <1>13, <1>14, <1>15, QuietStep DEF Kin

(* An intent is dispatched: its receipt, and its place in ingress. *)
LEMMA DispatchStep ==
    ASSUME AdmissionInv, NEW i \in Intents, Dispatch(i) PROVE Step
<1>0. PICK w \in Worlds : /\ w = World /\ Good(w) /\ w.log = log /\ w.auth = auth
  BY Here
<1>1. /\ w.log.receipt[i] = "none"
      /\ \/ Becomes([w EXCEPT !.log.receipt[i] = "not_admitted"])
         \/ /\ w.auth.transition = "none"
            /\ Becomes([w EXCEPT !.log.receipt[i] = "admitted", !.sched.ingress = Append(@, i)])
  BY <1>0 DEF Dispatch
<1>2. ASSUME NEW receipt \in {"admitted", "not_admitted"}, NEW v \in Worlds, Becomes(v),
             v.auth = w.auth, v.nav = w.nav, v.adm = w.adm, v.pi = w.pi,
             v.sched.job = w.sched.job, v.sched.waits = w.sched.waits,
             v.log = [w.log EXCEPT !.receipt[i] = receipt],
             \/ receipt = "not_admitted" /\ v.sched.ingress = w.sched.ingress
             \/ w.auth.transition = "none" /\ v.sched.ingress = Append(w.sched.ingress, i)
      PROVE  Step
  <2>1. /\ v.log.receipt = [w.log.receipt EXCEPT ![i] = receipt] /\ w.log.receipt \in [Intents -> Receipts]
        /\ v.log.kept = w.log.kept /\ v.log.sent = w.log.sent /\ v.log.idle = w.log.idle
        /\ v.log.crossed = w.log.crossed /\ v.log.ran = w.log.ran /\ v.log.taken = w.log.taken
        /\ v.log.unsent = w.log.unsent /\ v.log.outcome = w.log.outcome
    BY <1>0, <1>2 DEF Worlds, Logs
  <2>2. /\ v.log.receipt[i] = receipt
        /\ \A j \in Intents \ {i} : v.log.receipt[j] = w.log.receipt[j]
    BY <2>1
  <2>3. w.sched.ingress \in Seq(Intents) /\ w.log.kept \in Seq(Prompts) /\ w.log.sent \in Seq(Prompts)
    BY <1>0 DEF Worlds, Scheds, Logs
  <2>4. /\ \A j \in DOMAIN w.sched.ingress : w.sched.ingress[j] \in Intents
        /\ ToSet(w.log.kept) \cup ToSet(w.log.sent) \subseteq Intents
    BY <2>3, LenProperties DEF ToSet, Intents
  <2>5. Typed(v)
    BY <1>0, <1>2 DEF Good, Typed
  <2>6. Fresh(v)
    <3>1. \A p \in ToSet(v.log.kept) \cup ToSet(v.log.sent) : v.log.receipt[p] # "none"
      BY <1>0, <1>2, <2>1, <2>2, <2>4 DEF Good, Fresh
    <3>2. i \notin ToSet(w.log.kept) \cup ToSet(w.log.sent)
      BY <1>0, <1>1 DEF Good, Fresh
    <3>3. \A j \in DOMAIN w.sched.ingress :
              /\ w.sched.ingress[j] # i
              /\ w.sched.ingress[j] \notin ToSet(v.log.kept) \cup ToSet(v.log.sent)
              /\ v.log.receipt[w.sched.ingress[j]] # "none"
      BY <1>0, <1>1, <2>1, <2>2, <2>4 DEF Good, Fresh
    <3>4. CASE v.sched.ingress = w.sched.ingress
      BY <1>0, <3>1, <3>3, <3>4 DEF Good, Fresh
    <3>5. CASE v.sched.ingress = Append(w.sched.ingress, i)
      <4> DEFINE s == w.sched.ingress
                 t == v.sched.ingress
                 n == Len(s)
      <4>1. /\ DOMAIN t = 1 .. n + 1 /\ DOMAIN s = 1 .. n /\ n \in Nat
            /\ \A j \in 1 .. n : t[j] = s[j]
            /\ t[n + 1] = i
        BY <2>3, <3>5, AppendFacts
      <4> HIDE DEF s, t, n
      <4>2. \A j \in DOMAIN t : j \in 1 .. n \/ j = n + 1
        BY <4>1
      <4>3. /\ \A j, k \in 1 .. n : s[j] = s[k] => j = k
            /\ \A j \in 1 .. n : s[j] # i /\ s[j] \notin ToSet(v.log.kept) \cup ToSet(v.log.sent)
                                 /\ v.log.receipt[s[j]] # "none"
        BY <1>0, <3>3, <4>1 DEF Good, Fresh, s
      <4>4. \A j, k \in DOMAIN t : t[j] = t[k] => j = k
        BY <4>1, <4>2, <4>3
      <4>5. \A j \in DOMAIN t : /\ t[j] \notin ToSet(v.log.kept) \cup ToSet(v.log.sent)
                                /\ v.log.receipt[t[j]] # "none"
        BY <1>2, <2>1, <2>2, <3>2, <4>1, <4>2, <4>3
      <4> QED
        BY <3>1, <4>4, <4>5 DEF Fresh, t
    <3> QED
      BY <1>2, <3>4, <3>5
  <2>7. Ordered(v) /\ Pending(v) /\ IdleFenced(v) /\ Safe(v)
    BY <1>0, <1>2, <2>1 DEF Good, Ordered, Pending, IdleFenced, Safe, Fifo, Whole
  <2>8. HeadSent(v)
    BY <1>0, <1>2, <2>1 DEF Good, HeadSent, First
  <2>9. Alone(v)
    <3> SUFFICES ASSUME v.auth.transition \in {"prepare", "crossed"}
                 PROVE  /\ v.sched.job = "reload" /\ v.auth.custody = {} /\ v.auth.fence = None
                        /\ ~Navigating(v) /\ \A p \in Prompts : ~v.adm[p].open
                        /\ Unsettled(v) \subseteq Reloads
      BY DEF Alone
    <3>1. receipt = "not_admitted"
      BY <1>2
    <3>2. Unsettled(v) \subseteq Unsettled(w)
      BY <2>1, <2>2, <3>1 DEF Unsettled
    <3> QED
      BY <1>0, <1>2, <3>2 DEF Good, Alone, Navigating
  <2>10. Good(v)
    BY <2>5, <2>6, <2>7, <2>8, <2>9 DEF Good
  <2> QED
    BY <1>0, <1>2, <2>1, <2>10, QuietStep
<1>3. CASE Becomes([w EXCEPT !.log.receipt[i] = "not_admitted"])
  <2> DEFINE v == [w EXCEPT !.log.receipt[i] = "not_admitted"]
  <2>1. [w.log EXCEPT !.receipt[i] = "not_admitted"] \in Logs
    BY <1>0 DEF Worlds, Logs, Receipts
  <2>2. v \in Worlds
    BY <1>0, <2>1 DEF Worlds
  <2>3. /\ v.auth = w.auth /\ v.nav = w.nav /\ v.adm = w.adm /\ v.pi = w.pi /\ v.sched = w.sched
        /\ v.log = [w.log EXCEPT !.receipt[i] = "not_admitted"]
    BY <1>0 DEF Worlds
  <2> HIDE DEF v
  <2>4. PICK receipt \in {"admitted", "not_admitted"} : receipt = "not_admitted"
    OBVIOUS
  <2>5. Becomes(v)
    BY <1>3 DEF v
  <2> QED
    BY <1>2, <2>2, <2>3, <2>4, <2>5
<1>4. CASE /\ w.auth.transition = "none"
           /\ Becomes([w EXCEPT !.log.receipt[i] = "admitted", !.sched.ingress = Append(@, i)])
  <2> DEFINE ingress == Append(w.sched.ingress, i)
             v == [w EXCEPT !.log.receipt[i] = "admitted", !.sched.ingress = ingress]
  <2>1. Becomes(v)
    BY <1>4
  <2>2. w.sched.ingress \in Seq(Intents)
    BY <1>0 DEF Worlds, Scheds
  <2>3. ingress \in Seq(Intents)
    BY <2>2, AppendFacts
  <2> HIDE DEF ingress
  <2>4. /\ [w.log EXCEPT !.receipt[i] = "admitted"] \in Logs
        /\ [w.sched EXCEPT !.ingress = ingress] \in Scheds
    BY <1>0, <2>3 DEF Worlds, Logs, Receipts, Scheds
  <2>5. v \in Worlds
    BY <1>0, <2>4 DEF Worlds
  <2>6. /\ v.auth = w.auth /\ v.nav = w.nav /\ v.adm = w.adm /\ v.pi = w.pi
        /\ v.sched = [w.sched EXCEPT !.ingress = ingress]
        /\ v.log = [w.log EXCEPT !.receipt[i] = "admitted"]
    BY <1>0 DEF Worlds
  <2> HIDE DEF v
  <2>7. /\ v.sched.ingress = ingress /\ v.sched.job = w.sched.job /\ v.sched.waits = w.sched.waits
    BY <1>0, <2>6 DEF Worlds, Scheds
  <2>8. PICK receipt \in {"admitted", "not_admitted"} : receipt = "admitted"
    OBVIOUS
  <2> QED
    BY <1>2, <1>4, <2>1, <2>5, <2>6, <2>7, <2>8 DEF ingress
<1> QED
  BY <1>1, <1>3, <1>4

(***************************************************************************)
(* The job stops waiting for its prompt: what stays in custody Pi does not *)
(* have, and what goes was sent or is given back.                          *)
(***************************************************************************)
LEMMA LeaveKeeps ==
    ASSUME NEW w, Good(w), w.sched.job \in {"submit", "drained"}, NEW v \in Worlds,
           v.sched.job \in {"none", "draining"}, v.sched.waits = None,
           v.sched.ingress = w.sched.ingress,
           v.auth.fence = w.auth.fence, v.auth.transition = w.auth.transition,
           v.auth.fatal = w.auth.fatal, v.auth.sequence = w.auth.sequence,
           v.auth.custody \subseteq w.auth.custody,
           \A x \in v.auth.custody : ~w.adm[x.id].open /\ x.id \notin w.log.crossed,
           \A x \in w.auth.custody \ v.auth.custody :
               w.log.taken = {} => x.id \in ToSet(w.log.sent) \cup v.log.unsent,
           v.nav = w.nav, v.adm = w.adm, v.pi = w.pi,
           v.log.receipt = w.log.receipt, v.log.kept = w.log.kept, v.log.sent = w.log.sent,
           v.log.idle = w.log.idle, v.log.crossed = w.log.crossed, v.log.ran = w.log.ran,
           v.log.taken = w.log.taken, w.log.unsent \subseteq v.log.unsent
    PROVE  Good(v) /\ Kin(v, w)
<1>1. Typed(v)
  BY DEF Typed
<1>2. Fresh(v)
  BY DEF Good, Fresh
<1>3. Ordered(v)
  BY DEF Good, Ordered
<1>4. Pending(v)
  BY DEF Good, Pending
<1>5. IdleFenced(v)
  BY DEF Good, IdleFenced
<1>6. HeadSent(v)
  BY DEF HeadSent
<1>7. Alone(v)
  BY DEF Good, Alone
<1>8. Safe(v)
  BY DEF Good, Safe, Fifo, Whole
<1> QED
  BY <1>1, <1>2, <1>3, <1>4, <1>5, <1>6, <1>7, <1>8 DEF Good, Kin

\* The job is over, and its prompt is no longer awaited.
LEMMA ReleasedKeeps ==
    ASSUME NEW w, Good(w), w.sched.job \in {"submit", "drained"},
           w.sched.job = "drained" => ~w.adm[w.sched.waits].open /\ w.sched.waits \notin w.log.crossed
    PROVE  Good(Released(w)) /\ Kin(Released(w), w)
<1>0. w \in Worlds
  BY DEF Good, Typed
<1> DEFINE v == [w EXCEPT !.sched.job = "none", !.sched.waits = None]
<1>1. Released(w) = v
  BY DEF Released
<1>2. [w.sched EXCEPT !.job = "none", !.waits = None] \in Scheds
  BY <1>0 DEF Worlds, Scheds, Jobs
<1>3. v \in Worlds
  BY <1>0, <1>2 DEF Worlds
<1>4. /\ v.sched = [w.sched EXCEPT !.job = "none", !.waits = None]
      /\ v.auth = w.auth /\ v.nav = w.nav /\ v.adm = w.adm /\ v.pi = w.pi /\ v.log = w.log
  BY <1>0 DEF Worlds
<1> HIDE DEF v
<1>5. v.sched.job = "none" /\ v.sched.waits = None /\ v.sched.ingress = w.sched.ingress
  BY <1>0, <1>4 DEF Worlds, Scheds
<1>6. \A x \in w.auth.custody : ~w.adm[x.id].open /\ x.id \notin w.log.crossed
  BY DEF Good, HeadSent
<1>7. Good(v) /\ Kin(v, w)
  BY <1>3, <1>4, <1>5, <1>6, LeaveKeeps
<1> QED
  BY <1>1, <1>7

\* The drain goes on from its item: shifted, given back, or kept.
LEMMA ItemDoneKeeps ==
    ASSUME NEW w, Good(w), w.sched.job = "drained",
           NEW value \in {"consumed", "admitting", "outcome_unknown", "rejected"},
           value = "rejected" => ~w.adm[w.sched.waits].open /\ w.sched.waits \notin w.log.crossed
    PROVE  /\ Good(ItemDone(w, w.sched.waits, value))
           /\ Kin(ItemDone(w, w.sched.waits, value), w)
<1>0. w \in Worlds /\ w.sched.waits \in Prompts /\ w.auth.custody \subseteq Items
  BY DEF Good, Typed, Worlds, Auths
<1>1. PICK p \in Prompts : p = w.sched.waits
  BY <1>0
<1>2. /\ p \in ToSet(w.log.sent)
      /\ \A x \in w.auth.custody : x.id = p => First(w, x)
      /\ \A x \in w.auth.custody : x.id # p => ~w.adm[x.id].open /\ x.id \notin w.log.crossed
      /\ w.log.taken = {} => \E x \in w.auth.custody : x.id = p
  BY <1>1 DEF Good, HeadSent
<1>3. [w.sched EXCEPT !.job = "draining", !.waits = None] \in Scheds
  BY <1>0 DEF Worlds, Scheds, Jobs
<1>4. CASE value \in {"consumed", "admitting"}
  <2> DEFINE custody == Shifted(w.auth.custody)
             v == [w EXCEPT !.auth.custody = custody, !.sched.job = "draining",
                            !.sched.waits = None]
  <2>1. ItemDone(w, p, value) = v
    BY <1>4 DEF ItemDone
  <2>2. custody \subseteq w.auth.custody
    BY DEF Shifted
  <2>3. \A x \in custody : x.id # p
    BY <1>0, <1>2 DEF Shifted, First, Items
  <2>4. ASSUME NEW x \in w.auth.custody \ custody, w.log.taken = {} PROVE x.id = p
    <3>1. PICK y \in w.auth.custody : y.id = p /\ First(w, y)
      BY <1>2, <2>4
    <3>2. ~(y.at < x.at) /\ y.at <= x.at /\ x.at \in Nat /\ y.at \in Nat
      BY <1>0, <2>4, <3>1 DEF Shifted, First, Items
    <3>3. x.at = y.at
      BY <3>2
    <3> QED
      BY <2>4, <3>1, <3>3 DEF Good, Ordered
  <2> HIDE DEF custody
  <2>5. [w.auth EXCEPT !.custody = custody] \in Auths
    BY <1>0, <2>2 DEF Worlds, Auths
  <2>6. v \in Worlds
    BY <1>0, <1>3, <2>5 DEF Worlds
  <2>7. /\ v.sched = [w.sched EXCEPT !.job = "draining", !.waits = None]
        /\ v.auth = [w.auth EXCEPT !.custody = custody]
        /\ v.nav = w.nav /\ v.adm = w.adm /\ v.pi = w.pi /\ v.log = w.log
    BY <1>0 DEF Worlds
  <2> HIDE DEF v
  <2>8. /\ v.sched.job = "draining" /\ v.sched.waits = None /\ v.sched.ingress = w.sched.ingress
        /\ v.auth.fence = w.auth.fence /\ v.auth.transition = w.auth.transition
        /\ v.auth.fatal = w.auth.fatal /\ v.auth.sequence = w.auth.sequence
        /\ v.auth.custody = custody
    BY <1>0, <2>7 DEF Worlds, Scheds, Auths
  <2>9. \A x \in custody : ~w.adm[x.id].open /\ x.id \notin w.log.crossed
    BY <1>2, <2>2, <2>3
  <2>10. \A x \in w.auth.custody \ custody :
             w.log.taken = {} => x.id \in ToSet(w.log.sent) \cup v.log.unsent
    BY <1>2, <2>4
  <2>11. Good(v) /\ Kin(v, w)
    BY <2>2, <2>6, <2>7, <2>8, <2>9, <2>10, LeaveKeeps
  <2> QED
    BY <1>1, <2>1, <2>11
<1>5. CASE value = "outcome_unknown"
  <2>1. PICK x : x = [w EXCEPT !.sched.job = "draining", !.sched.waits = None]
    OBVIOUS
  <2>2. /\ x \in Worlds /\ x.sched = [w.sched EXCEPT !.job = "draining", !.waits = None]
        /\ x.auth = w.auth /\ x.nav = w.nav /\ x.adm = w.adm /\ x.pi = w.pi /\ x.log = w.log
    BY <1>0, <1>3, <2>1 DEF Worlds
  <2> DEFINE custody == {item \in x.auth.custody : item.id \notin {p}}
             active == [i \in Intents |-> IF i \in {p} THEN "unknown" ELSE x.auth.active[i]]
             outcome == [i \in Intents |-> IF i \in {p} /\ x.log.outcome[i] = "none"
                                           THEN "outcome_unknown" ELSE x.log.outcome[i]]
             unsent == x.log.unsent \cup {p}
  <2> DEFINE v == [x EXCEPT !.auth.custody = custody, !.auth.active = active,
                            !.log.unsent = unsent, !.log.outcome = outcome]
  <2>3. ItemDone(w, p, value) = Restored(x, {p})
    BY <1>5, <2>1 DEF ItemDone
  <2>4. Restored(x, {p}) = v
    BY <2>2 DEF Restored, AllSettledAs, Worlds, Auths, Logs
  <2>5. custody \in SUBSET Items /\ active \in [Intents -> Activities] /\ outcome \in [Intents -> Outcomes]
    BY <2>2 DEF Worlds, Auths, Logs, Activities, Outcomes
  <2>6. custody \subseteq w.auth.custody /\ \A y \in custody : y.id # p
    BY <2>2
  <2>7. \A y \in w.auth.custody \ custody : y.id = p
    BY <2>2
  <2>8. unsent \in SUBSET Prompts /\ w.log.unsent \subseteq unsent /\ p \in unsent
    BY <2>2 DEF Worlds, Logs
  <2> HIDE DEF custody, active, outcome, unsent
  <2>9. /\ [w.auth EXCEPT !.custody = custody, !.active = active] \in Auths
        /\ [w.log EXCEPT !.unsent = unsent, !.outcome = outcome] \in Logs
    BY <1>0, <2>2, <2>5, <2>8 DEF Worlds, Auths, Logs
  <2>10. v \in Worlds
    BY <2>2, <2>9 DEF Worlds
  <2>11. /\ v.sched = x.sched /\ v.auth = [w.auth EXCEPT !.custody = custody, !.active = active]
         /\ v.nav = w.nav /\ v.adm = w.adm /\ v.pi = w.pi
         /\ v.log = [w.log EXCEPT !.unsent = unsent, !.outcome = outcome]
    BY <2>2 DEF Worlds
  <2> HIDE DEF v
  <2>12. /\ v.sched.job = "draining" /\ v.sched.waits = None /\ v.sched.ingress = w.sched.ingress
         /\ v.auth.fence = w.auth.fence /\ v.auth.transition = w.auth.transition
         /\ v.auth.fatal = w.auth.fatal /\ v.auth.sequence = w.auth.sequence
         /\ v.auth.custody = custody
    BY <1>0, <2>2, <2>11 DEF Worlds, Scheds, Auths
  <2>13. /\ v.log.receipt = w.log.receipt /\ v.log.kept = w.log.kept /\ v.log.sent = w.log.sent
         /\ v.log.idle = w.log.idle /\ v.log.crossed = w.log.crossed /\ v.log.ran = w.log.ran
         /\ v.log.taken = w.log.taken /\ v.log.unsent = unsent
    BY <1>0, <2>11 DEF Worlds, Logs
  <2>14. \A y \in custody : ~w.adm[y.id].open /\ y.id \notin w.log.crossed
    BY <1>2, <2>6
  <2>15. \A y \in w.auth.custody \ custody :
             w.log.taken = {} => y.id \in ToSet(w.log.sent) \cup unsent
    BY <2>7, <2>8
  <2>16. Good(v) /\ Kin(v, w)
    BY <2>6, <2>8, <2>10, <2>11, <2>12, <2>13, <2>14, <2>15, LeaveKeeps
  <2> QED
    BY <1>1, <2>3, <2>4, <2>16
<1>6. CASE value = "rejected"
  <2>1. PICK x : x = Released(w)
    OBVIOUS
  <2>2. Good(x) /\ Kin(x, w)
    BY <1>6, <2>1, ReleasedKeeps
  <2>3. ItemDone(w, p, value) = [x EXCEPT !.auth.active[p] = "custody"]
    BY <1>6, <2>1 DEF ItemDone
  <2>4. PICK i \in Intents, a \in Activities : i = p /\ a = "custody"
    BY DEF Intents, Activities
  <2>5. Good([x EXCEPT !.auth.active[i] = a]) /\ Kin([x EXCEPT !.auth.active[i] = a], x)
    BY <2>2, ActiveKeeps
  <2> QED
    BY <1>1, <2>2, <2>3, <2>4, <2>5 DEF Kin
<1> QED
  BY <1>4, <1>5, <1>6

(* admit returns: the job goes on, and what waited for the prompt follows. *)
LEMMA ResumeStep ==
    ASSUME AdmissionInv, Resume PROVE Step
<1>0. PICK w \in Worlds : w = World /\ Good(w) /\ w.log = log /\ w.pi = pi /\ w.sched = sched
  BY Here
<1> DEFINE p == w.sched.waits
           value == Value(w, p)
           settled == w.pi.stage[p] \in {"done", "failed"}
           told == CASE value = "consumed" -> [w EXCEPT !.auth.active[p] = "consumed"]
                     [] Winner(w, p) = "failed" -> [w EXCEPT !.auth.active[p] = "none"]
                     [] OTHER -> w
           done == IF w.sched.job = "drained" THEN ItemDone(told, p, value)
                   ELSE IF value \in {"rejected", "outcome_unknown"}
                        THEN SettledAs(Released(told), p, value)
                   ELSE Released(told)
           last == IF ~settled THEN done
                   ELSE IF value \in {"consumed", "admitting"} THEN Concluded(done, p)
                   ELSE FenceLifted(done, p)
<1>1. Becomes(last) /\ w.sched.job \in {"submit", "drained"} /\ Winner(w, p) # "none"
  BY <1>0 DEF Resume, Waiting
<1>2. p \in Prompts /\ p \in Intents
  BY <1>0, <1>1 DEF Good, Typed, Intents
<1>3. /\ value \in {"consumed", "admitting", "outcome_unknown", "rejected"}
      /\ value = "rejected" => Winner(w, p) = "failed" /\ ~w.adm[p].crossed
      /\ Winner(w, p) = "failed" => value # "consumed" /\ w.pi.stage[p] = "failed"
  BY DEF Value, Winner
<1>4. value = "rejected" => ~w.adm[p].open /\ p \notin w.log.crossed
  BY <1>0, <1>2, <1>3 DEF Good, Pending
<1> HIDE DEF value, p
<1>5. told \in {[w EXCEPT !.auth.active[p] = "consumed"], [w EXCEPT !.auth.active[p] = "none"], w}
  <2>1. CASE value = "consumed"
    BY <1>3, <2>1
  <2>2. CASE value # "consumed" /\ Winner(w, p) = "failed"
    BY <2>2
  <2>3. CASE value # "consumed" /\ Winner(w, p) # "failed"
    BY <2>3
  <2> QED
    BY <2>1, <2>2, <2>3
<1>6. Good(told) /\ Kin(told, w) /\ told.sched = w.sched
  <2>1. {"consumed", "none"} \subseteq Activities
    BY DEF Activities
  <2>2. ASSUME NEW a \in {"consumed", "none"}, told = [w EXCEPT !.auth.active[p] = a]
        PROVE  Good(told) /\ Kin(told, w) /\ told.sched = w.sched
    <3>1. PICK i \in Intents, b \in Activities : i = p /\ b = a
      BY <1>2, <2>1
    <3>2. told = [w EXCEPT !.auth.active[i] = b]
      BY <2>2, <3>1
    <3>3. Good(w)
      BY <1>0
    <3>4. /\ Good([w EXCEPT !.auth.active[i] = b]) /\ Kin([w EXCEPT !.auth.active[i] = b], w)
          /\ [w EXCEPT !.auth.active[i] = b].sched = w.sched
      BY <3>3, ActiveKeeps, Zenon
    <3> HIDE DEF told
    <3> QED
      BY <3>2, <3>4
  <2>3. ASSUME told = w PROVE Good(told) /\ Kin(told, w) /\ told.sched = w.sched
    <3> HIDE DEF told
    <3> QED
      BY <1>0, <2>3 DEF Kin
  <2> HIDE DEF told
  <2> QED
    BY <1>5, <2>2, <2>3
<1> HIDE DEF told
<1>7. value = "rejected" => ~told.adm[p].open /\ p \notin told.log.crossed
  <2>1. told.adm[p].crossed <=> p \in told.log.crossed
    BY <1>2, <1>6 DEF Good, Pending
  <2> QED
    BY <1>3, <1>4, <1>6, <2>1 DEF Kin
<1>8. told.sched.waits = p /\ told.sched.job = w.sched.job
  BY <1>6 DEF p
<1>9. Good(done) /\ Kin(done, w)
  <2>1. CASE w.sched.job = "drained"
    <3>1. Good(ItemDone(told, p, value)) /\ Kin(ItemDone(told, p, value), told)
      BY <1>3, <1>6, <1>7, <1>8, <2>1, ItemDoneKeeps
    <3>2. done = ItemDone(told, p, value)
      BY <2>1
    <3> HIDE DEF done
    <3> QED
      BY <1>6, <3>1, <3>2 DEF Kin
  <2>2. CASE w.sched.job = "submit"
    <3>1. PICK x : x = Released(told)
      OBVIOUS
    <3>2. Good(x) /\ Kin(x, told)
      BY <1>6, <1>8, <2>2, <3>1, ReleasedKeeps
    <3>3. CASE value \in {"rejected", "outcome_unknown"}
      <4>1. done = SettledAs(x, p, value)
        BY <2>2, <3>1, <3>3
      <4>2. value \in Outcomes /\ value # "none"
        BY <3>3 DEF Outcomes
      <4>3. Good(SettledAs(x, p, value)) /\ Kin(SettledAs(x, p, value), x)
        BY <1>2, <3>2, <4>2, SettledKeeps
      <4> HIDE DEF done
      <4> QED
        BY <1>6, <3>2, <4>1, <4>3 DEF Kin
    <3>4. CASE value \notin {"rejected", "outcome_unknown"}
      <4>1. done = x
        BY <2>2, <3>1, <3>4
      <4> HIDE DEF done
      <4> QED
        BY <1>6, <3>2, <4>1 DEF Kin
    <3> QED
      BY <3>3, <3>4
  <2> HIDE DEF done
  <2> QED
    BY <1>1, <2>1, <2>2
<1> HIDE DEF done
<1>10. Good(last) /\ Kin(last, w)
  <2>1. CASE ~settled
    BY <1>9, <2>1
  <2>2. CASE settled
    <3>1. done.pi.stage[p] \in {"done", "failed"}
      BY <1>9, <2>2 DEF Kin
    <3>2. /\ Good(Concluded(done, p)) /\ Kin(Concluded(done, p), done)
          /\ Good(FenceLifted(done, p)) /\ Kin(FenceLifted(done, p), done)
      BY <1>2, <1>9, <3>1, ConcludedKeeps, LiftedKeeps
    <3>3. last \in {Concluded(done, p), FenceLifted(done, p)}
      BY <2>2
    <3> HIDE DEF last
    <3> QED
      BY <1>9, <3>2, <3>3 DEF Kin
  <2> QED
    BY <2>1, <2>2
<1> HIDE DEF last
<1> QED
  BY <1>0, <1>1, <1>10, QuietStep DEF Kin

\* A drain that waited becomes the job.
LEMMA RunDrainStep ==
    ASSUME AdmissionInv, RunDrain PROVE Step
<1>0. PICK w \in Worlds : w = World /\ Good(w) /\ w.log = log /\ w.sched = sched
  BY Here
<1> DEFINE drains == w.sched.drains - 1
           v == [w EXCEPT !.sched.drains = drains, !.sched.job = "draining"]
<1>1. Becomes(v) /\ w.sched.job = "none" /\ w.sched.drains > 0
  BY <1>0 DEF RunDrain
<1>2. drains \in 0 .. MaxDrains
  BY <1>0, <1>1, AdmissionAssumption DEF Worlds, Scheds
<1> HIDE DEF drains
<1>3. [w.sched EXCEPT !.drains = drains, !.job = "draining"] \in Scheds
  BY <1>0, <1>2 DEF Worlds, Scheds, Jobs
<1>4. v \in Worlds
  BY <1>0, <1>3 DEF Worlds
<1>5. /\ v.sched = [w.sched EXCEPT !.drains = drains, !.job = "draining"]
      /\ v.auth = w.auth /\ v.nav = w.nav /\ v.adm = w.adm /\ v.pi = w.pi /\ v.log = w.log
  BY <1>0 DEF Worlds
<1> HIDE DEF v
<1>6. /\ v.sched.job = "draining" /\ v.sched.waits = w.sched.waits
      /\ v.sched.ingress = w.sched.ingress /\ w.sched.waits = None
  BY <1>0, <1>1, <1>5 DEF Good, Typed, Worlds, Scheds
<1>7. Typed(v)
  BY <1>4, <1>6 DEF Typed
<1>8. Follows(v, w)
  BY <1>1, <1>5, <1>6, <1>7
     DEF Follows, JobFollows, BarriersFollow, CustodyFollows, LogFollows, PromptFollows, Navigating
<1> QED
  BY <1>0, <1>1, <1>5, <1>8, FollowsKeeps, QuietStep

\* The loop of drainCustody is left.
LEMMA DrainEnds ==
    ASSUME NEW w, Good(w), w.sched.job = "draining"
    PROVE  Good(Released(w)) /\ Kin(Released(w), w)
<1>0. w \in Worlds
  BY DEF Good, Typed
<1> DEFINE v == [w EXCEPT !.sched.job = "none", !.sched.waits = None]
<1>1. Released(w) = v
  BY DEF Released
<1>2. [w.sched EXCEPT !.job = "none", !.waits = None] \in Scheds
  BY <1>0 DEF Worlds, Scheds, Jobs
<1>3. v \in Worlds
  BY <1>0, <1>2 DEF Worlds
<1>4. /\ v.sched = [w.sched EXCEPT !.job = "none", !.waits = None]
      /\ v.auth = w.auth /\ v.nav = w.nav /\ v.adm = w.adm /\ v.pi = w.pi /\ v.log = w.log
  BY <1>0 DEF Worlds
<1> HIDE DEF v
<1>5. v.sched.job = "none" /\ v.sched.waits = None /\ v.sched.ingress = w.sched.ingress
  BY <1>0, <1>4 DEF Worlds, Scheds
<1>6. Typed(v)
  BY <1>3, <1>5 DEF Typed
<1>7. Follows(v, w)
  BY <1>4, <1>5, <1>6
     DEF Follows, JobFollows, BarriersFollow, CustodyFollows, LogFollows, PromptFollows, Navigating
<1> QED
  BY <1>1, <1>4, <1>7, FollowsKeeps DEF Kin

(* Who waits for the fence is counted. *)
LEMMA WakersKeeps ==
    ASSUME NEW w, Good(w)
    PROVE  LET v == [w EXCEPT !.auth.wakers = IF @ < MaxDrains THEN @ + 1 ELSE @]
           IN  Good(v) /\ Kin(v, w)
<1>0. w \in Worlds /\ w.auth.wakers \in 0 .. MaxDrains /\ MaxDrains \in Nat
  BY AdmissionAssumption DEF Good, Typed, Worlds, Auths
<1> DEFINE wakers == IF w.auth.wakers < MaxDrains THEN w.auth.wakers + 1 ELSE w.auth.wakers
           v == [w EXCEPT !.auth.wakers = wakers]
<1>1. wakers \in 0 .. MaxDrains
  BY <1>0
<1> HIDE DEF wakers
<1>2. [w.auth EXCEPT !.wakers = wakers] \in Auths
  BY <1>0, <1>1 DEF Worlds, Auths
<1>3. v \in Worlds
  BY <1>0, <1>2 DEF Worlds
<1>4. /\ v.sched = w.sched /\ v.nav = w.nav /\ v.adm = w.adm /\ v.pi = w.pi /\ v.log = w.log
      /\ v.auth = [w.auth EXCEPT !.wakers = wakers]
  BY <1>0 DEF Worlds
<1> HIDE DEF v
<1>5. /\ v.auth.custody = w.auth.custody /\ v.auth.sequence = w.auth.sequence
      /\ v.auth.fence = w.auth.fence /\ v.auth.transition = w.auth.transition
      /\ v.auth.fatal = w.auth.fatal
  BY <1>0, <1>4 DEF Worlds, Auths
<1>6. Good(v) /\ Kin(v, w)
  BY <1>3, <1>4, <1>5, SameKeeps
<1> QED
  BY <1>6 DEF v, wakers

(* The item the drain takes is the first of custody. *)
LEMMA NextIsFirst ==
    ASSUME NEW w, Good(w), w.auth.custody # {}
    PROVE  \E x \in w.auth.custody : x.id = NextItem(w) /\ First(w, x)
<1>0. w.auth.custody \subseteq Items
  BY DEF Good, Typed, Worlds, Auths
<1> DEFINE S == {x.at : x \in w.auth.custody}
<1>1. S \in SUBSET Nat /\ S # {}
  BY <1>0 DEF Items
<1>2. PICK n \in S : \A m \in S : n <= m
  <2> HIDE DEF S
  <2> QED
    BY <1>1, LeastOf
<1>3. PICK x \in w.auth.custody : x.at = n
  BY <1>2
<1>4. \A y \in w.auth.custody : x.at <= y.at
  BY <1>2, <1>3
<1> DEFINE c == CHOOSE item \in w.auth.custody : \A other \in w.auth.custody : item.at <= other.at
<1>5. c \in w.auth.custody /\ \A y \in w.auth.custody : c.at <= y.at
  BY <1>4
<1>6. NextItem(w) = c.id
  BY DEF NextItem
<1> QED
  BY <1>5, <1>6 DEF First

(* A prompt is handed over. *)
LEMMA HandStep ==
    ASSUME AdmissionInv, NEW w, Good(w), w.comp = comp, w.nav = nav, w.adm = adm, w.log = log,
           ~Held(w), NEW p \in Prompts, NEW job \in {"submit", "drained"}, Ready(w, p, job),
           Becomes(Handed(w, p, job))
    PROVE  Step
<1>1. Good(Handed(w, p, job)) /\ Handed(w, p, job).log.sent = Append(log.sent, p)
  BY HandedKeeps
<1>2. AdmissionInv' /\ log'.sent = Append(log.sent, p)
  BY <1>1, Become
<1>3. Free
  BY DEF Free, Held, Compacting, Navigating, Fenced
<1>4. p \notin log.crossed
  BY DEF Ready
<1> QED
  BY <1>2, <1>3, <1>4 DEF Step, SentRightly

\* One turn of that loop: it ends, or hands over the first of custody.
LEMMA DrainTurn ==
    ASSUME AdmissionInv, DrainStep PROVE Step
<1>0. PICK w \in Worlds : /\ w = World /\ Good(w) /\ w.log = log /\ w.sched = sched /\ w.comp = comp
                          /\ w.nav = nav /\ w.adm = adm
  BY Here
<1>1. w.sched.job = "draining"
  BY <1>0 DEF DrainStep
<1>2. PICK r : r = Released(w)
  OBVIOUS
<1>3. Good(r) /\ Kin(r, w)
  BY <1>0, <1>1, <1>2, DrainEnds
<1>4. \/ Becomes(r)
      \/ Becomes([r EXCEPT !.auth.wakers = IF @ < MaxDrains THEN @ + 1 ELSE @])
      \/ /\ ~Held(w) /\ w.auth.custody # {} /\ ~BehindPrompt(w) /\ w.auth.transition = "none"
         /\ Becomes(Handed(w, NextItem(w), "drained"))
  BY <1>0, <1>2 DEF DrainStep
<1>5. CASE Becomes(r)
  BY <1>0, <1>3, <1>5, QuietStep DEF Kin
<1>6. CASE Becomes([r EXCEPT !.auth.wakers = IF @ < MaxDrains THEN @ + 1 ELSE @])
  <2>1. PICK x : x = [r EXCEPT !.auth.wakers = IF @ < MaxDrains THEN @ + 1 ELSE @]
    OBVIOUS
  <2>2. Good(x) /\ Kin(x, r)
    BY <1>3, <2>1, WakersKeeps
  <2> QED
    BY <1>0, <1>3, <1>6, <2>1, <2>2, QuietStep DEF Kin
<1>7. CASE /\ ~Held(w) /\ w.auth.custody # {} /\ ~BehindPrompt(w) /\ w.auth.transition = "none"
           /\ Becomes(Handed(w, NextItem(w), "drained"))
  <2>1. PICK x \in w.auth.custody : x.id = NextItem(w) /\ First(w, x)
    BY <1>0, <1>7, NextIsFirst
  <2>2. PICK p \in Prompts, job \in {"submit", "drained"} : p = x.id /\ job = "drained"
    BY <1>0 DEF Worlds, Auths, Items
  <2>3. ~w.adm[p].open /\ p \notin w.log.crossed
    BY <1>0, <1>1, <2>1, <2>2 DEF Good, HeadSent
  <2>4. p \in ToSet(w.log.kept)
    BY <1>0, <2>1, <2>2 DEF Good, Ordered, ToSet
  <2>5. w.log.receipt[p] # "none" /\ \A j \in DOMAIN w.sched.ingress : w.sched.ingress[j] # p
    BY <1>0, <2>4 DEF Good, Fresh
  <2>6. Ready(w, p, job)
    BY <1>1, <1>7, <2>1, <2>2, <2>3, <2>5 DEF Ready, Held, Navigating, BehindPrompt
  <2>7. Becomes(Handed(w, p, job))
    BY <1>7, <2>1, <2>2
  <2> QED
    BY <1>0, <1>7, <2>6, <2>7, HandStep
<1> QED
  BY <1>4, <1>5, <1>6, <1>7

(* What the scheduler takes from ingress has gone nowhere yet. *)
Taken(w) == [w EXCEPT !.sched.ingress = Tail(@)]

\* Neither custody nor Pi has it, and it is not in ingress twice.
LEMMA TakenFromIngress ==
    ASSUME NEW w, Good(w), w.sched.ingress # <<>>,
           NEW v, v = Taken(w), NEW i, i = Head(w.sched.ingress)
    PROVE  /\ Good(v) /\ v \in Worlds /\ i \in Intents
           /\ i \notin ToSet(w.log.kept) \cup ToSet(w.log.sent) /\ w.log.receipt[i] # "none"
           /\ \A j \in DOMAIN v.sched.ingress : v.sched.ingress[j] # i
           /\ v.sched.job = w.sched.job /\ v.sched.waits = w.sched.waits
           /\ v.auth = w.auth /\ v.adm = w.adm /\ v.comp = w.comp /\ v.nav = w.nav /\ v.pi = w.pi
           /\ v.log = w.log
<1>0. w \in Worlds
  BY DEF Good, Typed
<1> DEFINE s == w.sched.ingress
           t == Tail(s)
<1>1. s \in Seq(Intents)
  BY <1>0 DEF Worlds, Scheds
<1>2. /\ t \in Seq(Intents) /\ DOMAIN t = 1 .. Len(s) - 1
      /\ \A j \in DOMAIN t : j + 1 \in DOMAIN s /\ t[j] = s[j + 1]
      /\ i = s[1] /\ 1 \in DOMAIN s /\ i \in Intents
  BY <1>1, TailFacts
<1>3. \A j \in DOMAIN t : t[j] # i
  <2> SUFFICES ASSUME NEW j \in DOMAIN t, t[j] = i PROVE FALSE
    OBVIOUS
  <2>1. s[j + 1] = s[1] /\ j + 1 \in DOMAIN s /\ 1 \in DOMAIN s
    BY <1>2
  <2>2. j + 1 = 1
    BY <2>1 DEF Good, Fresh
  <2>3. j \in Nat /\ j > 0
    <3>1. Len(s) \in Nat
      BY <1>1, LenProperties
    <3> QED
      BY <1>2, <3>1
  <2> QED
    BY <2>2, <2>3
<1>4. i \notin ToSet(w.log.kept) \cup ToSet(w.log.sent) /\ w.log.receipt[i] # "none"
  BY <1>2 DEF Good, Fresh
<1>5. v = [w EXCEPT !.sched.ingress = t]
  BY DEF Taken
<1>6. s # <<>>
  OBVIOUS
<1> HIDE DEF t
<1>7. [w.sched EXCEPT !.ingress = t] \in Scheds
  BY <1>0, <1>2 DEF Worlds, Scheds
<1>8. v \in Worlds
  BY <1>0, <1>5, <1>7 DEF Worlds
<1>9. /\ v.sched = [w.sched EXCEPT !.ingress = t]
      /\ v.auth = w.auth /\ v.adm = w.adm /\ v.comp = w.comp /\ v.nav = w.nav /\ v.pi = w.pi
      /\ v.log = w.log
  BY <1>0, <1>5 DEF Worlds
<1>10. v.sched.ingress = t /\ v.sched.job = w.sched.job /\ v.sched.waits = w.sched.waits
  BY <1>0, <1>9 DEF Worlds, Scheds
<1>11. Typed(v)
  BY <1>8, <1>10 DEF Good, Typed
<1>12. Follows(v, w)
  BY <1>6, <1>9, <1>10, <1>11
     DEF Follows, JobFollows, BarriersFollow, CustodyFollows, LogFollows, PromptFollows, Navigating, t
<1> QED
  BY <1>2, <1>3, <1>4, <1>8, <1>9, <1>10, <1>12, FollowsKeeps

(* A prompt from ingress: custody, or Pi. *)
LEMMA AdmittedStep ==
    ASSUME AdmissionInv, NEW w, Good(w), w.comp = comp, w.nav = nav, w.adm = adm, w.log = log,
           w.sched.job = "none", w.auth.transition = "none", NEW p \in Prompts,
           p \notin ToSet(w.log.kept) \cup ToSet(w.log.sent), w.log.receipt[p] # "none",
           \A j \in DOMAIN w.sched.ingress : w.sched.ingress[j] # p,
           Becomes(Admitted(w, p))
    PROVE  Step
<1>1. \A phase \in Phases : Good(InCustody(w, p, phase)) /\ Kin(InCustody(w, p, phase), w)
  BY InCustodyKeeps
<1>2. ASSUME NEW phase \in Phases, Becomes(InCustody(w, p, phase)) PROVE Step
  BY <1>1, <1>2, QuietStep DEF Kin
<1>3. PICK c \in Phases, n \in Phases, f \in Phases, b \in Phases :
          c = "compaction" /\ n = "navigation" /\ f = "admission_fence" /\ b = "prompt_fence"
  BY DEF Phases
<1>4. CASE Compacting(w)
  BY <1>2, <1>3, <1>4 DEF Admitted
<1>5. CASE ~Compacting(w) /\ Navigating(w)
  BY <1>2, <1>3, <1>5 DEF Admitted
<1>6. CASE ~Compacting(w) /\ ~Navigating(w) /\ Fenced(w)
  BY <1>2, <1>3, <1>6 DEF Admitted
<1>7. CASE ~Held(w) /\ BehindPrompt(w)
  <2>1. PICK x : x = InCustody(w, p, b)
    OBVIOUS
  <2>2. PICK y : y = [x EXCEPT !.auth.wakers = IF @ < MaxDrains THEN @ + 1 ELSE @]
    OBVIOUS
  <2>3. Becomes(y)
    BY <1>3, <1>7, <2>1, <2>2 DEF Admitted, Held
  <2>4. Good(x) /\ Kin(x, w)
    BY <1>1, <2>1
  <2>5. Good(y) /\ Kin(y, x)
    BY <2>2, <2>4, WakersKeeps
  <2> QED
    BY <2>3, <2>4, <2>5, QuietStep DEF Kin
<1>8. CASE ~Held(w) /\ ~BehindPrompt(w)
  <2>1. PICK job \in {"submit", "drained"} : job = "submit"
    OBVIOUS
  <2>2. ~w.adm[p].open /\ p \notin w.log.crossed
    BY NotSent
  <2>3. Ready(w, p, job)
    BY <1>8, <2>1, <2>2 DEF Ready, Held, Navigating, BehindPrompt
  <2>4. Becomes(Handed(w, p, job))
    BY <1>8, <2>1 DEF Admitted, Held
  <2> QED
    BY <1>8, <2>3, <2>4, HandStep
<1> QED
  BY <1>4, <1>5, <1>6, <1>7, <1>8 DEF Held

(* The job of another intent: it starts a compaction, a navigation or a    *)
(* transition, or is refused.                                              *)
LEMMA CompactionRuns ==
    ASSUME NEW w, Good(w), NEW i \in Compactions
    PROVE  LET v == [w EXCEPT !.comp.cmd = i, !.comp.seen = FALSE, !.auth.active[i] = "invoking"]
           IN  Good(v) /\ Kin(v, w)
<1>0. w \in Worlds /\ i \in Intents
  BY DEF Good, Typed, Intents
<1> DEFINE v == [w EXCEPT !.comp.cmd = i, !.comp.seen = FALSE, !.auth.active[i] = "invoking"]
<1>1. [w.comp EXCEPT !.cmd = i, !.seen = FALSE] \in Comps
  BY <1>0 DEF Worlds, Comps
<1>2. [w.auth EXCEPT !.active[i] = "invoking"] \in Auths
  BY <1>0 DEF Worlds, Auths, Activities
<1>3. v \in Worlds
  BY <1>0, <1>1, <1>2 DEF Worlds
<1>4. /\ v.sched = w.sched /\ v.nav = w.nav /\ v.adm = w.adm /\ v.pi = w.pi /\ v.log = w.log
      /\ v.auth = [w.auth EXCEPT !.active[i] = "invoking"]
  BY <1>0 DEF Worlds
<1> HIDE DEF v
<1>5. /\ v.auth.custody = w.auth.custody /\ v.auth.sequence = w.auth.sequence
      /\ v.auth.fence = w.auth.fence /\ v.auth.transition = w.auth.transition
      /\ v.auth.fatal = w.auth.fatal
  BY <1>0, <1>4 DEF Worlds, Auths
<1>6. Good(v) /\ Kin(v, w)
  BY <1>3, <1>4, <1>5, SameKeeps
<1> QED
  BY <1>6 DEF v

\* A navigation starts in a slot of its own: no prompt is being drained.
LEMMA NavigationRuns ==
    ASSUME NEW w, Good(w), w.sched.job = "none", w.auth.transition = "none", NEW i \in Navigations
    PROVE  LET v == [w EXCEPT !.auth.barrier = @ + 1, !.nav.now = i,
                              !.nav.barrier = w.auth.barrier + 1]
           IN  Good(v) /\ Kin(v, w)
<1>0. w \in Worlds
  BY DEF Good, Typed
<1> DEFINE barrier == w.auth.barrier + 1
           v == [w EXCEPT !.auth.barrier = barrier, !.nav.now = i, !.nav.barrier = barrier]
<1>1. barrier \in Nat
  BY <1>0 DEF Worlds, Auths
<1> HIDE DEF barrier
<1>2. [w.auth EXCEPT !.barrier = barrier] \in Auths
  BY <1>0, <1>1 DEF Worlds, Auths
<1>3. [w.nav EXCEPT !.now = i, !.barrier = barrier] \in Navs
  BY <1>0, <1>1 DEF Worlds, Navs
<1>4. v \in Worlds
  BY <1>0, <1>2, <1>3 DEF Worlds
<1>5. /\ v.sched = w.sched /\ v.adm = w.adm /\ v.pi = w.pi /\ v.log = w.log
      /\ v.auth = [w.auth EXCEPT !.barrier = barrier]
  BY <1>0 DEF Worlds
<1> HIDE DEF v
<1>6. /\ v.auth.custody = w.auth.custody /\ v.auth.sequence = w.auth.sequence
      /\ v.auth.fence = w.auth.fence /\ v.auth.transition = w.auth.transition
      /\ v.auth.fatal = w.auth.fatal
  BY <1>0, <1>5 DEF Worlds, Auths
<1>7. Typed(v)
  BY <1>4, <1>5 DEF Good, Typed
<1>8. Fresh(v) /\ Ordered(v) /\ Pending(v) /\ IdleFenced(v)
  BY <1>5, <1>6 DEF Good, Fresh, Ordered, Pending, IdleFenced
<1>9. HeadSent(v) /\ Alone(v) /\ Safe(v)
  BY <1>5, <1>6 DEF Good, HeadSent, Alone, Safe, Fifo, Whole
<1>10. Good(v) /\ Kin(v, w)
  BY <1>5, <1>7, <1>8, <1>9 DEF Good, Kin
<1> QED
  BY <1>10 DEF v, barrier

\* The permit is the whole of what a transition needs.
LEMMA ReloadRuns ==
    ASSUME NEW w, Good(w), w.sched.job = "none", NEW i \in Reloads, Permitted(w)
    PROVE  LET v == [w EXCEPT !.auth.transition = "prepare", !.sched.job = "reload",
                              !.sched.waits = i]
           IN  Good(v) /\ Kin(v, w)
<1>0. w \in Worlds /\ i \in Intents /\ i # None
  BY AdmissionAssumption DEF Good, Typed, Intents
<1> DEFINE v == [w EXCEPT !.auth.transition = "prepare", !.sched.job = "reload", !.sched.waits = i]
<1>1. [w.auth EXCEPT !.transition = "prepare"] \in Auths
  BY <1>0 DEF Worlds, Auths, Transitions
<1>2. [w.sched EXCEPT !.job = "reload", !.waits = i] \in Scheds
  BY <1>0 DEF Worlds, Scheds, Jobs
<1>3. v \in Worlds
  BY <1>0, <1>1, <1>2 DEF Worlds
<1>4. /\ v.nav = w.nav /\ v.adm = w.adm /\ v.pi = w.pi /\ v.log = w.log
      /\ v.auth = [w.auth EXCEPT !.transition = "prepare"]
      /\ v.sched = [w.sched EXCEPT !.job = "reload", !.waits = i]
  BY <1>0 DEF Worlds
<1> HIDE DEF v
<1>5. /\ v.auth.custody = w.auth.custody /\ v.auth.sequence = w.auth.sequence
      /\ v.auth.fence = w.auth.fence /\ v.auth.fatal = w.auth.fatal
      /\ v.sched.job = "reload" /\ v.sched.waits = i /\ v.sched.ingress = w.sched.ingress
  BY <1>0, <1>4 DEF Worlds, Auths, Scheds
<1>6. Typed(v)
  BY <1>0, <1>3, <1>5 DEF Typed
<1>7. Fresh(v) /\ Ordered(v) /\ Pending(v) /\ IdleFenced(v) /\ Safe(v)
  BY <1>4, <1>5 DEF Good, Fresh, Ordered, Pending, IdleFenced, Safe, Fifo, Whole
<1>8. HeadSent(v)
  BY <1>5 DEF HeadSent, Permitted
<1>9. Alone(v)
  BY <1>4, <1>5 DEF Alone, Permitted, Navigating, Unsettled
<1>10. Good(v) /\ Kin(v, w)
  BY <1>4, <1>6, <1>7, <1>8, <1>9 DEF Good, Kin
<1> QED
  BY <1>10 DEF v

\* The scheduler runs the first of ingress.
LEMMA RunIngressStep ==
    ASSUME AdmissionInv, RunIngress PROVE Step
<1>0. PICK u \in Worlds : /\ u = World /\ Good(u) /\ u.log = log /\ u.sched = sched /\ u.comp = comp
                          /\ u.nav = nav /\ u.adm = adm
  BY Here
<1>1. PICK w, i : w = Taken(u) /\ i = Head(u.sched.ingress)
  OBVIOUS
<1>2. u.sched.job = "none" /\ u.sched.ingress # <<>>
  BY <1>0 DEF RunIngress
<1>3. /\ Good(w) /\ i \in Intents
      /\ i \notin ToSet(w.log.kept) \cup ToSet(w.log.sent) /\ w.log.receipt[i] # "none"
      /\ \A j \in DOMAIN w.sched.ingress : w.sched.ingress[j] # i
      /\ w.sched.job = "none" /\ w.log = log /\ w.comp = comp /\ w.nav = nav /\ w.adm = adm
  <2>1. Good(u) /\ u.sched.ingress # <<>>
    BY <1>0, <1>2
  <2>2. /\ Good(w) /\ i \in Intents
        /\ i \notin ToSet(u.log.kept) \cup ToSet(u.log.sent) /\ u.log.receipt[i] # "none"
        /\ \A j \in DOMAIN w.sched.ingress : w.sched.ingress[j] # i
        /\ w.sched.job = u.sched.job /\ w.log = u.log /\ w.comp = u.comp /\ w.nav = u.nav
        /\ w.adm = u.adm
    BY <1>1, <2>1, TakenFromIngress
  <2> QED
    BY <1>0, <1>2, <2>2
<1>4. Becomes(IF w.auth.fatal \/ w.auth.transition # "none" \/ i \in w.auth.stale
              THEN SettledAs(w, i, "outcome_unknown")
              ELSE IF i \notin Prompts /\ Navigating(w) THEN SettledAs(w, i, "rejected")
              ELSE IF i \in Prompts THEN Admitted(w, i)
              ELSE Executed(w, i))
  BY <1>0, <1>1 DEF RunIngress, Taken
<1>5. ASSUME NEW result \in {"outcome_unknown", "rejected"}, Becomes(SettledAs(w, i, result))
      PROVE  Step
  <2>1. result \in Outcomes /\ result # "none"
    BY DEF Outcomes
  <2>2. Good(SettledAs(w, i, result)) /\ Kin(SettledAs(w, i, result), w)
    BY <1>3, <2>1, SettledKeeps
  <2> QED
    BY <1>3, <1>5, <2>2, QuietStep DEF Kin
<1>6. PICK lost \in {"outcome_unknown", "rejected"}, refused \in {"outcome_unknown", "rejected"} :
          lost = "outcome_unknown" /\ refused = "rejected"
  OBVIOUS
<1>7. CASE \/ w.auth.fatal \/ w.auth.transition # "none" \/ i \in w.auth.stale
           \/ i \notin Prompts /\ Navigating(w)
  BY <1>4, <1>5, <1>6, <1>7
<1>8. CASE w.auth.transition = "none" /\ i \in Prompts /\ Becomes(Admitted(w, i))
  BY <1>3, <1>8, AdmittedStep
<1>9. CASE w.auth.transition = "none" /\ i \notin Prompts /\ Becomes(Executed(w, i))
  <2>1. CASE i \in Compactions
    <3>1. PICK x : x = [w EXCEPT !.comp.cmd = i, !.comp.seen = FALSE, !.auth.active[i] = "invoking"]
      OBVIOUS
    <3>2. Executed(w, i) = x
      BY <2>1, <3>1, AdmissionAssumption DEF Executed
    <3>3. Good(x) /\ Kin(x, w)
      BY <1>3, <2>1, <3>1, CompactionRuns
    <3> QED
      BY <1>3, <1>9, <3>2, <3>3, QuietStep DEF Kin
  <2>2. CASE i \in Navigations
    <3>1. PICK x : x = [w EXCEPT !.auth.barrier = @ + 1, !.nav.now = i,
                                 !.nav.barrier = w.auth.barrier + 1]
      OBVIOUS
    <3>2. Executed(w, i) \in {x, SettledAs(w, i, refused)}
      BY <1>6, <2>2, <3>1, AdmissionAssumption DEF Executed
    <3>3. Good(x) /\ Kin(x, w)
      BY <1>3, <1>9, <2>2, <3>1, NavigationRuns
    <3> QED
      BY <1>3, <1>5, <1>9, <3>2, <3>3, QuietStep DEF Kin
  <2>3. CASE i \in Reloads
    <3>1. PICK x : x = [w EXCEPT !.auth.transition = "prepare", !.sched.job = "reload",
                                 !.sched.waits = i]
      OBVIOUS
    <3>2. Executed(w, i) = IF Permitted(w) THEN x ELSE SettledAs(w, i, refused)
      BY <1>6, <2>3, <3>1, AdmissionAssumption DEF Executed
    <3>3. Permitted(w) => Good(x) /\ Kin(x, w)
      BY <1>3, <2>3, <3>1, ReloadRuns
    <3> QED
      BY <1>3, <1>5, <1>9, <3>2, <3>3, QuietStep DEF Kin
  <2> QED
    BY <1>3, <1>9, <2>1, <2>2, <2>3 DEF Intents
<1> QED
  BY <1>4, <1>7, <1>8, <1>9

\* Nothing has been asked.
LEMMA InitGood == Init => AdmissionInv
<1> SUFFICES ASSUME Init PROVE AdmissionInv
  OBVIOUS
<1> DEFINE w == World
<1>0. /\ <<>> \in Seq(Intents) /\ <<>> \in Seq(Prompts) /\ DOMAIN <<>> = {} /\ ToSet(<<>>) = {}
      /\ 0 \in 0 .. MaxDrains
  <2>1. \A S : <<>> \in Seq(S)
    BY EmptySeq
  <2>2. DOMAIN <<>> = {}
    OBVIOUS
  <2>3. ToSet(<<>>) = {}
    BY <2>2 DEF ToSet
  <2>4. 0 \in 0 .. MaxDrains
    BY AdmissionAssumption
  <2> QED
    BY <2>1, <2>2, <2>3, <2>4
<1>1. w.sched = [ingress |-> <<>>, drains |-> 0, job |-> "none", waits |-> None] /\ w.sched \in Scheds
  BY <1>0 DEF Init, World, Scheds, Jobs
<1>2. /\ w.auth = [custody |-> {}, sequence |-> 0, active |-> [i \in Intents |-> "none"],
                   fence |-> None, wakers |-> 0, transition |-> "none", stale |-> {}, fatal |-> FALSE,
                   barrier |-> 0, escapes |-> 0]
      /\ w.auth \in Auths
  BY <1>0 DEF Init, World, Auths, Activities, Transitions
<1>3. /\ w.adm = [p \in Prompts |-> [open |-> FALSE, cancelled |-> FALSE, crossed |-> FALSE,
                                     late |-> FALSE, seen |-> FALSE]]
      /\ w.adm \in [Prompts -> Admissions]
  BY DEF Init, World, Admissions
<1>4. w.comp \in Comps
  BY DEF Init, World, Comps
<1>5. w.nav = [now |-> None, barrier |-> 0, shown |-> {}] /\ w.nav \in Navs
  BY DEF Init, World, Navs
<1>6. /\ w.pi = [streaming |-> FALSE, queue |-> <<>>, stage |-> [p \in Prompts |-> "none"]]
      /\ w.pi \in Pis
  BY <1>0 DEF Init, World, Pis, Stages
<1>7. /\ w.log = [receipt |-> [i \in Intents |-> "none"], outcome |-> [i \in Intents |-> "none"],
                  kept |-> <<>>, sent |-> <<>>, idle |-> {}, crossed |-> {}, ran |-> {},
                  unsent |-> {}, taken |-> {}]
      /\ w.log \in Logs
  BY <1>0 DEF Init, World, Logs, Receipts, Outcomes
<1>8. w \in Worlds
  BY <1>1, <1>2, <1>3, <1>4, <1>5, <1>6, <1>7 DEF World, Worlds
<1> HIDE DEF w
<1>9. Typed(w)
  BY <1>1, <1>8 DEF Typed
<1>10. Fresh(w)
  BY <1>0, <1>1, <1>7 DEF Fresh
<1>11. Ordered(w)
  BY <1>0, <1>2, <1>7, LenProperties DEF Ordered
<1>12. Pending(w)
  BY <1>0, <1>3, <1>6, <1>7 DEF Pending, Accepting
<1>13. IdleFenced(w) /\ HeadSent(w) /\ Alone(w)
  BY <1>1, <1>2, <1>7 DEF IdleFenced, HeadSent, Alone
<1>14. Safe(w)
  BY <1>0, <1>7 DEF Safe, Fifo, Whole
<1>15. Good(w)
  BY <1>9, <1>10, <1>11, <1>12, <1>13, <1>14 DEF Good
<1> QED
  BY <1>15 DEF AdmissionInv, Init, w

\* Every handler is right.
LEMMA NextStep ==
    ASSUME AdmissionInv, Next PROVE Step
<1>1. plan.asked \subseteq Intents
  BY AdmissionAssumption DEF AdmissionInv
<1>2. ASSUME NEW i \in plan.asked, Dispatch(i) PROVE Step
  BY <1>1, <1>2, DispatchStep
<1>3. ASSUME NEW p \in Prompts, Deadline(p) \/ Poll(p) PROVE Step
  BY <1>3, DeadlineStep, PollStep
<1>4. ASSUME NEW p \in Prompts, PiOf(p) PROVE Step
  BY <1>4, PiQueuesStep, PiHandlesStep, PiStartsStep, PiStreamsStep, PiSettlesStep, PiFailsStep
     DEF PiOf
<1>5. ASSUME NEW n \in Navigations, Acknowledge(n) PROVE Step
  BY <1>5, AcknowledgeStep
<1>6. CASE Escape
  BY <1>6, EscapeStep
<1>7. CASE Scheduler
  BY <1>7, RunIngressStep, RunDrainStep, DrainTurn, ResumeStep DEF Scheduler
<1>8. CASE PiTurn
  BY <1>8, PiDeliversStep, PiTurnEndsStep DEF PiTurn
<1>9. CASE Barriers
  BY <1>9, CompStartsStep, CompEndsStep, CompSettlesStep, NavEndsStep, ReloadCrossesStep,
     ReloadEndsStep DEF Barriers
<1> QED
  BY <1>2, <1>3, <1>4, <1>5, <1>6, <1>7, <1>8, <1>9 DEF Next

\* Every step keeps the invariant.
LEMMA AdmissionStep == AdmissionInv /\ [Next]_vars => AdmissionInv'
<1>1. ASSUME AdmissionInv, Next PROVE AdmissionInv'
  BY <1>1, NextStep DEF Step
<1>2. ASSUME AdmissionInv, UNCHANGED vars PROVE AdmissionInv'
  BY <1>2 DEF vars, AdmissionInv, World
<1> QED
  BY <1>1, <1>2

\* Its types are those of TypeOK, and Safe is what custody promises.
LEMMA InvGivesCustody == AdmissionInv => CustodyKept
<1> SUFFICES ASSUME AdmissionInv PROVE CustodyKept
  OBVIOUS
<1>0. PICK w \in Worlds : /\ w = World /\ Good(w) /\ w.sched = sched /\ w.auth = auth /\ w.adm = adm
                          /\ w.comp = comp /\ w.nav = nav /\ w.pi = pi /\ w.log = log
  BY Here
<1>1. TypeOK
  BY <1>0 DEF TypeOK, Good, Typed, Worlds, Scheds, Jobs, Auths, Items, Activities, Transitions,
              Admissions, Comps, Navs, Pis, Logs
<1>2. log.taken = {} => CustodyFifo /\ CustodyLosesNothing
  BY <1>0 DEF Good, Safe, Fifo, Whole, CustodyFifo, CustodyLosesNothing
<1> QED
  BY <1>1, <1>2 DEF CustodyKept

\* IdleFenced leaves one idle prompt, Alone the transition.
LEMMA InvGivesExclusive == AdmissionInv => Exclusive
<1> SUFFICES ASSUME AdmissionInv PROVE Exclusive
  OBVIOUS
<1>0. PICK w \in Worlds : /\ w = World /\ Good(w) /\ w.auth = auth /\ w.adm = adm /\ w.pi = pi
                          /\ w.log = log
  BY Here
<1>1. OneIdlePrompt
  BY <1>0 DEF OneIdlePrompt, Good, IdleFenced
<1>2. TransitionIsAlone
  BY <1>0 DEF TransitionIsAlone, Good, Alone
<1> QED
  BY <1>1, <1>2 DEF Exclusive

\* What runs was accepted, and what was accepted is not cancelled.
LEMMA InvGivesFinalEscape == AdmissionInv => CancelledNeverRuns
<1> SUFFICES ASSUME AdmissionInv PROVE CancelledNeverRuns
  OBVIOUS
<1>0. PICK w \in Worlds : w = World /\ Good(w) /\ w.auth = auth /\ w.adm = adm /\ w.log = log
  BY Here
<1> QED
  BY <1>0 DEF CancelledNeverRuns, Good, Pending

(* What a step may do, as the properties say it. *)
LEMMA StepIsRight ==
    AdmissionInv /\ [Next]_vars =>
        /\ [\A k \in (DOMAIN log'.sent) \ (DOMAIN log.sent) : log'.sent[k] \notin log.crossed]_vars
        /\ [log'.sent # log.sent =>
                ~comp.open /\ comp.cmd = None /\ nav.now = None /\ nav.shown = {}
                /\ \A p \in Prompts : ~(adm[p].open /\ adm[p].cancelled)]_vars
<1> DEFINE OnceMore == \A k \in (DOMAIN log'.sent) \ (DOMAIN log.sent) : log'.sent[k] \notin log.crossed
           WhenFree == log'.sent # log.sent =>
                           ~comp.open /\ comp.cmd = None /\ nav.now = None /\ nav.shown = {}
                           /\ \A p \in Prompts : ~(adm[p].open /\ adm[p].cancelled)
<1> SUFFICES ASSUME AdmissionInv, Next PROVE OnceMore /\ WhenFree
  OBVIOUS
<1>1. SentRightly
  BY NextStep DEF Step
<1>2. CASE log'.sent = log.sent
  BY <1>2
<1>3. ASSUME Free, NEW p \in Prompts, p \notin log.crossed, log'.sent = Append(log.sent, p)
      PROVE  OnceMore /\ WhenFree
  <2>1. log.sent \in Seq(Prompts)
    BY Here DEF Worlds, Logs
  <2>2. /\ DOMAIN log'.sent = 1 .. Len(log.sent) + 1 /\ DOMAIN log.sent = 1 .. Len(log.sent)
        /\ Len(log.sent) \in Nat /\ log'.sent[Len(log.sent) + 1] = p
    BY <1>3, <2>1, AppendFacts
  <2>3. OnceMore
    BY <1>3, <2>2
  <2>4. WhenFree
    BY <1>3 DEF Free
  <2> QED
    BY <2>3, <2>4
<1> HIDE DEF OnceMore, WhenFree
<1> QED
  BY <1>1, <1>2, <1>3 DEF SentRightly
-----------------------------------------------------------------------------
\* What custody takes it keeps, and sends in the order it took it, as long as no
\* compaction that fails takes back the prompt being drained (drainCustody,
\* restoreCustody).
THEOREM CustodyIsKept == Spec => []CustodyKept
<1>1. Init => AdmissionInv
  BY InitGood
<1>2. AdmissionInv /\ [Next]_vars => AdmissionInv'
  BY AdmissionStep
<1>3. AdmissionInv => CustodyKept
  BY InvGivesCustody
<1> QED
  BY <1>1, <1>2, <1>3, PTL DEF Spec

\* A prompt sent to an idle Pi is alone until it has settled, and so is the
\* transition of a reload (promptFence, lifecyclePermit).
THEOREM BarriersExclude == Spec => []Exclusive
<1>1. Init => AdmissionInv
  BY InitGood
<1>2. AdmissionInv /\ [Next]_vars => AdmissionInv'
  BY AdmissionStep
<1>3. AdmissionInv => Exclusive
  BY InvGivesExclusive
<1> QED
  BY <1>1, <1>2, <1>3, PTL DEF Spec

\* A prompt that Escape cancelled before Pi accepted it never runs; a prompt Pi
\* accepted is never sent again; and none is sent while a compaction, a
\* navigation, its presentation or a cancelled admission holds it back (admit,
\* drainCustody, requestEscape).
THEOREM PromptsAreHandedRightly == Spec => HandedRightly
<1>1. Init => AdmissionInv
  BY InitGood
<1>2. AdmissionInv /\ [Next]_vars => AdmissionInv'
  BY AdmissionStep
<1>3. AdmissionInv => CancelledNeverRuns
  BY InvGivesFinalEscape
<1> QED
  BY <1>1, <1>2, <1>3, StepIsRight, PTL DEF Spec, HandedRightly, AcceptedOnce, HandedWhenFree
=============================================================================
