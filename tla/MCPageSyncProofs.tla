--------------------------- MODULE MCPageSyncProofs ---------------------------
EXTENDS MCPageSync, TLAPS, FiniteSetTheorems

(***************************************************************************)
(* The branch that a navigation leads to is shown, for every plan and for  *)
(* every number of navigations and prompts: the safety of                  *)
(* NavigationPresentation (BranchShown), proved from an inductive          *)
(* invariant.                                                              *)
(*                                                                         *)
(* The properties themselves say nothing of what is on the wire, and a     *)
(* step that receives would break them from a state that cannot happen.    *)
(* The invariant adds why it cannot:                                       *)
(*   - the escrow holds at most one branch, the one the host is on, and    *)
(*     nothing runs while it holds one (Alone);                            *)
(*   - navigations are numbered in the order in which they are dispatched, *)
(*     run, told and shown (Numbered, OrderHost, OrderWire, OrderPage);    *)
(*   - the outcome of a navigation is told only after the page has shown   *)
(*     all that it was told of before (Told1, Told2);                      *)
(*   - what a page of this host waits for is shown, or still in the escrow *)
(*     (EscrowPage, EscrowWire), and a branch that left the escrow without *)
(*     being shown finds the page dirty, at its attach (Elsewhere);        *)
(*   - the events on the wire make up what the page is behind (Tally).     *)
(* An h is a host, an f a wire and a w a world: the page, its flight, its  *)
(* requests and the log.  Lemmas ...Keeps state that a step, or a part of  *)
(* one, keeps the invariant.                                               *)
(***************************************************************************)
ItemT == [nav : Nav!Navs, ready : BOOLEAN]
ShownT == [nav : Nav!Navs \cup {Nav!None}, events : Nat]
Kinds == {"outcome", "frame", "event", "attach", "lost"}
HostT == [epoch : Nat \ {0}, jobs : Seq(Nav!Navs), running : Nav!Navs \cup {Nav!None}, toSettle : Seq(Nav!Navs),
          pending : Seq(ItemT), acked : SUBSET Nav!Navs, outcomes : SUBSET Nav!Navs, held : Nat,
          truth : ShownT]
MessageT == [kind : Kinds, epoch : Nat \ {0}, nav : Nav!Navs \cup {Nav!None}, outcomes : SUBSET Nav!Navs,
             pending : Seq(Nav!Navs)]
PageT == [life : Nat, epoch : Nat, pending : Seq(Nav!Navs), outcomes : SUBSET Nav!Navs, shown : ShownT,
          dirty : BOOLEAN, done : SUBSET Nav!Navs, tasks : Nat, tries : [Nav!Navs -> 0..Nav!Retries],
          timers : SUBSET Nav!Navs]
FlightT == [pc : {"idle", "converting", "acking", "ackingOld", "acked", "ackedOld"},
            nav : Nav!Navs \cup {Nav!None}, olds : Seq(Nav!Navs), epoch : Nat, ok : BOOLEAN]
RequestT == [nav : Nav!Navs \cup {Nav!None}, epoch : Nat, life : Nat]
LogT == [may : Plans, navs : Nat, prompts : Nat, foreign : Nat, faults : Nat, fences : Nat,
         crashes : Nat, installed : SUBSET Nav!Navs]
WorldT == [page : PageT, flight : FlightT, sent : Seq(RequestT), log : LogT]

\* The navigations that a message tells of: at most one.
Told(m) == {n \in Nav!Navs : n = m.nav \/ \E i \in DOMAIN m.pending : n = m.pending[i]}
Waiting(w) == {n \in Nav!Navs : \E i \in DOMAIN w.page.pending : n = w.page.pending[i]}
MessageOK(m) ==
    /\ m.kind = "outcome" => m.nav # Nav!None
    /\ m.kind # "outcome" => m.nav = Nav!None
    /\ m.kind # "attach" => m.pending = <<>>
    /\ Len(m.pending) <= 1

Typed(h, f, w) ==
    /\ h \in HostT /\ f \in Seq(MessageT) /\ w \in WorldT
    /\ w.log.navs <= w.log.may.navs /\ w.log.prompts <= w.log.may.prompts
    /\ h.held <= w.log.prompts
    /\ \A n \in w.page.timers : w.page.tries[n] > 0
    /\ \A k \in DOMAIN f : MessageOK(f[k]) /\ f[k].epoch <= h.epoch
    /\ w.page.epoch <= h.epoch

\* The escrow holds at most the branch that the host is on.
Alone(h, w) ==
    /\ h.running # Nav!None => h.pending = <<>> /\ h.toSettle = <<>>
    /\ \/ h.toSettle = <<>> /\ h.pending = <<>>
       \/ h.truth.nav # Nav!None /\ h.toSettle = <<>> /\ h.pending = <<Nav!Item(h.truth.nav, TRUE)>>
       \/ h.truth.nav # Nav!None /\ h.toSettle = <<h.truth.nav>>
            /\ h.pending = <<Nav!Item(h.truth.nav, FALSE)>>

\* Navigations are numbered in the order in which they are dispatched, run,
\* told and shown.
Older(h, l, x) ==
    /\ \A i \in DOMAIN h.jobs : x < h.jobs[i]
    /\ h.running # Nav!None => x < h.running
    /\ h.truth.nav # Nav!None => x <= h.truth.nav
    /\ h.toSettle # <<>> => x < h.truth.nav
    /\ x <= l.navs
Numbered(h, l) ==
    /\ \A i \in DOMAIN h.jobs :
         h.jobs[i] > h.truth.nav /\ h.jobs[i] > h.running /\ h.jobs[i] <= l.navs
    /\ \A i, j \in DOMAIN h.jobs : i < j => h.jobs[i] < h.jobs[j]
    /\ h.running <= l.navs /\ h.truth.nav <= l.navs
    /\ h.running # Nav!None => h.running > h.truth.nav
Known(w) ==
    Waiting(w) \cup w.page.done \cup ({w.flight.nav} \cap Nav!Navs)
        \cup {n \in Nav!Navs : \E i \in DOMAIN w.sent : n = w.sent[i].nav}
OrderHost(h, f, w) ==
    /\ \A x \in Known(w) : Older(h, w.log, x)
    /\ \A k \in DOMAIN f : \A x \in Told(f[k]) : Older(h, w.log, x)
OrderWire(f) ==
    \A j, k \in DOMAIN f : \A x \in Told(f[j]), y \in Told(f[k]) :
        j < k => x <= y /\ (f[k].kind = "outcome" => x < y)
OrderPage(f, w) ==
    \A k \in DOMAIN f : \A x \in Known(w), y \in Told(f[k]) :
        x <= y /\ (f[k].kind = "outcome" => x < y)

PageOK(w) ==
    LET p == w.page IN
    /\ Len(p.pending) <= 2
    /\ Len(p.pending) = 2 => /\ p.pending[1] < p.pending[2]
                             /\ p.pending[1] \in p.done /\ p.pending[2] \notin p.done
    /\ p.shown.nav \in p.done \cup {Nav!None}
    /\ \A x \in p.done : x <= p.shown.nav
    /\ \A x \in p.done : \A y \in Waiting(w) : x <= y
    /\ p.done \subseteq w.log.installed

FlightOK(w) ==
    LET fl == w.flight IN
    /\ fl.pc # "idle" => fl.nav # Nav!None
    /\ fl.pc = "idle" => fl = Nav!NoFlight
    /\ fl.pc = "converting" =>
         /\ fl.nav \notin w.page.done
         /\ w.page.pending # <<>> /\ w.page.pending[Len(w.page.pending)] = fl.nav
                => Len(w.page.pending) = 1
    /\ fl.pc \in {"ackingOld", "ackedOld"} =>
         fl.olds = <<fl.nav>> /\ fl.nav \in w.page.done /\ \A x \in w.page.done : x <= fl.nav
    /\ fl.pc \in {"acking", "acked"} => fl.nav \in w.page.done

SentOK(f, w) ==
    /\ \A i \in DOMAIN w.sent :
        /\ w.sent[i].life <= w.page.life
        /\ w.sent[i].nav # Nav!None =>
             /\ w.sent[i].nav \in w.log.installed
             /\ w.sent[i].life = w.page.life => w.sent[i].nav \in w.page.done
        /\ w.sent[i].life < w.page.life =>
             /\ w.page.epoch = Nav!None /\ w.page.done = {} /\ w.page.dirty
             /\ \A k \in DOMAIN f : f[k].kind # "attach"
    /\ \A i, j \in DOMAIN w.sent : i < j => w.sent[i].life <= w.sent[j].life

\* An outcome is told only once the page has shown what was told before.
Told1(f, w) ==
    \A j, k \in DOMAIN f :
        f[k].kind = "outcome" /\ j < k /\ f[j].epoch = f[k].epoch => Told(f[j]) \subseteq w.page.done
Told2(f, w) ==
    \A k \in DOMAIN f :
        f[k].kind = "outcome" /\ w.page.epoch = f[k].epoch => Waiting(w) \subseteq w.page.done

InEscrow(h, x) == h.pending = <<Nav!Item(x, TRUE)>>
EscrowPage(h, w) ==
    /\ w.page.epoch = h.epoch => \A x \in Waiting(w) : x \in w.page.done \/ InEscrow(h, x)
    /\ h.truth.nav # Nav!None /\ w.page.epoch \notin {Nav!None, h.epoch} => h.truth.nav \notin Waiting(w)
EscrowWire(h, f, w) ==
    \A k \in DOMAIN f :
        /\ f[k].epoch = h.epoch => \A x \in Told(f[k]) : x \in w.page.done \/ InEscrow(h, x)
        /\ h.truth.nav # Nav!None /\ f[k].epoch # h.epoch => h.truth.nav \notin Told(f[k])

Unshown(h, w) ==
    h.truth.nav # Nav!None /\ h.truth.nav \notin w.log.installed
        => h.truth.events <= w.log.foreign /\ h.pending # <<>>
Elsewhere(h, f, w) ==
    h.truth.nav # Nav!None /\ h.truth.nav \notin w.page.done /\ h.pending = <<>> =>
        /\ w.page.dirty /\ w.page.epoch \in {Nav!None, h.epoch}
        /\ \A k \in DOMAIN f : f[k].kind = "attach" => f[k].epoch = h.epoch

\* From a to b by the events of a wire.
Counts(f, a, b) ==
    \E c \in [0..Len(f) -> Nat] :
        /\ c[0] = a /\ c[Len(f)] = b
        /\ \A k \in 1..Len(f) : c[k] = IF f[k].kind = "event" THEN c[k - 1] + 1 ELSE c[k - 1]
NoEventAfter(h, f) ==
    \A j, k \in DOMAIN f : h.truth.nav \in Told(f[k]) /\ k < j => f[j].kind # "event"
Tally(h, f, w) ==
    w.log.foreign = 0 =>
        /\ h.truth.nav \in w.page.done /\ ~w.page.dirty
             => Counts(f, w.page.shown.events, h.truth.events)
        /\ h.pending # <<>> =>
             /\ h.truth.events = 0 /\ NoEventAfter(h, f)
             /\ h.truth.nav \in Waiting(w) => \A j \in DOMAIN f : f[j].kind # "event"

Inv(h, f, w) ==
    /\ Typed(h, f, w) /\ Alone(h, w) /\ Numbered(h, w.log)
    /\ OrderHost(h, f, w) /\ OrderWire(f) /\ OrderPage(f, w)
    /\ PageOK(w) /\ FlightOK(w) /\ SentOK(f, w)
    /\ Told1(f, w) /\ Told2(f, w) /\ EscrowPage(h, w) /\ EscrowWire(h, f, w)
    /\ Unshown(h, w) /\ Elsewhere(h, f, w) /\ Tally(h, f, w)
IInv == Inv(host, feed, Nav!World)

\* The invariant of a world that shows the same as another.
Stays(h, f, w, v) == Inv(h, f, v) /\ v.page.shown = w.page.shown

\* Lists of two at most.
LEMMA ShortList ==
  ASSUME NEW S, NEW s \in Seq(S), Len(s) <= 2
  PROVE  /\ s = <<>> \/ (\E a \in S : s = <<a>>) \/ \E a, b \in S : s = <<a, b>>
         /\ Len(s) \in Nat /\ DOMAIN s = 1..Len(s) /\ \A i \in DOMAIN s : s[i] \in S
<1>1. Len(s) \in Nat /\ DOMAIN s = 1..Len(s) /\ \A i \in DOMAIN s : s[i] \in S
  OBVIOUS
<1>2. Len(s) = 0 \/ Len(s) = 1 \/ Len(s) = 2
  BY <1>1, \A n \in Nat : n <= 2 => n = 0 \/ n = 1 \/ n = 2
<1>3. CASE Len(s) = 0
  BY <1>1, <1>3
<1>4. CASE Len(s) = 1
  <2>1. s = <<s[1]>> /\ s[1] \in S
    BY <1>1, <1>4
  <2> QED
    BY <1>1, <2>1
<1>5. CASE Len(s) = 2
  <2>1. s = <<s[1], s[2]>> /\ s[1] \in S /\ s[2] \in S
    BY <1>1, <1>5
  <2> QED
    BY <1>1, <2>1
<1> QED
  BY <1>2, <1>3, <1>4, <1>5

\* A list of one.
LEMMA ShortOne ==
  ASSUME NEW S, NEW s \in Seq(S), s # <<>>, Len(s) <= 1
  PROVE  Len(s) = 1 /\ s[1] \in S /\ DOMAIN s = {1} /\ s = <<s[1]>>
<1>1. Len(s) \in Nat /\ Len(s) # 0
  OBVIOUS
<1>2. Len(s) = 1
  BY <1>1, \A n \in Nat : n <= 1 /\ n # 0 => n = 1
<1> QED
  BY <1>2

\* A list that grows.
LEMMA ShortAppend ==
  /\ \A a : Append(<<>>, a) = <<a>>
  /\ \A a, b : Append(<<a>>, b) = <<a, b>>
<1>1. ASSUME NEW a PROVE Append(<<>>, a) = <<a>>
  <2>1. <<>> \in Seq({a}) /\ Len(<<>>) = 0
    OBVIOUS
  <2> QED
    BY <2>1
<1>2. ASSUME NEW a, NEW b PROVE Append(<<a>>, b) = <<a, b>>
  <2> DEFINE s == Append(<<a>>, b)
  <2>1. <<a>> \in Seq({a, b}) /\ Len(<<a>>) = 1 /\ <<a>>[1] = a
    OBVIOUS
  <2>2. s \in Seq({a, b}) /\ Len(s) = 2 /\ s[1] = a /\ s[2] = b
    BY <2>1
  <2> HIDE DEF s
  <2>3. s = <<s[1], s[2]>>
    BY <2>2
  <2> QED
    BY <2>2, <2>3 DEF s
<1> QED
  BY <1>1, <1>2

\* A list without its last.
LEMMA ShortFront ==
  /\ \A a : Nav!Front(<<a>>) = <<>>
  /\ \A a, b : Nav!Front(<<a, b>>) = <<a>>
<1>1. ASSUME NEW a PROVE Nav!Front(<<a>>) = <<>>
  <2>1. <<a>> \in Seq({a}) /\ Len(<<a>>) = 1
    OBVIOUS
  <2>2. SubSeq(<<a>>, 1, 0) \in Seq({a}) /\ Len(SubSeq(<<a>>, 1, 0)) = 0
    BY <2>1
  <2> QED
    BY <2>1, <2>2 DEF Nav!Front
<1>2. ASSUME NEW a, NEW b PROVE Nav!Front(<<a, b>>) = <<a>>
  <2> DEFINE s == SubSeq(<<a, b>>, 1, 1)
  <2>1. <<a, b>> \in Seq({a, b}) /\ Len(<<a, b>>) = 2 /\ <<a, b>>[1] = a
    OBVIOUS
  <2>2. s \in Seq({a, b}) /\ Len(s) = 1 /\ s[1] = a
    BY <2>1
  <2>3. Nav!Front(<<a, b>>) = s
    BY <2>1 DEF Nav!Front
  <2> HIDE DEF s
  <2>4. s = <<s[1]>>
    BY <2>2
  <2> QED
    BY <2>2, <2>3, <2>4
<1> QED
  BY <1>1, <1>2

\* The same, member by member.
LEMMA ShortPlaces ==
  /\ Len(<<>>) = 0 /\ DOMAIN <<>> = {}
  /\ \A a : Len(<<a>>) = 1 /\ DOMAIN <<a>> = {1} /\ <<a>>[1] = a
  /\ \A a, b : Len(<<a, b>>) = 2 /\ DOMAIN <<a, b>> = {1, 2} /\ <<a, b>>[1] = a /\ <<a, b>>[2] = b
OBVIOUS

-----------------------------------------------------------------------------
\* The module Nav counts as this one does.
LEMMA SameCardinality == \A S : Nav!Cardinality(S) = Cardinality(S)
BY DEF Nav!Cardinality, Cardinality

\* What is kept of a list at no place, at one place, and at two.
LEMMA KeptNone == ASSUME NEW s PROVE Nav!Kept(s, {}) = <<>>
<1>1. Nav!Cardinality({}) = 0
  BY FS_EmptySet, SameCardinality
<1>2. 1..0 = {}
  OBVIOUS
<1> QED
  BY <1>1, <1>2 DEF Nav!Kept

\* What Kept leaves of a list: one position.
LEMMA KeptOne == ASSUME NEW s, NEW k \in Nat PROVE Nav!Kept(s, {k}) = <<s[k]>>
<1>1. Nav!Cardinality({k}) = 1
  BY FS_Singleton, SameCardinality
<1>2. {j \in {k} : j <= k} = {k}
  OBVIOUS
<1>3. (CHOOSE i \in {k} : Nav!Cardinality({j \in {k} : j <= i}) = 1) = k
  BY <1>1, <1>2
<1>4. Nav!Kept(s, {k}) = [n \in 1..1 |-> s[CHOOSE i \in {k} : Nav!Cardinality({j \in {k} : j <= i}) = n]]
  BY <1>1 DEF Nav!Kept
<1> DEFINE place(n) == CHOOSE i \in {k} : Nav!Cardinality({j \in {k} : j <= i}) = n
<1>5. Nav!Kept(s, {k}) = [n \in 1..1 |-> s[place(n)]] /\ place(1) = k
  BY <1>3, <1>4
<1> HIDE DEF place
<1>6. ASSUME NEW n \in 1..1 PROVE s[place(n)] = s[k]
  <2>1. n = 1
    OBVIOUS
  <2> QED
    BY <1>5, <2>1
<1>7. [n \in 1..1 |-> s[place(n)]] = [n \in 1..1 |-> s[k]]
  BY <1>6
<1>8. [n \in 1..1 |-> s[k]] = <<s[k]>>
  OBVIOUS
<1> QED
  BY <1>5, <1>7, <1>8

\* What Kept leaves of a list: its first two positions.
LEMMA KeptBoth == ASSUME NEW s PROVE Nav!Kept(s, {1, 2}) = <<s[1], s[2]>>
<1> DEFINE at == {1, 2}
           place(n) == CHOOSE i \in at : Nav!Cardinality({j \in at : j <= i}) = n
<1>1. Nav!Cardinality({1}) = 1 /\ Nav!Cardinality(at) = 2
  <2>1. Cardinality({1}) = 1 /\ IsFiniteSet({1})
    BY FS_Singleton
  <2>2. at = {1} \cup {2} /\ 2 \notin {1}
    OBVIOUS
  <2> QED
    BY <2>1, <2>2, FS_AddElement, SameCardinality
<1>2. {j \in at : j <= 1} = {1} /\ {j \in at : j <= 2} = at
  OBVIOUS
<1>3. place(1) = 1 /\ place(2) = 2
  BY <1>1, <1>2
<1>4. Nav!Kept(s, at) = [n \in 1..2 |-> s[place(n)]]
  BY <1>1 DEF Nav!Kept
<1> HIDE DEF place
<1>5. ASSUME NEW n \in 1..2 PROVE s[place(n)] = IF n = 1 THEN s[1] ELSE s[2]
  <2>1. n = 1 \/ n = 2
    OBVIOUS
  <2> QED
    BY <1>3, <2>1
<1>6. [n \in 1..2 |-> s[place(n)]] = [n \in 1..2 |-> IF n = 1 THEN s[1] ELSE s[2]]
  BY <1>5
<1>7. [n \in 1..2 |-> IF n = 1 THEN s[1] ELSE s[2]] = <<s[1], s[2]>>
  OBVIOUS
<1> QED
  BY <1>4, <1>6, <1>7

\* The ready item of an escrow of one, and an escrow without an item.
LEMMA ReadyOne ==
  ASSUME NEW i \in ItemT
  PROVE  /\ Nav!Kept(<<i>>, {k \in DOMAIN <<i>> : <<i>>[k].ready}) = IF i.ready THEN <<i>> ELSE <<>>
         /\ Nav!Kept(<<>>, {k \in DOMAIN <<>> : <<>>[k].ready}) = <<>>
<1>1. DOMAIN <<i>> = {1} /\ <<i>>[1] = i /\ DOMAIN <<>> = {}
  OBVIOUS
<1>2. i.ready \in BOOLEAN
  BY DEF ItemT
<1>3. {k \in DOMAIN <<>> : <<>>[k].ready} = {}
  BY <1>1
<1>4. CASE i.ready
  <2>1. {k \in DOMAIN <<i>> : <<i>>[k].ready} = {1}
    BY <1>1, <1>4
  <2> QED
    BY <1>1, <1>3, <1>4, <2>1, KeptOne, KeptNone
<1>5. CASE ~i.ready
  <2>1. {k \in DOMAIN <<i>> : <<i>>[k].ready} = {}
    BY <1>1, <1>5
  <2> QED
    BY <1>3, <1>5, <2>1, KeptNone
<1> QED
  BY <1>2, <1>4, <1>5

\* An escrow of one item without a navigation: acknowledging drops its item.
LEMMA EscrowWithout ==
  ASSUME NEW i \in ItemT, NEW x
  PROVE  /\ Nav!Kept(<<i>>, {k \in DOMAIN <<i>> : <<i>>[k].nav # x}) = IF i.nav = x THEN <<>> ELSE <<i>>
         /\ Nav!Kept(<<>>, {k \in DOMAIN <<>> : <<>>[k].nav # x}) = <<>>
<1>1. DOMAIN <<i>> = {1} /\ <<i>>[1] = i /\ DOMAIN <<>> = {}
  OBVIOUS
<1>3. {k \in DOMAIN <<>> : <<>>[k].nav # x} = {}
  BY <1>1
<1>4. CASE i.nav # x
  <2>1. {k \in DOMAIN <<i>> : <<i>>[k].nav # x} = {1}
    BY <1>1, <1>4
  <2> QED
    BY <1>1, <1>3, <1>4, <2>1, KeptOne, KeptNone
<1>5. CASE i.nav = x
  <2>1. {k \in DOMAIN <<i>> : <<i>>[k].nav # x} = {}
    BY <1>1, <1>5
  <2> QED
    BY <1>3, <1>5, <2>1, KeptNone
<1> QED
  BY <1>4, <1>5

\* Counting along a wire that grows, is received, or brings no event.
LEMMA CountsAppend ==
  ASSUME NEW f \in Seq(MessageT), NEW m \in MessageT, NEW a \in Nat, NEW b \in Nat, Counts(f, a, b)
  PROVE  Counts(Append(f, m), a, IF m.kind = "event" THEN b + 1 ELSE b)
<1> DEFINE n == Len(f)
           e == IF m.kind = "event" THEN b + 1 ELSE b
<1>1. PICK c \in [0..n -> Nat] : /\ c[0] = a /\ c[n] = b
        /\ \A k \in 1..n : c[k] = IF f[k].kind = "event" THEN c[k - 1] + 1 ELSE c[k - 1]
  BY DEF Counts
<1> DEFINE d == [k \in 0..(n + 1) |-> IF k = n + 1 THEN e ELSE c[k]]
<1>2. n \in Nat /\ Len(Append(f, m)) = n + 1 /\ e \in Nat
  OBVIOUS
<1>3. \A k \in 1..n : Append(f, m)[k] = f[k]
  OBVIOUS
<1>4. Append(f, m)[n + 1] = m
  OBVIOUS
<1>5. d \in [0..(n + 1) -> Nat] /\ d[0] = a /\ d[n + 1] = e
  BY <1>1, <1>2
<1>6. ASSUME NEW k \in 1..(n + 1)
      PROVE  d[k] = IF Append(f, m)[k].kind = "event" THEN d[k - 1] + 1 ELSE d[k - 1]
  <2>1. CASE k = n + 1
    BY <1>1, <1>2, <1>4, <2>1
  <2>2. CASE k # n + 1
    BY <1>1, <1>2, <1>3, <2>2
  <2> QED
    BY <2>1, <2>2
<1> HIDE DEF d, e
<1> QED
  BY <1>2, <1>5, <1>6 DEF Counts, e

\* Once the first message is received, the rest of the wire counts on from there.
LEMMA CountsTail ==
  ASSUME NEW f \in Seq(MessageT), f # <<>>, NEW a \in Nat, NEW b \in Nat, Counts(f, a, b)
  PROVE  Counts(Tail(f), IF Head(f).kind = "event" THEN a + 1 ELSE a, b)
<1> DEFINE n == Len(f)
<1>1. PICK c \in [0..n -> Nat] : /\ c[0] = a /\ c[n] = b
        /\ \A k \in 1..n : c[k] = IF f[k].kind = "event" THEN c[k - 1] + 1 ELSE c[k - 1]
  BY DEF Counts
<1> DEFINE d == [k \in 0..(n - 1) |-> c[k + 1]]
<1>2. n \in Nat /\ n >= 1 /\ Len(Tail(f)) = n - 1 /\ Head(f) = f[1]
  OBVIOUS
<1>3. \A k \in 1..(n - 1) : Tail(f)[k] = f[k + 1]
  OBVIOUS
<1>4. c[1] = IF f[1].kind = "event" THEN a + 1 ELSE a
  BY <1>1, <1>2
<1>5. d \in [0..(n - 1) -> Nat] /\ d[0] = c[1] /\ d[n - 1] = b
  BY <1>1, <1>2
<1>6. ASSUME NEW k \in 1..(n - 1)
      PROVE  d[k] = IF Tail(f)[k].kind = "event" THEN d[k - 1] + 1 ELSE d[k - 1]
  <2>1. d[k] = c[k + 1] /\ d[k - 1] = c[k] /\ k + 1 \in 1..n /\ (k + 1) - 1 = k
    BY <1>2
  <2> QED
    BY <1>1, <1>3, <2>1
<1> HIDE DEF d
<1> QED
  BY <1>2, <1>4, <1>5, <1>6 DEF Counts

\* A wire without events leaves the count where it is.
LEMMA CountsNothing ==
  ASSUME NEW f \in Seq(MessageT), NEW a \in Nat, \A j \in DOMAIN f : f[j].kind # "event"
  PROVE  Counts(f, a, a)
<1> DEFINE c == [k \in 0..Len(f) |-> a]
<1>1. c \in [0..Len(f) -> Nat] /\ c[0] = a /\ c[Len(f)] = a
  OBVIOUS
<1>2. \A k \in 1..Len(f) : c[k] = IF f[k].kind = "event" THEN c[k - 1] + 1 ELSE c[k - 1]
  OBVIOUS
<1> QED
  BY <1>1, <1>2 DEF Counts

\* An empty wire leaves nothing between the page and the host.
LEMMA CountsEmpty ==
  ASSUME NEW a, NEW b, Counts(<<>>, a, b) PROVE a = b
BY DEF Counts

\* A short list without one of its members, list by list.
LEMMA WithoutShort ==
  ASSUME NEW S, NEW x
  PROVE  /\ Nav!Without(<<>>, x) = <<>>
         /\ \A a \in S : Nav!Without(<<a>>, x) = IF a = x THEN <<>> ELSE <<a>>
         /\ \A a, b \in S : a # b =>
              Nav!Without(<<a, b>>, x) = IF a = x THEN <<b>> ELSE IF b = x THEN <<a>> ELSE <<a, b>>
<1>1. Nav!Without(<<>>, x) = <<>>
  <2>1. {i \in DOMAIN <<>> : <<>>[i] # x} = {}
    BY ShortPlaces
  <2> QED
    BY <2>1, KeptNone DEF Nav!Without
<1>2. ASSUME NEW a \in S PROVE Nav!Without(<<a>>, x) = IF a = x THEN <<>> ELSE <<a>>
  <2> DEFINE s == <<a>>
             at == {i \in DOMAIN s : s[i] # x}
  <2>1. DOMAIN s = {1} /\ s[1] = a /\ Nav!Without(s, x) = Nav!Kept(s, at)
    BY DEF Nav!Without
  <2> HIDE DEF s
  <2>2. CASE a = x
    <3>1. at = {}
      BY <2>1, <2>2
    <3> HIDE DEF at
    <3> QED
      BY <2>1, <2>2, <3>1, KeptNone DEF s
  <2>3. CASE a # x
    <3>1. at = {1}
      BY <2>1, <2>3
    <3> HIDE DEF at
    <3>2. Nav!Kept(s, {1}) = <<s[1]>>
      BY KeptOne
    <3> QED
      BY <2>1, <2>3, <3>1, <3>2 DEF s
  <2> QED
    BY <2>2, <2>3
<1>3. ASSUME NEW a \in S, NEW b \in S, a # b
      PROVE  Nav!Without(<<a, b>>, x) = IF a = x THEN <<b>> ELSE IF b = x THEN <<a>> ELSE <<a, b>>
  <2> DEFINE s == <<a, b>>
             at == {i \in DOMAIN s : s[i] # x}
  <2>1. DOMAIN s = {1, 2} /\ s[1] = a /\ s[2] = b /\ Nav!Without(s, x) = Nav!Kept(s, at)
    BY ShortPlaces DEF Nav!Without
  <2>2. Nav!Kept(s, {1}) = <<s[1]>> /\ Nav!Kept(s, {2}) = <<s[2]>> /\ Nav!Kept(s, {1, 2}) = <<s[1], s[2]>>
    BY KeptOne, KeptBoth
  <2> HIDE DEF s
  <2>3. CASE a = x
    <3>1. at = {2}
      BY <1>3, <2>1, <2>3
    <3> HIDE DEF at
    <3> QED
      BY <2>1, <2>2, <2>3, <3>1 DEF s
  <2>4. CASE b = x
    <3>1. at = {1}
      BY <1>3, <2>1, <2>4
    <3> HIDE DEF at
    <3>2. Nav!Without(s, x) = <<a>>
      BY <2>1, <2>2, <3>1
    <3> QED
      BY <1>3, <2>4, <3>2 DEF s
  <2>5. CASE a # x /\ b # x
    <3>1. at = {1, 2}
      BY <2>1, <2>5
    <3> HIDE DEF at
    <3> QED
      BY <2>1, <2>2, <2>5, <3>1 DEF s
  <2> QED
    BY <2>3, <2>4, <2>5
<1> QED
  BY <1>1, <1>2, <1>3

-----------------------------------------------------------------------------
\* A world in which the page knows no more, shows the same and follows the
\* same epoch or none, keeps the invariant if its flight and requests are right.
LEMMA Kin ==
  ASSUME NEW h, NEW f, NEW w, NEW v, Inv(h, f, w), v \in WorldT,
         v.page.done = w.page.done, v.page.shown = w.page.shown, v.page.dirty = w.page.dirty,
         Waiting(v) \subseteq Waiting(w), v.page.epoch \in {w.page.epoch, Nav!None},
         v.log.installed = w.log.installed, v.log.foreign = w.log.foreign,
         v.log.navs = w.log.navs, v.log.prompts = w.log.prompts, v.log.may = w.log.may,
         \A n \in v.page.timers : v.page.tries[n] > 0,
         PageOK(v), FlightOK(v), SentOK(f, v), Known(v) \subseteq Known(w)
  PROVE  Inv(h, f, v)
<1> USE DEF Inv
<1>0. /\ h \in HostT /\ h.epoch \in Nat /\ h.epoch # 0 /\ w.page.epoch \in Nat /\ Nav!None = 0
      /\ \A k \in DOMAIN f : f[k].epoch \in Nat /\ f[k].epoch # 0
  <2>1. h \in HostT /\ w \in WorldT /\ \A k \in DOMAIN f : f[k] \in MessageT
    BY DEF Typed
  <2>2. \A k \in DOMAIN f : f[k].epoch \in Nat /\ f[k].epoch # 0
    BY <2>1 DEF MessageT
  <2>3. h.epoch \in Nat /\ h.epoch # 0
    BY <2>1 DEF HostT
  <2> QED
    BY <2>1, <2>2, <2>3 DEF WorldT, PageT, Nav!None
<1>1. Typed(h, f, v)
  BY <1>0 DEF Typed
<1>2. Alone(h, v) /\ Numbered(h, v.log) /\ OrderWire(f) /\ Told1(f, v) /\ EscrowWire(h, f, v)
  BY DEF Alone, Numbered, Told1, EscrowWire
<1>3. OrderHost(h, f, v)
  BY DEF OrderHost, Older
<1>4. OrderPage(f, v)
  BY DEF OrderPage
<1>5. Told2(f, v)
  BY <1>0 DEF Told2
<1>6. EscrowPage(h, v)
  BY <1>0 DEF EscrowPage
<1>7. Unshown(h, v) /\ Elsewhere(h, f, v)
  BY DEF Unshown, Elsewhere
<1>8. Tally(h, f, v)
  BY DEF Tally
<1> QED
  BY <1>1, <1>2, <1>3, <1>4, <1>5, <1>6, <1>7, <1>8

\* The same, when the flight and the requests are the same too.
LEMMA Twin ==
  ASSUME NEW h, NEW f, NEW w, NEW v, Inv(h, f, w), v \in WorldT,
         v.page.done = w.page.done, v.page.shown = w.page.shown, v.page.dirty = w.page.dirty,
         v.page.pending = w.page.pending, v.page.epoch = w.page.epoch,
         v.page.life = w.page.life, v.flight = w.flight, v.sent = w.sent,
         v.log.installed = w.log.installed, v.log.foreign = w.log.foreign,
         v.log.navs = w.log.navs, v.log.prompts = w.log.prompts, v.log.may = w.log.may,
         \A n \in v.page.timers : v.page.tries[n] > 0
  PROVE  Inv(h, f, v)
<1>1. Waiting(v) = Waiting(w) /\ Known(v) = Known(w)
  BY DEF Waiting, Known
<1>2. PageOK(v) /\ FlightOK(v) /\ SentOK(f, v)
  BY <1>1 DEF Inv, PageOK, FlightOK, SentOK
<1> QED
  BY <1>1, <1>2, Kin

\* What the type of a world says of its parts.
LEMMA WorldTypes ==
  ASSUME NEW w \in WorldT
  PROVE  /\ w.page \in PageT /\ w.flight \in FlightT /\ w.sent \in Seq(RequestT) /\ w.log \in LogT
         /\ w.page.life \in Nat /\ w.page.epoch \in Nat /\ w.page.pending \in Seq(Nav!Navs)
         /\ w.page.outcomes \subseteq Nav!Navs /\ w.page.dirty \in BOOLEAN
         /\ w.page.done \subseteq Nav!Navs /\ w.page.tasks \in Nat
         /\ w.page.tries \in [Nav!Navs -> 0..Nav!Retries] /\ w.page.timers \subseteq Nav!Navs
         /\ w.page.shown \in ShownT /\ w.page.shown.nav \in Nav!Navs \cup {Nav!None}
         /\ w.page.shown.events \in Nat
         /\ w.flight.nav \in Nav!Navs \cup {Nav!None} /\ w.flight.olds \in Seq(Nav!Navs)
         /\ w.flight.epoch \in Nat /\ w.flight.ok \in BOOLEAN
         /\ w.log.may \in Plans /\ w.log.installed \subseteq Nav!Navs /\ w.log.navs \in Nat
         /\ w.log.prompts \in Nat /\ w.log.foreign \in Nat /\ w.log.faults \in Nat
         /\ w.log.fences \in Nat /\ w.log.crashes \in Nat
         /\ w = [page |-> w.page, flight |-> w.flight, sent |-> w.sent, log |-> w.log]
BY DEF WorldT, PageT, FlightT, LogT, ShownT

\* Navigations are the numbers from 1, None is 0, and a presentation is
\* retried three times (NAVIGATION_PRESENTATION_RETRY).
LEMMA NavsAreNumbers == Nav!Navs \subseteq Nat \ {0} /\ Nav!None = 0 /\ Nav!None \notin Nav!Navs /\ Nav!Navs = 1..MaxNavs /\ Nav!Retries = 3
BY NavAssumption DEF Nav!Navs, Nav!None, Nav!Retries

\* A task, a timer, a try: the bookkeeping of reconciliations.
LEMMA ReconcilingKeeps ==
  ASSUME NEW h, NEW f, NEW w, Inv(h, f, w) PROVE Stays(h, f, w, Nav!Reconciling(w))
<1> DEFINE v == Nav!Reconciling(w)
<1>1. w \in WorldT
  BY DEF Inv, Typed
<1>2. /\ v \in WorldT /\ v.page.done = w.page.done /\ v.page.shown = w.page.shown
      /\ v.page.dirty = w.page.dirty /\ v.page.pending = w.page.pending
      /\ v.page.epoch = w.page.epoch /\ v.page.life = w.page.life /\ v.flight = w.flight
      /\ v.sent = w.sent /\ v.log = w.log /\ v.page.timers = w.page.timers
      /\ v.page.tries = w.page.tries
  <2> DEFINE tasks == IF w.page.tasks < 2 THEN w.page.tasks + 1 ELSE w.page.tasks
  <2>1. tasks \in Nat
    BY <1>1, WorldTypes
  <2>2. v = [w EXCEPT !.page = [w.page EXCEPT !.tasks = tasks]]
    BY <1>1 DEF Nav!Reconciling, WorldT, PageT
  <2> HIDE DEF v, tasks
  <2> QED
    BY <1>1, <2>1, <2>2 DEF WorldT, PageT
<1> HIDE DEF v
<1>3. \A n \in v.page.timers : v.page.tries[n] > 0
  BY <1>2 DEF Inv, Typed
<1>4. Inv(h, f, v)
  BY <1>2, <1>3, Twin
<1> QED
  BY <1>2, <1>4 DEF v, Stays

\* Dropping the timers and the retry counts of navigations keeps the invariant.
LEMMA ClearedKeeps ==
  ASSUME NEW h, NEW f, NEW w, Inv(h, f, w), NEW navs PROVE Stays(h, f, w, Nav!Cleared(w, navs))
<1> DEFINE v == Nav!Cleared(w, navs)
<1> DEFINE tries == [n \in Nav!Navs |-> IF n \in navs THEN 0 ELSE w.page.tries[n]]
<1>1. w \in WorldT /\ w.page.tries \in [Nav!Navs -> 0..3]
  BY WorldTypes, NavsAreNumbers DEF Inv, Typed
<1>0. tries \in [Nav!Navs -> 0..Nav!Retries]
  <2>1. ASSUME NEW n \in Nav!Navs PROVE (IF n \in navs THEN 0 ELSE w.page.tries[n]) \in 0..3
    BY <1>1
  <2> QED
    BY <2>1, NavsAreNumbers
<1>90. v = [w EXCEPT !.page = [w.page EXCEPT !.timers = w.page.timers \ navs, !.tries = tries]]
  BY <1>1 DEF Nav!Cleared, WorldT, PageT
<1> HIDE DEF v, tries
<1>2. /\ v \in WorldT /\ v.page.done = w.page.done /\ v.page.shown = w.page.shown
      /\ v.page.dirty = w.page.dirty /\ v.page.pending = w.page.pending
      /\ v.page.epoch = w.page.epoch /\ v.page.life = w.page.life /\ v.flight = w.flight
      /\ v.sent = w.sent /\ v.log = w.log /\ v.page.timers = w.page.timers \ navs
      /\ v.page.tries = tries
  BY <1>0, <1>1, <1>90 DEF WorldT, PageT
<1>3. \A n \in v.page.timers : v.page.tries[n] > 0
  BY <1>1, <1>2, WorldTypes DEF Inv, Typed, tries
<1>4. Inv(h, f, v)
  BY <1>2, <1>3, Twin
<1> QED
  BY <1>2, <1>4 DEF v, Stays

\* Arming a retry timer keeps the invariant: its count is not zero after that.
LEMMA RetriedKeeps ==
  ASSUME NEW h, NEW f, NEW w, Inv(h, f, w), NEW nav \in Nav!Navs PROVE Stays(h, f, w, Nav!Retried(w, nav))
<1> DEFINE v == Nav!Retried(w, nav)
<1>1. w \in WorldT
  BY DEF Inv, Typed
<1>2. CASE nav \in w.page.timers \/ w.page.tries[nav] >= Nav!Retries
  BY <1>2 DEF Nav!Retried, Stays
<1>3. CASE ~(nav \in w.page.timers \/ w.page.tries[nav] >= Nav!Retries)
  <2>90. w.page.tries \in [Nav!Navs -> 0..3]
    BY <1>1, WorldTypes, NavsAreNumbers
  <2>91. ~(w.page.tries[nav] >= 3)
    BY <1>3, NavsAreNumbers
  <2>92. w.page.tries[nav] \in 0..3
    BY <2>90
  <2>0. w.page.tries[nav] + 1 \in 0..Nav!Retries /\ w.page.tries[nav] + 1 > 0
    BY <2>91, <2>92, NavsAreNumbers
  <2>1. /\ v \in WorldT /\ v.page.done = w.page.done /\ v.page.shown = w.page.shown
        /\ v.page.dirty = w.page.dirty /\ v.page.pending = w.page.pending
        /\ v.page.epoch = w.page.epoch /\ v.page.life = w.page.life /\ v.flight = w.flight
        /\ v.sent = w.sent /\ v.log = w.log /\ v.page.timers = w.page.timers \cup {nav}
        /\ v.page.tries = [w.page.tries EXCEPT ![nav] = w.page.tries[nav] + 1]
    BY <1>1, <1>3, <2>0 DEF Nav!Retried, WorldT, PageT
  <2> HIDE DEF v
  <2>2. \A n \in v.page.timers : v.page.tries[n] > 0
    BY <2>90, <2>0, <2>1 DEF Inv, Typed
  <2>3. Inv(h, f, v)
    BY <2>1, <2>2, Twin
  <2> QED
    BY <2>1, <2>3 DEF v, Stays
<1> QED
  BY <1>2, <1>3

-----------------------------------------------------------------------------
\* A world that differs from another in its flight and in its bookkeeping.
Alike(u, w) ==
    /\ w \in WorldT /\ w.page.done = u.page.done /\ w.page.shown = u.page.shown
    /\ w.page.dirty = u.page.dirty /\ w.page.pending = u.page.pending
    /\ w.page.epoch = u.page.epoch /\ w.page.life = u.page.life /\ w.sent = u.sent
    /\ w.log.installed = u.log.installed /\ w.log.foreign = u.log.foreign
    /\ w.log.navs = u.log.navs /\ w.log.prompts = u.log.prompts /\ w.log.may = u.log.may
    /\ \A n \in w.page.timers : w.page.tries[n] > 0

\* The invariant survives a change of the flight alone, to a navigation that the
\* page waits for or has shown.
LEMMA Flown ==
  ASSUME NEW h, NEW f, NEW u, NEW v, Inv(h, f, u), Alike(u, v), FlightOK(v),
         v.flight.nav \in {Nav!None} \cup Waiting(u) \cup u.page.done
  PROVE  Inv(h, f, v)
<1>1. Waiting(v) = Waiting(u)
  BY DEF Waiting, Alike
<1>2. Known(v) \subseteq Known(u)
  BY <1>1, NavsAreNumbers DEF Known, Alike
<1>3. PageOK(v) /\ SentOK(f, v)
  BY <1>1 DEF Inv, PageOK, SentOK, Alike
<1> QED
  BY <1>1, <1>2, <1>3, Kin DEF Alike

\* A request for a branch that the page has shown.
LEMMA AckingKeeps ==
  ASSUME NEW h, NEW f, NEW u, NEW w, Inv(h, f, u), Alike(u, w), NEW nav \in w.page.done,
         NEW pc \in {"acking", "ackingOld"},
         pc = "ackingOld" => w.flight.olds = <<nav>> /\ \A x \in w.page.done : x <= nav
  PROVE  Stays(h, f, u, Nav!Acking(w, nav, pc))
<1> DEFINE r == Nav!Request(nav, w.flight.epoch, w.page.life)
           v == Nav!Acking(w, nav, pc)
           n == Len(w.sent)
<1>1. w \in WorldT /\ nav \in Nav!Navs /\ nav # Nav!None
  BY WorldTypes, NavsAreNumbers DEF Alike
<1>2. r \in RequestT /\ r.nav = nav /\ r.life = w.page.life
  BY <1>1, WorldTypes DEF Nav!Request, RequestT
<1> HIDE DEF r
<1>3. v = [w EXCEPT !.flight = [w.flight EXCEPT !.pc = pc, !.nav = nav], !.sent = Append(w.sent, r)]
  BY <1>1 DEF Nav!Acking, r, WorldT, FlightT
<1> HIDE DEF v
<1>4. /\ v \in WorldT /\ v.page = w.page /\ v.log = w.log /\ v.sent = Append(w.sent, r)
      /\ v.flight.pc = pc /\ v.flight.nav = nav /\ v.flight.olds = w.flight.olds
  <2>1. w.sent \in Seq(RequestT)
    BY <1>1, WorldTypes
  <2>2. Append(w.sent, r) \in Seq(RequestT)
    BY <1>2, <2>1
  <2> QED
    BY <1>1, <1>3, <2>2 DEF WorldT, FlightT
<1>5. Waiting(v) = Waiting(u)
  BY <1>4 DEF Waiting, Alike
<1>6. /\ n \in Nat /\ DOMAIN v.sent = 1..(n + 1) /\ DOMAIN w.sent = 1..n /\ v.sent[n + 1] = r
      /\ \A i \in 1..n : v.sent[i] = w.sent[i]
  BY <1>1, <1>2, <1>4, WorldTypes
<1>7. Known(v) \subseteq Known(u)
  <2> SUFFICES ASSUME NEW x \in Known(v) PROVE x \in Known(u)
    OBVIOUS
  <2>1. CASE x = nav
    BY <2>1 DEF Known, Alike
  <2>2. CASE x # nav
    <3>1. x \in Waiting(u) \/ x \in u.page.done \/ \E i \in DOMAIN v.sent : x = v.sent[i].nav
      BY <1>4, <1>5, <2>2 DEF Known, Alike
    <3>2. CASE \E i \in DOMAIN v.sent : x = v.sent[i].nav
      <4>1. \E i \in DOMAIN u.sent : x = u.sent[i].nav
        BY <1>2, <1>6, <2>2, <3>2 DEF Alike
      <4>2. x \in Nav!Navs
        BY <1>4, <1>1, WorldTypes DEF Known, Waiting
      <4> QED
        BY <4>1, <4>2 DEF Known
    <3> QED
      BY <3>1, <3>2 DEF Known
  <2> QED
    BY <2>1, <2>2
<1>8. PageOK(v)
  BY <1>4, <1>5 DEF Inv, PageOK, Alike
<1>9. FlightOK(v)
  BY <1>1, <1>4 DEF FlightOK
<1>10. SentOK(f, v)
  <2>1. SentOK(f, u) /\ PageOK(u)
    BY DEF Inv
  <2>2. nav \in u.log.installed /\ nav \in v.page.done
    BY <1>4, <2>1 DEF PageOK, Alike
  <2>3. /\ v.page.life = u.page.life /\ v.page.done = u.page.done /\ v.page.dirty = u.page.dirty
        /\ v.page.epoch = u.page.epoch /\ v.log.installed = u.log.installed /\ w.sent = u.sent
        /\ w.page.life = u.page.life /\ u.page.life \in Nat
    BY <1>1, <1>4, WorldTypes DEF Alike
  <2>4. ASSUME NEW i \in DOMAIN v.sent
        PROVE  /\ v.sent[i].life <= v.page.life
               /\ v.sent[i].nav # Nav!None =>
                    /\ v.sent[i].nav \in v.log.installed
                    /\ v.sent[i].life = v.page.life => v.sent[i].nav \in v.page.done
               /\ v.sent[i].life < v.page.life =>
                    /\ v.page.epoch = Nav!None /\ v.page.done = {} /\ v.page.dirty
                    /\ \A k \in DOMAIN f : f[k].kind # "attach"
    <3>1. CASE i = n + 1
      BY <1>2, <1>6, <2>2, <2>3, <3>1
    <3>2. CASE i \in 1..n
      BY <1>6, <2>1, <2>3, <3>2 DEF SentOK
    <3> QED
      BY <1>6, <3>1, <3>2
  <2>5. ASSUME NEW i \in DOMAIN v.sent, NEW j \in DOMAIN v.sent, i < j
        PROVE  v.sent[i].life <= v.sent[j].life
    <3>1. i \in 1..n
      BY <1>6, <2>5
    <3>2. CASE j = n + 1
      BY <1>2, <1>6, <2>1, <2>3, <3>1, <3>2 DEF SentOK
    <3>3. CASE j \in 1..n
      BY <1>6, <2>1, <2>3, <2>5, <3>1, <3>3 DEF SentOK
    <3> QED
      BY <1>6, <3>2, <3>3
  <2> QED
    BY <2>4, <2>5 DEF SentOK
<1>11. \A x \in v.page.timers : v.page.tries[x] > 0
  BY <1>4 DEF Alike
<1>12. Inv(h, f, v)
  BY <1>4, <1>5, <1>7, <1>8, <1>9, <1>10, <1>11, Kin DEF Alike
<1> QED
  BY <1>4, <1>12 DEF v, Stays, Alike

\* The end of a flight, from whatever it was about to do.
LEMMA OverAlike ==
  ASSUME NEW h, NEW f, NEW u, NEW w, Inv(h, f, u), Alike(u, w) PROVE Stays(h, f, u, Nav!Over(w))
<1> DEFINE v == Nav!Over(w)
<1>1. Nav!NoFlight \in FlightT
  BY DEF Nav!NoFlight, FlightT, Nav!None
<1>2. v \in WorldT /\ v.page = w.page /\ v.flight = Nav!NoFlight /\ v.sent = w.sent /\ v.log = w.log
  BY <1>1 DEF Nav!Over, WorldT, Alike
<1> HIDE DEF v
<1>3. Alike(u, v) /\ v.flight.nav = Nav!None
  BY <1>2 DEF Alike, Nav!NoFlight
<1>4. FlightOK(v)
  BY <1>2 DEF FlightOK, Nav!NoFlight
<1>5. Inv(h, f, v)
  BY <1>3, <1>4, Flown
<1> QED
  BY <1>3, <1>5 DEF v, Stays, Alike

\* The newest branch, when no older one waits with it.
LEMMA NewestKeeps ==
  ASSUME NEW h, NEW f, NEW u, NEW w, Inv(h, f, u), Alike(u, w), Len(w.page.pending) <= 1
  PROVE  Stays(h, f, u, Nav!Newest(w))
<1> DEFINE nav == Nav!Last(w.page.pending)
           at == [w EXCEPT !.page.timers = @ \ {nav}, !.flight.epoch = w.page.epoch]
           v == [at EXCEPT !.flight.pc = "converting", !.flight.nav = nav]
<1>1. w \in WorldT
  BY DEF Alike
<1>2. CASE ~Nav!Following(w) \/ w.page.pending = <<>>
  BY <1>2, OverAlike DEF Nav!Newest
<1>3. CASE Nav!Following(w) /\ w.page.pending # <<>>
  <2>1. /\ Len(w.page.pending) = 1 /\ nav = w.page.pending[1] /\ nav \in Nav!Navs
        /\ nav \in Waiting(u)
    <3>1. w.page.pending \in Seq(Nav!Navs)
      BY <1>1, WorldTypes
    <3>2. Len(w.page.pending) = 1
      BY <1>3, <3>1, ShortOne
    <3>3. nav = w.page.pending[1] /\ nav \in Nav!Navs /\ 1 \in DOMAIN w.page.pending
      BY <3>1, <3>2 DEF Nav!Last
    <3> QED
      BY <3>2, <3>3 DEF Waiting, Alike
  <2> HIDE DEF nav
  <2>2. at = [w EXCEPT !.page = [w.page EXCEPT !.timers = w.page.timers \ {nav}],
                       !.flight = [w.flight EXCEPT !.epoch = w.page.epoch]]
    BY <1>1 DEF WorldT, PageT, FlightT
  <2> HIDE DEF at
  <2>3. /\ at \in WorldT /\ at.page.done = w.page.done /\ at.page.shown = w.page.shown
        /\ at.page.dirty = w.page.dirty /\ at.page.pending = w.page.pending
        /\ at.page.epoch = w.page.epoch /\ at.page.life = w.page.life /\ at.sent = w.sent
        /\ at.log = w.log /\ at.page.timers \subseteq w.page.timers /\ at.page.tries = w.page.tries
    BY <1>1, <2>2 DEF WorldT, PageT, FlightT
  <2>4. Alike(u, at)
    BY <2>3 DEF Alike
  <2>5. CASE nav \in w.page.done
    <3>1. Nav!Newest(w) = Nav!Acking(at, nav, "acking")
      BY <1>3, <2>5 DEF Nav!Newest, at, nav
    <3> QED
      BY <2>3, <2>4, <2>5, <3>1, AckingKeeps
  <2>6. CASE nav \notin w.page.done
    <3>1. Nav!Newest(w) = v
      BY <1>3, <2>6 DEF Nav!Newest, at, nav
    <3>2. v = [at EXCEPT !.flight = [at.flight EXCEPT !.pc = "converting", !.nav = nav]]
      BY <2>3 DEF WorldT, FlightT
    <3> HIDE DEF v
    <3>3. /\ v \in WorldT /\ v.page = at.page /\ v.sent = at.sent /\ v.log = at.log
          /\ v.flight.pc = "converting" /\ v.flight.nav = nav
      BY <2>1, <2>3, <3>2 DEF WorldT, FlightT
    <3>4. Alike(u, v)
      BY <2>4, <3>3 DEF Alike
    <3>5. FlightOK(v)
      BY <2>1, <2>3, <2>6, <3>3, NavsAreNumbers DEF FlightOK
    <3>6. Inv(h, f, v)
      BY <2>1, <3>3, <3>4, <3>5, Flown
    <3> QED
      BY <3>1, <3>4, <3>6 DEF Stays, Alike
  <2> QED
    BY <2>5, <2>6
<1> QED
  BY <1>2, <1>3

\* The older branch is given back first.
LEMMA ProceededKeeps ==
  ASSUME NEW h, NEW f, NEW u, NEW w, Inv(h, f, u), Alike(u, w),
         \/ w.flight.olds = <<>> /\ Len(w.page.pending) <= 1
         \/ \E nav \in w.page.done : w.flight.olds = <<nav>> /\ \A x \in w.page.done : x <= nav
  PROVE  Stays(h, f, u, Nav!Proceeded(w))
<1>1. CASE w.flight.olds = <<>> /\ Len(w.page.pending) <= 1
  BY <1>1, NewestKeeps DEF Nav!Proceeded
<1>2. ASSUME NEW nav \in w.page.done, w.flight.olds = <<nav>>, \A x \in w.page.done : x <= nav
      PROVE  Stays(h, f, u, Nav!Proceeded(w))
  <2> DEFINE at == [w EXCEPT !.page.timers = @ \ {nav}]
  <2>1. Head(w.flight.olds) = nav /\ w.flight.olds # <<>> /\ w \in WorldT
    BY <1>2 DEF Alike
  <2>2. Nav!Proceeded(w) = Nav!Acking(at, nav, "ackingOld")
    BY <2>1 DEF Nav!Proceeded
  <2>3. at = [w EXCEPT !.page = [w.page EXCEPT !.timers = w.page.timers \ {nav}]]
    BY <2>1 DEF WorldT, PageT
  <2> HIDE DEF at
  <2>4. /\ at \in WorldT /\ at.page.done = w.page.done /\ at.page.shown = w.page.shown
        /\ at.page.dirty = w.page.dirty /\ at.page.pending = w.page.pending
        /\ at.page.epoch = w.page.epoch /\ at.page.life = w.page.life /\ at.sent = w.sent
        /\ at.log = w.log /\ at.page.timers \subseteq w.page.timers /\ at.page.tries = w.page.tries
        /\ at.flight = w.flight
    BY <2>1, <2>3 DEF WorldT, PageT
  <2>5. Alike(u, at)
    BY <2>4 DEF Alike
  <2> QED
    BY <1>2, <2>2, <2>4, <2>5, AckingKeeps
<1> QED
  BY <1>1, <1>2

\* The page loses its authority and asks for it.
LEMMA AskingKeeps ==
  ASSUME NEW h, NEW f, NEW w, Inv(h, f, w) PROVE Stays(h, f, w, Nav!Asking(w))
<1> DEFINE r == Nav!Attaching(w.page.life)
           v == Nav!Asking(w)
           n == Len(w.sent)
<1>1. w \in WorldT
  BY DEF Inv, Typed
<1>2. r \in RequestT /\ r.nav = Nav!None /\ r.life = w.page.life
  BY <1>1, WorldTypes, NavsAreNumbers DEF Nav!Attaching, Nav!Request, RequestT
<1> HIDE DEF r
<1>3. v = [w EXCEPT !.page = [w.page EXCEPT !.epoch = Nav!None], !.sent = Append(w.sent, r)]
  BY <1>1 DEF Nav!Asking, r, WorldT, PageT
<1> HIDE DEF v
<1>4. /\ v \in WorldT /\ v.page.done = w.page.done /\ v.page.shown = w.page.shown
      /\ v.page.dirty = w.page.dirty /\ v.page.pending = w.page.pending
      /\ v.page.life = w.page.life /\ v.page.timers = w.page.timers /\ v.page.tries = w.page.tries
      /\ v.page.epoch = Nav!None /\ v.log = w.log /\ v.sent = Append(w.sent, r) /\ v.flight = w.flight
  <2>1. w.sent \in Seq(RequestT)
    BY <1>1, WorldTypes
  <2>2. Append(w.sent, r) \in Seq(RequestT)
    BY <1>2, <2>1
  <2> QED
    BY <1>1, <1>3, <2>2, NavsAreNumbers DEF WorldT, PageT
<1>5. Waiting(v) = Waiting(w)
  BY <1>4 DEF Waiting
<1>6. /\ n \in Nat /\ DOMAIN v.sent = 1..(n + 1) /\ DOMAIN w.sent = 1..n /\ v.sent[n + 1] = r
      /\ \A i \in 1..n : v.sent[i] = w.sent[i]
  BY <1>1, <1>2, <1>4, WorldTypes
<1>7. Known(v) \subseteq Known(w)
  BY <1>2, <1>4, <1>5, <1>6, NavsAreNumbers DEF Known
<1>8. PageOK(v)
  BY <1>4, <1>5 DEF Inv, PageOK
<1>9. FlightOK(v)
  BY <1>4 DEF Inv, FlightOK
<1>10. SentOK(f, v)
  <2>1. SentOK(f, w) /\ w.page.life \in Nat
    BY <1>1, WorldTypes DEF Inv
  <2>4. ASSUME NEW i \in DOMAIN v.sent
        PROVE  /\ v.sent[i].life <= v.page.life
               /\ v.sent[i].nav # Nav!None =>
                    /\ v.sent[i].nav \in v.log.installed
                    /\ v.sent[i].life = v.page.life => v.sent[i].nav \in v.page.done
               /\ v.sent[i].life < v.page.life =>
                    /\ v.page.epoch = Nav!None /\ v.page.done = {} /\ v.page.dirty
                    /\ \A k \in DOMAIN f : f[k].kind # "attach"
    <3>1. CASE i = n + 1
      BY <1>2, <1>4, <1>6, <2>1, <3>1
    <3>2. CASE i \in 1..n
      BY <1>4, <1>6, <2>1, <3>2 DEF SentOK
    <3> QED
      BY <1>6, <3>1, <3>2
  <2>5. ASSUME NEW i \in DOMAIN v.sent, NEW j \in DOMAIN v.sent, i < j
        PROVE  v.sent[i].life <= v.sent[j].life
    <3>1. i \in 1..n
      BY <1>6, <2>5
    <3>2. CASE j = n + 1
      BY <1>2, <1>6, <2>1, <3>1, <3>2 DEF SentOK
    <3>3. CASE j \in 1..n
      BY <1>6, <2>1, <2>5, <3>1, <3>3 DEF SentOK
    <3> QED
      BY <1>6, <3>2, <3>3
  <2> QED
    BY <2>4, <2>5 DEF SentOK
<1>11. \A x \in v.page.timers : v.page.tries[x] > 0
  BY <1>4 DEF Inv, Typed
<1>12. Inv(h, f, v)
  BY <1>4, <1>5, <1>7, <1>8, <1>9, <1>10, <1>11, Kin
<1> QED
  BY <1>4, <1>12 DEF v, Stays

\* A branch that the host has released is no longer waited for.
LEMMA RetiredKeeps ==
  ASSUME NEW h, NEW f, NEW w, Inv(h, f, w), w.flight.pc \in {"acked", "ackedOld"}
  PROVE  /\ Stays(h, f, w, Nav!Retired(w, w.flight.nav))
         /\ w.flight.pc = "ackedOld" => Len(Nav!Retired(w, w.flight.nav).page.pending) <= 1
         /\ Nav!Retired(w, w.flight.nav).flight = w.flight
         /\ Nav!Retired(w, w.flight.nav).page.done = w.page.done
<1> DEFINE nav == w.flight.nav
           v == Nav!Retired(w, nav)
           s == w.page.pending
           t == Nav!Without(s, nav)
<1>1. w \in WorldT /\ s \in Seq(Nav!Navs) /\ Len(s) \in Nat
  BY WorldTypes DEF Inv, Typed
<1>2. /\ Len(s) <= 2
      /\ Len(s) = 2 => s[1] < s[2] /\ s[1] \in w.page.done /\ s[2] \notin w.page.done
  BY DEF Inv, PageOK
<1>3. /\ Len(s) = 2 => s[1] \in Nav!Navs /\ s[2] \in Nav!Navs /\ s[1] # s[2]
      /\ \/ s = <<>> /\ t = <<>>
         \/ \E a \in Nav!Navs : s = <<a>> /\ t = IF a = nav THEN <<>> ELSE <<a>>
         \/ \E a, b \in Nav!Navs :
              /\ s = <<a, b>>
              /\ t = IF a = nav THEN <<b>> ELSE IF b = nav THEN <<a>> ELSE <<a, b>>
  <2>1. s \in Seq(Nav!Navs) /\ Len(s) <= 2
    BY <1>1, <1>2
  <2>2. /\ s = <<>> \/ (\E a \in Nav!Navs : s = <<a>>) \/ \E a, b \in Nav!Navs : s = <<a, b>>
        /\ Len(s) = 2 => s[1] \in Nav!Navs /\ s[2] \in Nav!Navs
    BY <2>1, ShortList, ShortPlaces
  <2>3. Len(s) = 2 => s[1] # s[2]
    BY <1>2, <2>2, NavsAreNumbers
  <2>4. CASE s = <<>>
    BY <2>4, ShortPlaces, WithoutShort
  <2>5. CASE \E a \in Nav!Navs : s = <<a>>
    BY <2>5, ShortPlaces, WithoutShort
  <2>6. ASSUME NEW a \in Nav!Navs, NEW b \in Nav!Navs, s = <<a, b>>
        PROVE  t = IF a = nav THEN <<b>> ELSE IF b = nav THEN <<a>> ELSE <<a, b>>
    <3>1. a # b
      BY <2>3, <2>6, ShortPlaces
    <3> QED
      BY <2>6, <3>1, WithoutShort
  <2> HIDE DEF s, t
  <2> QED
    BY <2>2, <2>3, <2>4, <2>5, <2>6
<1>5. t \in Seq(Nav!Navs)
  <2>1. <<>> \in Seq(Nav!Navs) /\ \A a \in Nav!Navs : <<a>> \in Seq(Nav!Navs)
    OBVIOUS
  <2>2. \A a, b \in Nav!Navs : <<a, b>> \in Seq(Nav!Navs)
    OBVIOUS
  <2> HIDE DEF s, t
  <2> QED
    BY <1>3, <2>1, <2>2
<1>6. v = [w EXCEPT !.page = [w.page EXCEPT !.pending = t]]
  BY <1>1 DEF Nav!Retired, WorldT, PageT
<1> HIDE DEF v, t
<1>7. /\ v \in WorldT /\ v.page.done = w.page.done /\ v.page.shown = w.page.shown
      /\ v.page.dirty = w.page.dirty /\ v.page.pending = t /\ v.page.epoch = w.page.epoch
      /\ v.page.life = w.page.life /\ v.page.timers = w.page.timers /\ v.page.tries = w.page.tries
      /\ v.sent = w.sent /\ v.log = w.log /\ v.flight = w.flight
  BY <1>1, <1>5, <1>6 DEF WorldT, PageT
<1>8. Waiting(v) \subseteq Waiting(w)
  <2> SUFFICES ASSUME NEW x \in Nav!Navs, NEW i \in DOMAIN t, x = t[i]
               PROVE  \E j \in DOMAIN s : x = s[j]
    BY <1>7 DEF Waiting
  <2> HIDE DEF s
  <2> QED
    BY <1>3, ShortPlaces
<1>9. Known(v) \subseteq Known(w)
  BY <1>7, <1>8 DEF Known
<1>10. Len(t) <= 2 /\ (Len(t) = 2 => t = s) /\ (Len(t) = 2 => s[1] # nav)
  <2> HIDE DEF s
  <2>1. ASSUME s = <<>>, t = <<>> PROVE Len(t) = 0
    BY <2>1, ShortPlaces
  <2>2. ASSUME NEW a \in Nav!Navs, s = <<a>>, t = IF a = nav THEN <<>> ELSE <<a>>
        PROVE  Len(t) \in {0, 1}
    BY <2>2, ShortPlaces
  <2>3. ASSUME NEW a \in Nav!Navs, NEW b \in Nav!Navs, s = <<a, b>>,
               t = IF a = nav THEN <<b>> ELSE IF b = nav THEN <<a>> ELSE <<a, b>>
        PROVE  Len(t) = 1 \/ (t = s /\ Len(t) = 2 /\ s[1] # nav)
    BY <2>3, ShortPlaces
  <2>4. CASE s = <<>> /\ t = <<>>
    BY <2>1, <2>4
  <2>5. CASE \E a \in Nav!Navs : s = <<a>> /\ t = IF a = nav THEN <<>> ELSE <<a>>
    <3>1. Len(t) = 0 \/ Len(t) = 1
      BY <2>2, <2>5
    <3>2. Len(t) \in Nat /\ Len(t) <= 2 /\ Len(t) # 2
      <4> DEFINE k == Len(t)
      <4>1. k = 0 \/ k = 1
        BY <3>1
      <4> HIDE DEF k
      <4>2. k \in Nat /\ k <= 2 /\ k # 2
        BY <4>1
      <4> QED
        BY <4>2 DEF k
    <3> QED
      BY <3>2
  <2>6. CASE \E a, b \in Nav!Navs :
              /\ s = <<a, b>>
              /\ t = IF a = nav THEN <<b>> ELSE IF b = nav THEN <<a>> ELSE <<a, b>>
    <3>1. Len(t) = 1 \/ (t = s /\ Len(t) = 2 /\ s[1] # nav)
      BY <2>3, <2>6
    <3> DEFINE k == Len(t)
    <3>2. k = 1 \/ k = 2
      BY <3>1
    <3>3. k = 2 => t = s /\ s[1] # nav
      BY <3>1
    <3> HIDE DEF k
    <3>4. k <= 2
      BY <3>2
    <3> QED
      BY <3>3, <3>4 DEF k
  <2> QED
    BY <1>3, <2>4, <2>5, <2>6
<1>11. PageOK(v)
  BY <1>7, <1>8, <1>10 DEF Inv, PageOK
<1>12. FlightOK(v)
  BY <1>7 DEF Inv, FlightOK
<1>13. SentOK(f, v)
  BY <1>7 DEF Inv, SentOK
<1>14. \A x \in v.page.timers : v.page.tries[x] > 0
  BY <1>7 DEF Inv, Typed
<1>15. Inv(h, f, v)
  BY <1>7, <1>8, <1>9, <1>11, <1>12, <1>13, <1>14, Kin
<1>16. w.flight.pc = "ackedOld" => Len(t) <= 1
  <2> SUFFICES ASSUME w.flight.pc = "ackedOld", ~(Len(t) <= 1) PROVE FALSE
    OBVIOUS
  <2>90. Len(t) = 2
    <3>1. Len(t) \in Nat /\ Len(t) <= 2 /\ ~(Len(t) <= 1)
      BY <1>5, <1>10
    <3> QED
      BY <3>1, \A n \in Nat : n <= 2 /\ ~(n <= 1) => n = 2
  <2>0. Len(s) = 2 /\ s[1] # nav
    BY <1>10, <2>90
  <2>1. nav \in w.page.done /\ \A x \in w.page.done : x <= nav
    BY DEF Inv, FlightOK
  <2>3. s[1] \in Waiting(w) /\ s[1] \in w.page.done
    <3>1. 1 \in DOMAIN s
      BY <1>1, <2>0
    <3>2. s[1] \in w.page.done /\ s[1] \in Nav!Navs
      BY <1>2, <1>3, <2>0
    <3> QED
      BY <3>1, <3>2 DEF Waiting
  <2>4. nav <= s[1] /\ s[1] <= nav
    BY <2>1, <2>3 DEF Inv, PageOK
  <2>5. nav \in Nat /\ s[1] \in Nat
    BY <1>1, <2>1, <2>3, NavsAreNumbers, WorldTypes
  <2> QED
    BY <2>0, <2>4, <2>5
<1> QED
  BY <1>7, <1>15, <1>16 DEF v, Stays

-----------------------------------------------------------------------------
\* A wire after its first message.
LEMMA TailPlaces ==
  ASSUME NEW S, NEW f \in Seq(S), f # <<>>
  PROVE  /\ Tail(f) \in Seq(S) /\ 1 \in DOMAIN f /\ Head(f) = f[1]
         /\ \A k \in DOMAIN Tail(f) : k + 1 \in DOMAIN f /\ Tail(f)[k] = f[k + 1] /\ 1 < k + 1
         /\ \A j, k \in DOMAIN Tail(f) : j < k => j + 1 < k + 1
         /\ DOMAIN f \subseteq Nat
<1>1. Len(f) \in Nat /\ Len(f) # 0 /\ DOMAIN f = 1..Len(f)
  OBVIOUS
<1>2. Tail(f) \in Seq(S) /\ Len(Tail(f)) = Len(f) - 1 /\ DOMAIN Tail(f) = 1..(Len(f) - 1)
  BY <1>1
<1>3. \A k \in 1..(Len(f) - 1) : Tail(f)[k] = f[k + 1]
  OBVIOUS
<1> QED
  BY <1>1, <1>2, <1>3

\* What a message leaves behind it on the wire, all but the count of events.
Most(h, f, w) ==
    /\ Typed(h, f, w) /\ Alone(h, w) /\ Numbered(h, w.log)
    /\ OrderHost(h, f, w) /\ OrderWire(f) /\ OrderPage(f, w)
    /\ PageOK(w) /\ FlightOK(w) /\ SentOK(f, w)
    /\ Told1(f, w) /\ Told2(f, w) /\ EscrowPage(h, w) /\ EscrowWire(h, f, w)
    /\ Unshown(h, w) /\ Elsewhere(h, f, w)

\* Receiving a message keeps everything but the count of the events.
LEMMA TailMost ==
  ASSUME NEW h, NEW f, NEW w, Inv(h, f, w), f # <<>>
  PROVE  /\ Most(h, Tail(f), w)
         /\ NoEventAfter(h, f) => NoEventAfter(h, Tail(f))
         /\ (\A j \in DOMAIN f : f[j].kind # "event")
              => \A j \in DOMAIN Tail(f) : Tail(f)[j].kind # "event"
         /\ f \in Seq(MessageT) /\ Head(f) = f[1] /\ 1 \in DOMAIN f /\ f[1] \in MessageT
         /\ MessageOK(f[1])
         /\ \A k \in DOMAIN Tail(f) : k + 1 \in DOMAIN f /\ Tail(f)[k] = f[k + 1] /\ 1 < k + 1
<1> DEFINE g == Tail(f)
<1>1. f \in Seq(MessageT)
  BY DEF Inv, Typed
<1>2. /\ g \in Seq(MessageT) /\ 1 \in DOMAIN f /\ Head(f) = f[1]
      /\ \A k \in DOMAIN g : k + 1 \in DOMAIN f /\ g[k] = f[k + 1] /\ 1 < k + 1
      /\ \A j, k \in DOMAIN g : j < k => j + 1 < k + 1
  BY <1>1, TailPlaces
<1>3. f[1] \in MessageT /\ MessageOK(f[1])
  BY <1>1, <1>2 DEF Inv, Typed
<1> HIDE DEF g
<1>4. Typed(h, g, w)
  BY <1>2 DEF Inv, Typed
<1>5. OrderHost(h, g, w)
  BY <1>2 DEF Inv, OrderHost
<1>6. OrderWire(g)
  BY <1>2 DEF Inv, OrderWire
<1>7. OrderPage(g, w)
  BY <1>2 DEF Inv, OrderPage
<1>8. SentOK(g, w)
  BY <1>2 DEF Inv, SentOK
<1>9. Told1(g, w) /\ Told2(g, w)
  BY <1>2 DEF Inv, Told1, Told2
<1>10. EscrowWire(h, g, w) /\ Elsewhere(h, g, w)
  BY <1>2 DEF Inv, EscrowWire, Elsewhere
<1>11. Most(h, g, w)
  BY <1>4, <1>5, <1>6, <1>7, <1>8, <1>9, <1>10 DEF Most, Inv
<1>12. NoEventAfter(h, f) => NoEventAfter(h, g)
  BY <1>2 DEF NoEventAfter
<1>13. (\A j \in DOMAIN f : f[j].kind # "event") => \A j \in DOMAIN g : g[j].kind # "event"
  BY <1>2
<1> QED
  BY <1>1, <1>2, <1>3, <1>11, <1>12, <1>13 DEF g

\* A message that is no event leaves the count alone.
LEMMA TailTally ==
  ASSUME NEW h, NEW f, NEW w, Inv(h, f, w), f # <<>>
  PROVE  w.log.foreign = 0 =>
           /\ h.truth.nav \in w.page.done /\ ~w.page.dirty =>
                Counts(Tail(f), IF Head(f).kind = "event" THEN w.page.shown.events + 1
                                ELSE w.page.shown.events, h.truth.events)
           /\ h.pending # <<>> =>
                /\ h.truth.events = 0 /\ NoEventAfter(h, Tail(f))
                /\ h.truth.nav \in Waiting(w) \cup Told(Head(f)) =>
                     \A j \in DOMAIN Tail(f) : Tail(f)[j].kind # "event"
<1>1. Tally(h, f, w) /\ f \in Seq(MessageT) /\ w \in WorldT /\ h \in HostT
  BY DEF Inv, Typed
<1>2. w.page.shown.events \in Nat /\ h.truth.events \in Nat
  BY <1>1, WorldTypes DEF HostT, ShownT
<1> SUFFICES ASSUME w.log.foreign = 0
             PROVE  /\ h.truth.nav \in w.page.done /\ ~w.page.dirty =>
                         Counts(Tail(f), IF Head(f).kind = "event" THEN w.page.shown.events + 1
                                         ELSE w.page.shown.events, h.truth.events)
                    /\ h.pending # <<>> =>
                         /\ h.truth.events = 0 /\ NoEventAfter(h, Tail(f))
                         /\ h.truth.nav \in Waiting(w) \cup Told(Head(f)) =>
                              \A j \in DOMAIN Tail(f) : Tail(f)[j].kind # "event"
  OBVIOUS
<1>3. ASSUME h.truth.nav \in w.page.done, ~w.page.dirty
      PROVE  Counts(Tail(f), IF Head(f).kind = "event" THEN w.page.shown.events + 1
                             ELSE w.page.shown.events, h.truth.events)
  <2>1. Counts(f, w.page.shown.events, h.truth.events)
    BY <1>1, <1>3 DEF Tally
  <2> QED
    BY <1>1, <1>2, <2>1, CountsTail
<1>4. ASSUME h.pending # <<>>
      PROVE  h.truth.events = 0 /\ NoEventAfter(h, f)
  BY <1>1, <1>4 DEF Tally
<1>5. ASSUME h.pending # <<>>, h.truth.nav \in Waiting(w)
      PROVE  \A j \in DOMAIN f : f[j].kind # "event"
  BY <1>1, <1>5 DEF Tally
<1>6. ASSUME h.pending # <<>>, h.truth.nav \in Told(Head(f))
      PROVE  \A j \in DOMAIN Tail(f) : Tail(f)[j].kind # "event"
  BY <1>4, <1>6, TailMost DEF NoEventAfter
<1> QED
  BY <1>3, <1>4, <1>5, <1>6, TailMost

\* Receiving what is not an event keeps the invariant.
LEMMA TailQuiet ==
  ASSUME NEW h, NEW f, NEW w, Inv(h, f, w), f # <<>>, Head(f).kind # "event"
  PROVE  Inv(h, Tail(f), w)
<1>1. Tally(h, Tail(f), w)
  BY TailTally DEF Tally
<1> QED
  BY <1>1, TailMost DEF Most, Inv

\* What the page learns of a message, of the epoch that it follows from then on.
LEMMA LearnedKeeps ==
  ASSUME NEW h, NEW f, NEW w, NEW v, Inv(h, f, w), f # <<>>, v \in WorldT,
         Head(f).kind # "event", Head(f).kind = "attach" \/ w.page.epoch = Head(f).epoch,
         v.page.epoch = Head(f).epoch,
         Waiting(v) \subseteq Waiting(w) \cup Told(Head(f)),
         Waiting(v) \subseteq Told(Head(f)) \/ w.page.epoch = Head(f).epoch,
         v.page.done = w.page.done, v.page.shown = w.page.shown, v.page.dirty = w.page.dirty,
         v.page.life = w.page.life, v.page.timers = w.page.timers, v.page.tries = w.page.tries,
         v.flight = w.flight, v.sent = w.sent, v.log = w.log, PageOK(v), FlightOK(v)
  PROVE  Inv(h, Tail(f), v)
<1> DEFINE g == Tail(f)
           m == f[1]
<1>1. /\ f \in Seq(MessageT) /\ Head(f) = m /\ 1 \in DOMAIN f /\ m \in MessageT
      /\ \A k \in DOMAIN g : k + 1 \in DOMAIN f /\ g[k] = f[k + 1] /\ 1 < k + 1
  BY TailMost
<1>2. /\ h \in HostT /\ w \in WorldT /\ h.epoch \in Nat /\ h.epoch # 0 /\ w.page.epoch \in Nat
      /\ m.epoch \in Nat /\ m.epoch # 0 /\ Nav!None = 0 /\ m.epoch <= h.epoch
  <2>1. h \in HostT /\ w \in WorldT /\ m.epoch <= h.epoch
    BY <1>1 DEF Inv, Typed
  <2>2. m.epoch \in Nat /\ m.epoch # 0
    BY <1>1 DEF MessageT
  <2> QED
    BY <2>1, <2>2, WorldTypes, NavsAreNumbers DEF HostT
<1>3. Typed(h, g, w) /\ Alone(h, w) /\ Numbered(h, w.log) /\ OrderWire(g)
  BY TailMost DEF Most
<1>3a. OrderHost(h, g, w) /\ OrderPage(g, w) /\ SentOK(g, w) /\ Told1(g, w) /\ Told2(g, w)
  BY TailMost DEF Most
<1>3b. EscrowPage(h, w) /\ EscrowWire(h, g, w) /\ Unshown(h, w) /\ Elsewhere(h, g, w)
  BY TailMost DEF Most
<1> HIDE DEF g, m
<1>4. Known(v) \subseteq Known(w) \cup Told(m)
  BY <1>1 DEF Known
<1>5. Typed(h, g, v)
  BY <1>1, <1>2, <1>3 DEF Typed
<1>6. Alone(h, v) /\ Numbered(h, v.log) /\ Unshown(h, v)
  BY <1>3, <1>3b DEF Alone, Unshown
<1>7. OrderHost(h, g, v)
  <2>1. \A x \in Told(m) : Older(h, w.log, x)
    BY <1>1 DEF Inv, OrderHost, m
  <2> QED
    BY <1>3a, <1>4, <2>1 DEF OrderHost
<1>8. OrderPage(g, v)
  <2>1. \A k \in DOMAIN g : \A x \in Told(m), y \in Told(g[k]) :
          x <= y /\ (g[k].kind = "outcome" => x < y)
    BY <1>1 DEF Inv, OrderWire, m
  <2> QED
    BY <1>3a, <1>4, <2>1 DEF OrderPage
<1>9. SentOK(g, v)
  <2>1. \A i \in DOMAIN w.sent : ~(w.sent[i].life < w.page.life)
    <3>1. m.kind = "attach" \/ w.page.epoch # Nav!None
      BY <1>1, <1>2
    <3> QED
      BY <1>1, <3>1 DEF Inv, SentOK, m
  <2> QED
    BY <1>3a, <2>1 DEF SentOK
<1>10. Told1(g, v)
  BY <1>3a DEF Told1
<1>11. Told2(g, v)
  <2> SUFFICES ASSUME NEW k \in DOMAIN g, g[k].kind = "outcome", m.epoch = g[k].epoch
               PROVE  Waiting(v) \subseteq w.page.done
    BY <1>1 DEF Told2
  <2>1. Told(m) \subseteq w.page.done
    BY <1>1 DEF Inv, Told1, m
  <2>2. w.page.epoch = m.epoch => Waiting(w) \subseteq w.page.done
    BY <1>3a DEF Told2
  <2> QED
    BY <1>1, <2>1, <2>2
<1>12. EscrowPage(h, v)
  <2>1. m.epoch = h.epoch => \A x \in Told(m) : x \in w.page.done \/ InEscrow(h, x)
    BY <1>1 DEF Inv, EscrowWire, m
  <2>2. h.truth.nav # Nav!None /\ m.epoch # h.epoch => h.truth.nav \notin Told(m)
    BY <1>1 DEF Inv, EscrowWire, m
  <2> QED
    BY <1>1, <1>2, <1>3b, <2>1, <2>2 DEF EscrowPage
<1>13. EscrowWire(h, g, v)
  BY <1>3b DEF EscrowWire
<1>14. Elsewhere(h, g, v)
  <2> SUFFICES ASSUME h.truth.nav # Nav!None, h.truth.nav \notin w.page.done, h.pending = <<>>
               PROVE  m.epoch = h.epoch
    BY <1>1, <1>3b DEF Elsewhere
  <2>1. /\ w.page.epoch \in {Nav!None, h.epoch}
        /\ m.kind = "attach" => m.epoch = h.epoch
    BY <1>1 DEF Inv, Elsewhere, m
  <2> QED
    BY <1>1, <1>2, <2>1
<1>15. Tally(h, g, v)
  BY <1>1, TailTally DEF Tally, g
<1>16. PageOK(v) /\ FlightOK(v)
  OBVIOUS
<1> QED
  BY <1>3, <1>5, <1>6, <1>7, <1>8, <1>9, <1>10, <1>11, <1>12, <1>13, <1>14, <1>15, <1>16 DEF Inv, g

\* The baseline of an attach replaces what the page waits for.
LEMMA AttachReceived ==
  ASSUME NEW h, NEW f, NEW w, Inv(h, f, w), f # <<>>, Head(f).kind = "attach"
  PROVE  Inv(h, Tail(f), Nav!Received(w, Head(f)))
<1> DEFINE m == Head(f)
           v == [w EXCEPT !.page = [w.page EXCEPT !.epoch = m.epoch, !.pending = m.pending,
                                                  !.outcomes = m.outcomes]]
<1>1. m = f[1] /\ 1 \in DOMAIN f /\ m \in MessageT /\ MessageOK(m) /\ w \in WorldT
  BY TailMost DEF Inv, Typed
<1>90. m.kind = "attach"
  OBVIOUS
<1> HIDE DEF m
<1>2. Nav!Received(w, m) = Nav!Reconciling(v)
  <2> DEFINE raw == [w EXCEPT !.page = [@ EXCEPT !.epoch = m.epoch, !.pending = m.pending,
                                                 !.outcomes = m.outcomes]]
  <2>1. Nav!Received(w, m) = Nav!Reconciling(raw)
    BY <1>90 DEF Nav!Received
  <2>2. raw = v
    BY <1>1 DEF WorldT
  <2> QED
    BY <2>1, <2>2
<1>3. m.epoch \in Nat /\ m.pending \in Seq(Nav!Navs) /\ m.outcomes \subseteq Nav!Navs /\ m.nav = Nav!None
      /\ Len(m.pending) <= 1
  BY <1>1 DEF MessageT, MessageOK, m
<1>4. /\ v \in WorldT /\ v.page.epoch = m.epoch /\ v.page.pending = m.pending
      /\ v.page.done = w.page.done /\ v.page.shown = w.page.shown /\ v.page.dirty = w.page.dirty
      /\ v.page.life = w.page.life /\ v.page.timers = w.page.timers /\ v.page.tries = w.page.tries
      /\ v.flight = w.flight /\ v.sent = w.sent /\ v.log = w.log
  BY <1>1, <1>3 DEF WorldT, PageT
<1> HIDE DEF v
<1>5. Waiting(v) \subseteq Told(m)
  BY <1>4 DEF Waiting, Told
<1>6. PageOK(v)
  <2>1. PageOK(w) /\ OrderPage(f, w)
    BY DEF Inv
  <2>2. \A x \in w.page.done : \A y \in Told(m) : x <= y
    BY <1>1, <2>1 DEF OrderPage, Known
  <2>3. Len(m.pending) \in Nat
    BY <1>3
  <2> QED
    BY <1>3, <1>4, <1>5, <2>1, <2>2, <2>3 DEF PageOK
<1>7. FlightOK(v)
  <2>1. v.page.pending # <<>> => Len(v.page.pending) = 1
    BY <1>3, <1>4, ShortOne
  <2> QED
    BY <1>4, <2>1 DEF Inv, FlightOK
<1>8. Inv(h, Tail(f), v)
  BY <1>4, <1>5, <1>6, <1>7, LearnedKeeps DEF m
<1> QED
  BY <1>2, <1>8, ReconcilingKeeps DEF Stays, m, v

\* An outcome that the page follows brings a branch newer than all it knows.
LEMMA OutcomeReceived ==
  ASSUME NEW h, NEW f, NEW w, Inv(h, f, w), f # <<>>, Head(f).kind = "outcome",
         w.page.epoch = Head(f).epoch
  PROVE  Inv(h, Tail(f), Nav!Received(w, Head(f)))
<1> DEFINE m == Head(f)
           p == w.page.pending
           nav == m.nav
           q == Append(Nav!Without(p, nav), nav)
           v == [w EXCEPT !.page = [w.page EXCEPT !.outcomes = m.outcomes, !.pending = q]]
<1>90. m.kind = "outcome" /\ w.page.epoch = m.epoch
  OBVIOUS
<1>1. m = f[1] /\ 1 \in DOMAIN f /\ m \in MessageT /\ MessageOK(m) /\ w \in WorldT
  BY TailMost DEF Inv, Typed
<1> HIDE DEF m
<1>2. Nav!Received(w, m) = Nav!Reconciling(v)
  <2> DEFINE raw == [w EXCEPT !.page.outcomes = m.outcomes,
                              !.page.pending = IF m.kind = "outcome"
                                               THEN Append(Nav!Without(@, m.nav), m.nav) ELSE @]
  <2>1. Nav!Received(w, m) = Nav!Reconciling(raw)
    BY <1>90 DEF Nav!Received
  <2>2. raw = v
    BY <1>1, <1>90 DEF WorldT, PageT
  <2> QED
    BY <2>1, <2>2
<1>3. /\ nav \in Nav!Navs /\ nav \in Nat /\ m.outcomes \subseteq Nav!Navs /\ p \in Seq(Nav!Navs)
      /\ nav \in Told(m)
  <2>1. nav \in Nav!Navs
    BY <1>1, <1>90 DEF MessageT, MessageOK
  <2> QED
    BY <1>1, <2>1, NavsAreNumbers, WorldTypes DEF MessageT, Told
<1>4. \A x \in Known(w) : x < nav
  BY <1>1, <1>3, <1>90 DEF Inv, OrderPage
<1>5. Waiting(w) \subseteq w.page.done
  BY <1>1, <1>90 DEF Inv, Told2
<1>6. PageOK(w)
  BY DEF Inv
<1>7. \/ p = <<>> /\ q = <<nav>>
      \/ \E a \in w.page.done : a < nav /\ p = <<a>> /\ q = <<a, nav>>
  <2>1. Len(p) <= 2
    BY <1>6 DEF PageOK
  <2>2. CASE p = <<>>
    <3>1. Nav!Without(p, nav) = <<>>
      BY <2>2, WithoutShort
    <3> HIDE DEF p
    <3> QED
      BY <2>2, <3>1, ShortAppend
  <2>3. ASSUME NEW a \in Nav!Navs, p = <<a>>
        PROVE  a \in w.page.done /\ a < nav /\ q = <<a, nav>>
    <3>1. a \in Waiting(w)
      BY <2>3, ShortPlaces DEF Waiting
    <3>2. a \in w.page.done /\ a < nav /\ a # nav
      BY <1>3, <1>4, <1>5, <3>1, NavsAreNumbers DEF Known
    <3>3. Nav!Without(p, nav) = <<a>>
      BY <2>3, <3>2, WithoutShort
    <3> HIDE DEF p
    <3> QED
      BY <3>2, <3>3, ShortAppend
  <2>4. ASSUME NEW a \in Nav!Navs, NEW b \in Nav!Navs, p = <<a, b>> PROVE FALSE
    <3>1. b \in Waiting(w)
      BY <2>4, ShortPlaces DEF Waiting
    <3>2. b \notin w.page.done
      BY <1>6, <2>4, ShortPlaces DEF PageOK
    <3> QED
      BY <1>5, <3>1, <3>2
  <2> HIDE DEF p, q
  <2> QED
    BY <1>3, <2>1, <2>2, <2>3, <2>4, ShortList
<1>8. q \in Seq(Nav!Navs)
  <2> HIDE DEF q, p
  <2>1. <<nav>> \in Seq(Nav!Navs)
    BY <1>3
  <2>2. \A a \in w.page.done : <<a, nav>> \in Seq(Nav!Navs)
    BY <1>1, <1>3, WorldTypes
  <2> QED
    BY <1>7, <2>1, <2>2
<1> HIDE DEF p, q
<1>9. /\ v \in WorldT /\ v.page.epoch = w.page.epoch /\ v.page.pending = q
      /\ v.page.done = w.page.done /\ v.page.shown = w.page.shown /\ v.page.dirty = w.page.dirty
      /\ v.page.life = w.page.life /\ v.page.timers = w.page.timers /\ v.page.tries = w.page.tries
      /\ v.flight = w.flight /\ v.sent = w.sent /\ v.log = w.log
  BY <1>1, <1>3, <1>8 DEF WorldT, PageT
<1> HIDE DEF v
<1>10. Waiting(v) \subseteq Waiting(w) \cup {nav}
  <2> SUFFICES ASSUME NEW x \in Nav!Navs, NEW i \in DOMAIN q, x = q[i], x # nav
               PROVE  x \in Waiting(w)
    BY <1>9 DEF Waiting
  <2>1. CASE q = <<nav>>
    BY <2>1, ShortPlaces
  <2>2. CASE \E a \in w.page.done : a < nav /\ p = <<a>> /\ q = <<a, nav>>
    <3> PICK a \in w.page.done : p = <<a>> /\ q = <<a, nav>>
      BY <2>2
    <3>1. x = a
      BY ShortPlaces
    <3>2. 1 \in DOMAIN p /\ x = p[1]
      BY <3>1, ShortPlaces
    <3> QED
      BY <3>2 DEF Waiting, p
  <2> QED
    BY <1>7, <2>1, <2>2
<1>11. Waiting(v) \subseteq Waiting(w) \cup Told(m)
  BY <1>3, <1>10
<1>12. nav \notin w.page.done /\ \A x \in w.page.done : x < nav
  BY <1>3, <1>4 DEF Known
<1>13. PageOK(v)
  <2>1. /\ Len(q) <= 2
        /\ Len(q) = 2 => q[1] < q[2] /\ q[1] \in w.page.done /\ q[2] \notin w.page.done
    <3>1. CASE q = <<nav>>
      BY <3>1, ShortPlaces
    <3>2. CASE \E a \in w.page.done : a < nav /\ p = <<a>> /\ q = <<a, nav>>
      <4> PICK a \in w.page.done : a < nav /\ q = <<a, nav>>
        BY <3>2
      <4>1. Len(q) = 2 /\ q[1] = a /\ q[2] = nav
        BY ShortPlaces
      <4> QED
        BY <1>12, <4>1
    <3> QED
      BY <1>7, <3>1, <3>2
  <2>2. \A x \in w.page.done : \A y \in Waiting(v) : x <= y
    <3> SUFFICES ASSUME NEW x \in w.page.done, NEW y \in Waiting(v) PROVE x <= y
      OBVIOUS
    <3>1. CASE y = nav
      <4>1. x < nav /\ x \in Nat
        BY <1>1, <1>12, WorldTypes, NavsAreNumbers
      <4> QED
        BY <1>3, <3>1, <4>1
    <3> QED
      BY <1>6, <1>10, <3>1 DEF PageOK
  <2> QED
    BY <1>6, <1>9, <2>1, <2>2 DEF PageOK
<1>14. FlightOK(v)
  <2>1. w.flight.nav # nav
    <3>1. w.flight.nav \in Nav!Navs => w.flight.nav < nav
      BY <1>4 DEF Known
    <3> QED
      BY <1>3, <3>1
  <2>2. Len(q) \in Nat /\ q[Len(q)] = nav
    <3>1. ASSUME q = <<nav>> PROVE Len(q) = 1 /\ q[1] = nav
      BY <3>1, ShortPlaces
    <3>2. ASSUME NEW a, q = <<a, nav>> PROVE Len(q) = 2 /\ q[2] = nav
      BY <3>2, ShortPlaces
    <3>3. q = <<nav>> \/ \E a : q = <<a, nav>>
      BY <1>7, Zenon
    <3>4. 1 \in Nat /\ 2 \in Nat
      OBVIOUS
    <3>5. (Len(q) = 1 /\ q[1] = nav) \/ (Len(q) = 2 /\ q[2] = nav)
      BY <3>1, <3>2, <3>3, Zenon
    <3> QED
      BY <3>4, <3>5, Zenon
  <2> QED
    BY <1>9, <2>1, <2>2 DEF Inv, FlightOK
<1>15. Inv(h, Tail(f), v)
  BY <1>9, <1>11, <1>13, <1>14, <1>90, LearnedKeeps DEF m
<1> QED
  BY <1>2, <1>15, ReconcilingKeeps DEF Stays, m, v

\* An event: shown by a page that follows, and missed by one that does not.
LEMMA EventReceived ==
  ASSUME NEW h, NEW f, NEW w, Inv(h, f, w), f # <<>>, Head(f).kind = "event"
  PROVE  /\ Inv(h, Tail(f), Nav!Received(w, Head(f)))
         /\ Nav!Received(w, Head(f)).page.shown.nav = w.page.shown.nav
         /\ Nav!Received(w, Head(f)).page.shown.events >= w.page.shown.events
<1> DEFINE m == Head(f)
           g == Tail(f)
           v == Nav!Received(w, m)
<1>90. m.kind = "event"
  OBVIOUS
<1>1. w \in WorldT /\ w.page.shown.events \in Nat
  BY WorldTypes DEF Inv, Typed
<1>2. /\ v \in WorldT /\ v.page.epoch = w.page.epoch /\ v.page.pending = w.page.pending
      /\ v.page.done = w.page.done /\ v.page.shown.nav = w.page.shown.nav
      /\ v.page.life = w.page.life /\ v.page.timers = w.page.timers /\ v.page.tries = w.page.tries
      /\ v.flight = w.flight /\ v.sent = w.sent /\ v.log = w.log
      /\ \/ v.page.dirty /\ v.page.shown = w.page.shown
         \/ v.page.dirty = w.page.dirty /\ v.page.shown.events = w.page.shown.events + 1
  <2> HIDE DEF m
  <2>1. CASE w.page.epoch # m.epoch
    <3>0. v = [w EXCEPT !.page = [w.page EXCEPT !.dirty = (w.page.dirty \/ m.kind = "event")]]
      BY <1>1, <1>90, <2>1 DEF Nav!Received, WorldT, PageT
    <3>1. v = [w EXCEPT !.page = [w.page EXCEPT !.dirty = TRUE]]
      BY <1>90, <3>0
    <3> HIDE DEF v
    <3> QED
      BY <1>1, <3>1 DEF WorldT, PageT
  <2>2. CASE w.page.epoch = m.epoch
    <3> DEFINE e == w.page.shown.events + 1
    <3>1. v = [w EXCEPT !.page = [w.page EXCEPT !.shown = [w.page.shown EXCEPT !.events = e]]]
      BY <1>1, <1>90, <2>2 DEF Nav!Received, WorldT, PageT
    <3>2. e \in Nat
      BY <1>1
    <3> HIDE DEF v, e
    <3>3. [w.page.shown EXCEPT !.events = e] \in ShownT
      BY <1>1, <3>2, WorldTypes DEF ShownT
    <3>4. /\ [w.page.shown EXCEPT !.events = e].nav = w.page.shown.nav
          /\ [w.page.shown EXCEPT !.events = e].events = e
      BY <1>1, WorldTypes DEF ShownT
    <3> QED
      BY <1>1, <3>1, <3>3, <3>4 DEF WorldT, PageT, e
  <2> QED
    BY <2>1, <2>2
<1> HIDE DEF v, m, g
<1>3. Typed(h, g, w) /\ Alone(h, w) /\ Numbered(h, w.log) /\ OrderWire(g)
  BY TailMost DEF Most, g
<1>3a. OrderHost(h, g, w) /\ OrderPage(g, w) /\ SentOK(g, w) /\ Told1(g, w) /\ Told2(g, w)
  BY TailMost DEF Most, g
<1>3b. EscrowPage(h, w) /\ EscrowWire(h, g, w) /\ Unshown(h, w) /\ Elsewhere(h, g, w)
  BY TailMost DEF Most, g
<1>3c. PageOK(w) /\ FlightOK(w)
  BY DEF Inv
<1>4. Waiting(v) = Waiting(w)
  BY <1>2 DEF Waiting
<1>5. Known(v) = Known(w)
  BY <1>2, <1>4 DEF Known
<1>6. Typed(h, g, v) /\ Alone(h, v) /\ Numbered(h, v.log)
  BY <1>2, <1>3 DEF Typed, Alone
<1>7. OrderHost(h, g, v) /\ OrderPage(g, v) /\ OrderWire(g)
  BY <1>2, <1>3, <1>3a, <1>5 DEF OrderHost, OrderPage
<1>8. PageOK(v) /\ FlightOK(v)
  BY <1>2, <1>3c, <1>4 DEF PageOK, FlightOK
<1>9. SentOK(g, v)
  BY <1>2, <1>3a DEF SentOK
<1>10. Told1(g, v) /\ Told2(g, v) /\ EscrowPage(h, v) /\ EscrowWire(h, g, v)
  BY <1>2, <1>3a, <1>3b, <1>4 DEF Told1, Told2, EscrowPage, EscrowWire
<1>11. Unshown(h, v) /\ Elsewhere(h, g, v)
  BY <1>2, <1>3b DEF Unshown, Elsewhere
<1>12. Tally(h, g, v)
  <2>1. w.log.foreign = 0 =>
           /\ h.truth.nav \in w.page.done /\ ~w.page.dirty =>
                Counts(g, w.page.shown.events + 1, h.truth.events)
           /\ h.pending # <<>> =>
                /\ h.truth.events = 0 /\ NoEventAfter(h, g)
                /\ h.truth.nav \in Waiting(w) => \A j \in DOMAIN g : g[j].kind # "event"
    BY <1>90, TailTally DEF g, m
  <2> QED
    BY <1>2, <1>4, <2>1 DEF Tally
<1>13. Inv(h, g, v)
  BY <1>6, <1>7, <1>8, <1>9, <1>10, <1>11, <1>12 DEF Inv
<1>14. v.page.shown.events >= w.page.shown.events
  BY <1>1, <1>2
<1> QED
  BY <1>2, <1>13, <1>14 DEF v, m, g

\* Whatever the page receives, it stays on its branch and shows no less of it.
LEMMA ReceivedKeeps ==
  ASSUME NEW h, NEW f, NEW w, Inv(h, f, w), f # <<>>
  PROVE  /\ Inv(h, Tail(f), Nav!Received(w, Head(f)))
         /\ Nav!Received(w, Head(f)).page.shown.nav = w.page.shown.nav
         /\ Nav!Received(w, Head(f)).page.shown.events >= w.page.shown.events
<1> DEFINE m == Head(f)
           g == Tail(f)
           v == Nav!Received(w, m)
<1>1. m \in MessageT /\ w \in WorldT /\ w.page.shown.events \in Nat
  BY TailMost, WorldTypes DEF Inv, Typed
<1>2. m.kind \in Kinds
  BY <1>1 DEF MessageT
<1> HIDE DEF m
<1>3. CASE m.kind = "event"
  BY <1>3, EventReceived DEF m
<1>4. ASSUME m.kind # "event" PROVE Inv(h, g, w)
  BY <1>4, TailQuiet DEF m
<1> HIDE DEF g
<1>5. ASSUME m.kind # "event" PROVE Inv(h, g, v) /\ v.page.shown = w.page.shown
  <2>1. CASE m.kind = "lost"
    <3>1. v = Nav!Asking(w)
      BY <2>1 DEF Nav!Received
    <3> HIDE DEF v
    <3> QED
      BY <1>4, <1>5, <3>1, AskingKeeps DEF Stays
  <2>2. CASE m.kind = "attach"
    <3>1. v = Nav!Reconciling([w EXCEPT !.page = [@ EXCEPT !.epoch = m.epoch, !.pending = m.pending,
                                                       !.outcomes = m.outcomes]])
      BY <2>2 DEF Nav!Received
    <3>2. v.page.shown = w.page.shown
      <4> HIDE DEF v
      <4> QED
        BY <1>1, <3>1 DEF Nav!Reconciling, WorldT, PageT
    <3> QED
      BY <2>2, <3>2, AttachReceived DEF m, g
  <2>3. CASE m.kind \in {"outcome", "frame"} /\ w.page.epoch # m.epoch
    <3>1. v = [w EXCEPT !.page = [w.page EXCEPT !.dirty = (w.page.dirty \/ m.kind = "event")]]
      BY <1>1, <2>3 DEF Nav!Received, WorldT, PageT
    <3> HIDE DEF v
    <3>2. v = [w EXCEPT !.page = [w.page EXCEPT !.dirty = w.page.dirty]]
      <4>1. w.page.dirty \in BOOLEAN
        BY <1>1, WorldTypes
      <4>2. (w.page.dirty \/ m.kind = "event") = w.page.dirty
        BY <2>3, <4>1
      <4> QED
        BY <3>1, <4>2
    <3>3. v = w
      BY <1>1, <3>2 DEF WorldT, PageT
    <3> QED
      BY <1>4, <1>5, <3>3
  <2>4. CASE m.kind = "frame" /\ w.page.epoch = m.epoch
    <3> DEFINE x == [w EXCEPT !.page = [w.page EXCEPT !.outcomes = m.outcomes]]
    <3>1. v = Nav!Reconciling(x)
      <4> DEFINE raw == [w EXCEPT !.page.outcomes = m.outcomes,
                                  !.page.pending = IF m.kind = "outcome"
                                                   THEN Append(Nav!Without(@, m.nav), m.nav) ELSE @]
      <4>1. v = Nav!Reconciling(raw)
        BY <2>4 DEF Nav!Received
      <4>2. raw = x
        BY <1>1, <2>4 DEF WorldT, PageT
      <4> QED
        BY <4>1, <4>2
    <3>2. m.outcomes \subseteq Nav!Navs
      BY <1>1 DEF MessageT
    <3>3. /\ x \in WorldT /\ x.page.done = w.page.done /\ x.page.shown = w.page.shown
          /\ x.page.dirty = w.page.dirty /\ x.page.pending = w.page.pending
          /\ x.page.epoch = w.page.epoch /\ x.page.life = w.page.life /\ x.flight = w.flight
          /\ x.sent = w.sent /\ x.log = w.log /\ x.page.timers = w.page.timers
          /\ x.page.tries = w.page.tries
      BY <1>1, <3>2 DEF WorldT, PageT
    <3> HIDE DEF v, x
    <3>4. \A n \in x.page.timers : x.page.tries[n] > 0
      BY <3>3 DEF Inv, Typed
    <3>5. Inv(h, g, x)
      BY <1>4, <1>5, <3>3, <3>4, Twin
    <3> QED
      BY <3>1, <3>3, <3>5, ReconcilingKeeps DEF Stays
  <2>5. CASE m.kind = "outcome" /\ w.page.epoch = m.epoch
    <3>1. v = Nav!Reconciling([w EXCEPT !.page.outcomes = m.outcomes,
                                    !.page.pending = IF m.kind = "outcome"
                                                     THEN Append(Nav!Without(@, m.nav), m.nav) ELSE @])
      BY <2>5 DEF Nav!Received
    <3>2. v.page.shown = w.page.shown
      <4> HIDE DEF v
      <4> QED
        BY <1>1, <3>1 DEF Nav!Reconciling, WorldT, PageT
    <3> QED
      BY <2>5, <3>2, OutcomeReceived DEF m, g
  <2> QED
    BY <1>2, <1>5, <2>1, <2>2, <2>3, <2>4, <2>5 DEF Kinds
<1>6. CASE m.kind # "event"
  <2>1. v.page.shown.nav = w.page.shown.nav /\ v.page.shown.events >= w.page.shown.events
    BY <1>1, <1>5, <1>6
  <2> QED
    BY <1>5, <1>6, <2>1 DEF m, g
<1> QED
  BY <1>3, <1>6

-----------------------------------------------------------------------------
\* The branch is installed: the only one that the page waits for, and if it is
\* the host's own then nothing runs on it yet.
LEMMA InstalledKeeps ==
  ASSUME NEW h, NEW f, NEW w, Inv(h, f, w), w.flight.pc = "converting", Nav!Installable(w)
  PROVE  /\ Inv(h, f, Nav!Over(Nav!Installed(w)))
         /\ Alike(Nav!Over(Nav!Installed(w)), Nav!Installed(w))
         /\ w.flight.nav \in Nav!Installed(w).page.done
         /\ Nav!Installed(w).page.shown.nav = w.flight.nav
         /\ w.flight.nav > w.page.shown.nav
<1> DEFINE nav == w.flight.nav
           x == Nav!Installed(w)
           u == Nav!Over(x)
<1>1. w \in WorldT /\ h \in HostT
  BY DEF Inv, Typed
<1>2. nav \in Nav!Navs /\ nav \in Nat /\ nav # Nav!None /\ nav \notin w.page.done /\ Nav!None = 0
  BY <1>1, WorldTypes, NavsAreNumbers DEF Inv, FlightOK
<1>3. w.page.pending = <<nav>> /\ w.page.epoch # Nav!None
  <2>1. w.page.pending \in Seq(Nav!Navs) /\ w.page.pending # <<>> /\ Nav!Last(w.page.pending) = nav
    BY <1>1, WorldTypes DEF Nav!Installable
  <2>2. w.page.pending[Len(w.page.pending)] = nav
    BY <2>1 DEF Nav!Last
  <2>3. Len(w.page.pending) = 1
    BY <2>1, <2>2 DEF Inv, FlightOK
  <2>4. Len(w.page.pending) <= 1
    BY <2>3
  <2>5. w.page.pending = <<w.page.pending[1]>>
    BY <2>1, <2>4, ShortOne
  <2> QED
    BY <2>2, <2>3, <2>5 DEF Nav!Installable, Nav!Following
<1>4. Waiting(w) = {nav}
  BY <1>2, <1>3, ShortPlaces DEF Waiting
<1>5. \A y \in w.page.done : y <= nav
  BY <1>4 DEF Inv, PageOK
<1>6. nav > w.page.shown.nav
  <2>1. w.page.shown.nav = Nav!None \/ w.page.shown.nav \in w.page.done
    BY DEF Inv, PageOK
  <2>2. \A y \in w.page.done : y < nav
    <3> SUFFICES ASSUME NEW y \in w.page.done PROVE y < nav
      OBVIOUS
    <3>1. y \in Nat /\ y # nav /\ y <= nav
      BY <1>1, <1>2, <1>5, WorldTypes, NavsAreNumbers
    <3> QED
      BY <1>2, <3>1
  <2>3. CASE w.page.shown.nav = Nav!None
    BY <1>2, <2>3
  <2>4. CASE w.page.shown.nav \in w.page.done
    <3>1. w.page.shown.nav < nav /\ w.page.shown.nav \in Nat
      BY <1>1, <2>2, <2>4, WorldTypes, NavsAreNumbers
    <3> QED
      BY <1>2, <3>1
  <2> QED
    BY <2>1, <2>3, <2>4
<1>7. x = [w EXCEPT !.page = [w.page EXCEPT !.shown = Nav!Shown(nav, 0), !.dirty = FALSE,
                                            !.done = w.page.done \cup {nav}],
                    !.log = [w.log EXCEPT !.installed = w.log.installed \cup {nav}]]
  BY <1>1 DEF Nav!Installed, WorldT, PageT, LogT
<1>8. Nav!Shown(nav, 0) \in ShownT /\ Nav!Shown(nav, 0).nav = nav /\ Nav!Shown(nav, 0).events = 0
  BY <1>2 DEF Nav!Shown, ShownT
<1>9. w.page.done \cup {nav} \subseteq Nav!Navs /\ w.log.installed \cup {nav} \subseteq Nav!Navs
  BY <1>1, <1>2, WorldTypes
<1> HIDE DEF x
<1>10. /\ x \in WorldT /\ x.page.done = w.page.done \cup {nav} /\ x.page.shown = Nav!Shown(nav, 0)
       /\ x.page.dirty = FALSE /\ x.page.pending = w.page.pending /\ x.page.epoch = w.page.epoch
       /\ x.page.life = w.page.life /\ x.page.timers = w.page.timers
       /\ x.page.tries = w.page.tries /\ x.sent = w.sent
       /\ x.log.installed = w.log.installed \cup {nav} /\ x.log.foreign = w.log.foreign
       /\ x.log.navs = w.log.navs /\ x.log.prompts = w.log.prompts /\ x.log.may = w.log.may
  BY <1>1, <1>7, <1>8, <1>9 DEF WorldT, PageT, LogT
<1>11. Nav!NoFlight \in FlightT
  BY DEF Nav!NoFlight, FlightT, Nav!None
<1>12. u \in WorldT /\ u.page = x.page /\ u.sent = x.sent /\ u.log = x.log /\ u.flight = Nav!NoFlight
  BY <1>10, <1>11 DEF Nav!Over, WorldT
<1> HIDE DEF u
<1>13. Waiting(u) = {nav}
  BY <1>2, <1>3, <1>10, <1>12, ShortPlaces DEF Waiting
<1>14. Known(u) \subseteq Known(w)
  BY <1>2, <1>4, <1>10, <1>12, <1>13, NavsAreNumbers DEF Known, Nav!NoFlight
<1>15. \A n \in x.page.timers : x.page.tries[n] > 0
  BY <1>10 DEF Inv, Typed
<1>16. Typed(h, f, u)
  BY <1>10, <1>12, <1>15 DEF Inv, Typed
<1>17. Alone(h, u) /\ Numbered(h, u.log) /\ OrderWire(f)
  BY <1>10, <1>12 DEF Inv, Alone, Numbered
<1>18. OrderHost(h, f, u)
  BY <1>10, <1>12, <1>14 DEF Inv, OrderHost, Older
<1>19. OrderPage(f, u)
  BY <1>14 DEF Inv, OrderPage
<1>20. PageOK(u)
  <2>1. Len(u.page.pending) = 1
    BY <1>3, <1>10, <1>12, ShortPlaces
  <2>2. \A y \in u.page.done : y <= nav
    BY <1>2, <1>5, <1>10, <1>12
  <2>3. u.page.done \subseteq u.log.installed
    BY <1>10, <1>12 DEF Inv, PageOK
  <2> QED
    BY <1>8, <1>10, <1>12, <1>13, <2>1, <2>2, <2>3 DEF PageOK
<1>21. FlightOK(u)
  BY <1>12 DEF FlightOK, Nav!NoFlight
<1>22. SentOK(f, u)
  BY <1>3, <1>10, <1>12 DEF Inv, SentOK
<1>23. Told1(f, u) /\ Told2(f, u)
  BY <1>2, <1>10, <1>12, <1>13 DEF Inv, Told1, Told2
<1>24. EscrowPage(h, u) /\ EscrowWire(h, f, u)
  BY <1>4, <1>10, <1>12, <1>13 DEF Inv, EscrowPage, EscrowWire
<1>25. Unshown(h, u)
  BY <1>10, <1>12 DEF Inv, Unshown
<1>26. ASSUME w.page.epoch = h.epoch PROVE h.pending # <<>>
  <2>1. InEscrow(h, nav)
    BY <1>2, <1>4, <1>26 DEF Inv, EscrowPage
  <2>2. h.pending = <<Nav!Item(nav, TRUE)>>
    BY <2>1 DEF InEscrow
  <2>3. \A a : <<a>> # <<>>
    BY ShortPlaces
  <2> QED
    BY <2>2, <2>3
<1>27. Elsewhere(h, f, u)
  BY <1>3, <1>10, <1>12, <1>26 DEF Inv, Elsewhere
<1>28. Tally(h, f, u)
  <2> SUFFICES ASSUME w.log.foreign = 0, h.truth.nav \in w.page.done \cup {nav}
               PROVE  Counts(f, 0, h.truth.events)
    BY <1>4, <1>8, <1>10, <1>12, <1>13 DEF Inv, Tally
  <2>1. h.truth.nav \in Nav!Navs /\ h.truth.nav # Nav!None /\ h.truth.nav \in Nat
    BY <1>1, <1>2, WorldTypes, NavsAreNumbers
  <2>2. nav \in Known(w)
    BY <1>4 DEF Known
  <2>3. nav <= h.truth.nav
    BY <2>1, <2>2 DEF Inv, OrderHost, Older
  <2>4. h.truth.nav = nav
    BY <1>2, <1>5, <2>1, <2>3
  <2>5. h.pending # <<>>
    BY <1>3, <1>4, <1>26, <2>1, <2>4 DEF Inv, EscrowPage
  <2>6. h.truth.events = 0 /\ \A j \in DOMAIN f : f[j].kind # "event"
    BY <1>4, <2>4, <2>5 DEF Inv, Tally
  <2>7. f \in Seq(MessageT)
    BY DEF Inv, Typed
  <2> QED
    BY <2>6, <2>7, CountsNothing
<1>29. Inv(h, f, u)
  BY <1>16, <1>17, <1>18, <1>19, <1>20, <1>21, <1>22, <1>23, <1>24, <1>25, <1>27, <1>28 DEF Inv
<1>30. Alike(u, x)
  BY <1>10, <1>12, <1>15 DEF Alike
<1> QED
  BY <1>6, <1>8, <1>10, <1>29, <1>30 DEF u, x

-----------------------------------------------------------------------------
\* Bookkeeping that changes no more than timers, tries, tasks and bounds.
LEMMA Bookkeeping ==
  ASSUME NEW h, NEW f, NEW w, NEW v, Inv(h, f, w), v \in WorldT,
         v.page.done = w.page.done, v.page.shown = w.page.shown, v.page.dirty = w.page.dirty,
         v.page.pending = w.page.pending, v.page.epoch = w.page.epoch,
         v.page.life = w.page.life, v.flight = w.flight, v.sent = w.sent,
         v.page.timers \subseteq w.page.timers, v.page.tries = w.page.tries,
         v.log.installed = w.log.installed, v.log.foreign = w.log.foreign,
         v.log.navs = w.log.navs, v.log.prompts = w.log.prompts, v.log.may = w.log.may
  PROVE  Stays(h, f, w, v)
<1>1. \A n \in v.page.timers : v.page.tries[n] > 0
  BY DEF Inv, Typed
<1>2. Inv(h, f, v)
  BY <1>1, Twin
<1> QED
  BY <1>2 DEF Stays

\* Fewer requests under way.
LEMMA FewerSent ==
  ASSUME NEW h, NEW f, NEW w, Inv(h, f, w), NEW v, v \in WorldT,
         v.page = w.page, v.flight = w.flight, v.log.installed = w.log.installed,
         v.log.foreign = w.log.foreign, v.log.navs = w.log.navs, v.log.prompts = w.log.prompts,
         v.log.may = w.log.may,
         NEW d \in Nat,
         \A i \in DOMAIN v.sent : i + d \in DOMAIN w.sent /\ v.sent[i] = w.sent[i + d]
  PROVE  Stays(h, f, w, v) /\ v.flight = w.flight /\ v.page = w.page
<1>1. w \in WorldT
  BY DEF Inv, Typed
<1>2. v.sent \in Seq(RequestT) /\ DOMAIN v.sent \subseteq Nat
  BY WorldTypes
<1>3. Waiting(v) = Waiting(w)
  BY <1>2 DEF Waiting
<1>4. Known(v) \subseteq Known(w)
  BY <1>2, <1>3 DEF Known
<1>5. SentOK(f, v)
  <2>1. SentOK(f, w)
    BY DEF Inv
  <2>2. \A i, j \in DOMAIN v.sent : i < j => i + d < j + d
    BY <1>2
  <2> QED
    BY <1>2, <2>1, <2>2 DEF SentOK
<1>6. PageOK(v) /\ FlightOK(v)
  BY <1>2, <1>3 DEF Inv, PageOK, FlightOK
<1>7. \A n \in v.page.timers : v.page.tries[n] > 0
  BY <1>2 DEF Inv, Typed
<1>8. Inv(h, f, v)
  BY <1>2, <1>3, <1>4, <1>5, <1>6, <1>7, Kin
<1> QED
  BY <1>2, <1>8 DEF Stays

\* All but the first request, and all but the last.
LEMMA SentTail ==
  ASSUME NEW h, NEW f, NEW w, Inv(h, f, w), w.sent # <<>>, NEW v,
         v = [w EXCEPT !.sent = Tail(w.sent)]
  PROVE  Stays(h, f, w, v) /\ v.flight = w.flight /\ v.page = w.page
<1> DEFINE q == Tail(w.sent)
<1>1. w \in WorldT /\ w.sent \in Seq(RequestT) /\ w.log.faults \in Nat
  BY WorldTypes DEF Inv, Typed
<1>2. /\ q \in Seq(RequestT)
      /\ \A k \in DOMAIN q : k + 1 \in DOMAIN w.sent /\ q[k] = w.sent[k + 1]
  BY <1>1, TailPlaces
<1> HIDE DEF q
<1>3. /\ v \in WorldT /\ v.page = w.page /\ v.flight = w.flight /\ v.sent = q
      /\ v.log = w.log
  BY <1>1, <1>2 DEF WorldT, q
<1>4. \A i \in DOMAIN v.sent : i + 1 \in DOMAIN w.sent /\ v.sent[i] = w.sent[i + 1]
  BY <1>2, <1>3
<1>5. Stays(h, f, w, v)
  BY <1>3, <1>4, FewerSent
<1> QED
  BY <1>3, <1>5

\* Taking back the newest request keeps the invariant.
LEMMA SentFront ==
  ASSUME NEW h, NEW f, NEW w, Inv(h, f, w), w.sent # <<>>, NEW v,
         v = [w EXCEPT !.sent = Nav!Front(w.sent)]
  PROVE  Stays(h, f, w, v) /\ v.flight = w.flight /\ v.page = w.page
<1> DEFINE q == Nav!Front(w.sent)
           d == 0
<1>1. w \in WorldT /\ w.sent \in Seq(RequestT)
  BY WorldTypes DEF Inv, Typed
<1>2. q \in Seq(RequestT) /\ \A k \in DOMAIN q : k + d \in DOMAIN w.sent /\ q[k] = w.sent[k + d]
  <2>1. Len(w.sent) \in Nat /\ Len(w.sent) # 0 /\ DOMAIN w.sent = 1..Len(w.sent)
    BY <1>1
  <2>2. q = SubSeq(w.sent, 1, Len(w.sent) - 1)
    BY DEF Nav!Front
  <2>3. SubSeq(w.sent, 1, Len(w.sent) - 1) \in Seq(RequestT)
    BY <1>1, <2>1
  <2>4. DOMAIN SubSeq(w.sent, 1, Len(w.sent) - 1) = 1..(Len(w.sent) - 1)
    BY <1>1, <2>1
  <2>5. \A k \in 1..(Len(w.sent) - 1) : SubSeq(w.sent, 1, Len(w.sent) - 1)[k] = w.sent[k]
    BY <1>1, <2>1
  <2> HIDE DEF q
  <2> QED
    BY <2>1, <2>2, <2>3, <2>4, <2>5
<1> HIDE DEF q
<1>3. v \in WorldT /\ v.page = w.page /\ v.flight = w.flight /\ v.sent = q /\ v.log = w.log
  BY <1>1, <1>2 DEF WorldT, q
<1>4. d \in Nat /\ \A i \in DOMAIN v.sent : i + d \in DOMAIN w.sent /\ v.sent[i] = w.sent[i + d]
  BY <1>2, <1>3
<1> HIDE DEF d
<1>5. Stays(h, f, w, v)
  BY <1>3, <1>4, FewerSent
<1> QED
  BY <1>3, <1>5

\* The answer to the request that the flight waits for.
LEMMA AnsweredKeeps ==
  ASSUME NEW h, NEW f, NEW w, Inv(h, f, w), NEW r, NEW ok \in BOOLEAN
  PROVE  Stays(h, f, w, Nav!Answered(w, r, ok))
<1>1. w \in WorldT
  BY DEF Inv, Typed
<1>2. CASE ~(w.flight.pc \in {"acking", "ackingOld"} /\ w.flight.nav = r.nav /\ w.page.life = r.life)
  BY <1>2 DEF Nav!Answered, Stays
<1>3. CASE w.flight.pc \in {"acking", "ackingOld"} /\ w.flight.nav = r.nav /\ w.page.life = r.life
  <2> DEFINE pc == IF w.flight.pc = "acking" THEN "acked" ELSE "ackedOld"
             v == [w EXCEPT !.flight = [w.flight EXCEPT !.ok = ok, !.pc = pc]]
  <2>1. Nav!Answered(w, r, ok) = v
    BY <1>1, <1>3 DEF Nav!Answered, WorldT, FlightT
  <2>2. /\ pc \in {"acked", "ackedOld"} /\ (pc = "acked" <=> w.flight.pc = "acking")
        /\ (pc = "ackedOld" <=> w.flight.pc = "ackingOld")
    BY <1>3
  <2> HIDE DEF pc
  <2>3. /\ v \in WorldT /\ v.page = w.page /\ v.sent = w.sent /\ v.log = w.log
        /\ v.flight.pc = pc /\ v.flight.nav = w.flight.nav /\ v.flight.olds = w.flight.olds
    BY <1>1, <2>2 DEF WorldT, FlightT
  <2> HIDE DEF v
  <2>4. Alike(w, v)
    BY <2>3 DEF Inv, Typed, Alike
  <2>5. FlightOK(v)
    BY <2>2, <2>3 DEF Inv, FlightOK
  <2>6. v.flight.nav \in w.page.done
    BY <1>3, <2>3 DEF Inv, FlightOK
  <2>7. Inv(h, f, v)
    BY <2>4, <2>5, <2>6, Flown
  <2> QED
    BY <2>1, <2>3, <2>7 DEF Stays
<1> QED
  BY <1>2, <1>3

-----------------------------------------------------------------------------
\* The steps of the page.  A step becomes a world with the invariant.
LEMMA WorldNow ==
  ASSUME IInv
  PROVE  /\ Inv(host, feed, Nav!World) /\ Nav!World \in WorldT /\ Nav!World.page = page
         /\ Nav!World.flight = walk /\ Nav!World.sent = sent /\ Nav!World.log = navLog
<1>1. Nav!World.page = page /\ Nav!World.flight = walk /\ Nav!World.sent = sent /\ Nav!World.log = navLog
  BY DEF Nav!World
<1> QED
  BY <1>1 DEF IInv, Inv, Typed

\* A step of the page that leaves the host and the wire alone.
LEMMA BecomesInv ==
  ASSUME IInv, NEW w, Nav!Becomes(w), Stays(host, feed, Nav!World, w), UNCHANGED <<host, feed>>
  PROVE  IInv' /\ page'.shown = page.shown
<1>1. w \in WorldT
  BY DEF Stays, Inv, Typed
<1>2. Nav!World' = w
  BY <1>1, WorldTypes DEF Nav!Becomes, Nav!World
<1>3. Nav!World.page = page
  BY DEF Nav!World
<1>4. Inv(host', feed', Nav!World')
  BY <1>2 DEF Stays
<1> QED
  BY <1>3, <1>4 DEF IInv, Stays, Nav!Becomes

\* The reconciliation begins a presentation, or acknowledges the ones it already made.
LEMMA BeginKeeps == ASSUME IInv, Nav!Begin PROVE IInv' /\ page'.shown = page.shown
<1> DEFINE w == [Nav!World EXCEPT !.page.tasks = @ - 1]
           x == [w EXCEPT !.flight.olds = Nav!Front(page.pending), !.flight.epoch = page.epoch]
           next == IF ~Nav!Following(w) THEN w
                   ELSE IF page.pending = <<>> THEN Nav!Cleared(w, Nav!Navs) ELSE Nav!Proceeded(x)
<1>0. /\ Inv(host, feed, Nav!World) /\ Nav!World \in WorldT /\ Nav!World.page = page
      /\ Nav!World.flight = walk /\ Nav!World.sent = sent /\ Nav!World.log = navLog
  BY WorldNow
<1>1. Nav!Becomes(next) /\ UNCHANGED <<host, feed>> /\ page.tasks > 0
  BY DEF Nav!Begin
<1>2. Stays(host, feed, Nav!World, w) /\ w.page.pending = page.pending /\ w \in WorldT
      /\ w.page.epoch = page.epoch
  <2>1. page.tasks - 1 \in Nat
    <3>1. page.tasks \in Nat
      BY <1>0, WorldTypes
    <3> QED
      BY <1>1, <3>1
  <2>2. w = [Nav!World EXCEPT !.page = [page EXCEPT !.tasks = page.tasks - 1]]
    BY <1>0 DEF WorldT, PageT
  <2> HIDE DEF w
  <2>3. /\ w \in WorldT /\ w.page.done = page.done /\ w.page.shown = page.shown
        /\ w.page.dirty = page.dirty /\ w.page.pending = page.pending
        /\ w.page.epoch = page.epoch /\ w.page.life = page.life /\ w.flight = Nav!World.flight
        /\ w.sent = Nav!World.sent /\ w.page.timers = page.timers /\ w.page.tries = page.tries
        /\ w.log = Nav!World.log
    BY <1>0, <2>1, <2>2 DEF WorldT, PageT
  <2>4. Stays(host, feed, Nav!World, w)
    BY <1>0, <2>3, Bookkeeping
  <2> QED
    BY <2>3, <2>4
<1> HIDE DEF w
<1>3. ASSUME page.pending # <<>> PROVE Stays(host, feed, w, Nav!Proceeded(x))
  <2> DEFINE p == page.pending
  <2>0. Inv(host, feed, w)
    BY <1>2 DEF Stays
  <2>1. p \in Seq(Nav!Navs) /\ Len(p) <= 2 /\ p # <<>>
    BY <1>0, <1>2, <1>3, <2>0, WorldTypes DEF Inv, PageOK
  <2>2. Len(p) \in Nat /\ DOMAIN p = 1..Len(p) /\ \A i \in DOMAIN p : p[i] \in Nav!Navs
    BY <2>1, ShortList
  <2>4. \/ Len(p) = 1 /\ Nav!Front(p) = <<>>
        \/ Len(p) = 2 /\ Nav!Front(p) = <<p[1]>>
    <3>1. (\E a \in Nav!Navs : p = <<a>>) \/ \E a, b \in Nav!Navs : p = <<a, b>>
      BY <1>3, <2>1, ShortList
    <3>2. ASSUME NEW a \in Nav!Navs, p = <<a>> PROVE Len(p) = 1 /\ Nav!Front(p) = <<>>
      BY <3>2, ShortFront, ShortPlaces
    <3>3. ASSUME NEW a \in Nav!Navs, NEW b \in Nav!Navs, p = <<a, b>>
          PROVE  Len(p) = 2 /\ Nav!Front(p) = <<p[1]>>
      BY <3>3, ShortFront, ShortPlaces
    <3> HIDE DEF p
    <3> QED
      BY <3>1, <3>2, <3>3
  <2>5. Nav!Front(p) \in Seq(Nav!Navs)
    <3>1. <<>> \in Seq(Nav!Navs)
      OBVIOUS
    <3>2. Len(p) = 2 => <<p[1]>> \in Seq(Nav!Navs)
      BY <2>2
    <3> HIDE DEF p
    <3> QED
      BY <2>4, <3>1, <3>2
  <2> DEFINE olds == Nav!Front(p)
  <2>6. x = [w EXCEPT !.flight = [w.flight EXCEPT !.olds = olds, !.epoch = page.epoch]]
    BY <1>2 DEF WorldT, FlightT
  <2>7. page.epoch \in Nat
    BY <1>0, WorldTypes
  <2> HIDE DEF x, olds
  <2>8. /\ x \in WorldT /\ x.page = w.page /\ x.sent = w.sent /\ x.log = w.log
        /\ x.flight.olds = olds
    BY <1>2, <2>5, <2>6, <2>7 DEF WorldT, FlightT, olds
  <2>9. Alike(w, x)
    BY <2>0, <2>8 DEF Alike, Inv, Typed
  <2>10. CASE Len(p) = 1 /\ Nav!Front(p) = <<>>
    <3>1. x.flight.olds = <<>> /\ x.page.pending = p
      BY <1>2, <2>8, <2>10 DEF olds
    <3>2. Len(p) <= 1
      <4> HIDE DEF p
      <4> QED
        BY <2>10
    <3> QED
      BY <2>0, <2>9, <3>1, <3>2, ProceededKeeps
  <2>11. CASE Len(p) = 2 /\ Nav!Front(p) = <<p[1]>>
    <3>1. p[1] \in w.page.done
      BY <1>2, <2>0, <2>11 DEF Inv, PageOK
    <3>2. p[1] \in Waiting(w)
      BY <1>2, <2>2, <2>11 DEF Waiting
    <3>3. \A y \in x.page.done : y <= p[1]
      BY <2>0, <2>8, <3>2 DEF Inv, PageOK
    <3>4. p[1] \in x.page.done /\ x.flight.olds = <<p[1]>>
      BY <2>8, <2>11, <3>1 DEF olds
    <3> QED
      BY <2>0, <2>9, <3>3, <3>4, ProceededKeeps
  <2> QED
    BY <2>4, <2>10, <2>11
<1>4. Stays(host, feed, Nav!World, next)
  <2>1. CASE ~Nav!Following(w)
    BY <1>2, <2>1
  <2>2. CASE Nav!Following(w) /\ page.pending = <<>>
    <3>1. Stays(host, feed, w, Nav!Cleared(w, Nav!Navs))
      BY <1>2, ClearedKeeps DEF Stays
    <3> QED
      BY <1>2, <2>2, <3>1 DEF Stays
  <2>3. CASE Nav!Following(w) /\ page.pending # <<>>
    <3> HIDE DEF x
    <3> QED
      BY <1>2, <1>3, <2>3 DEF Stays
  <2> QED
    BY <2>1, <2>2, <2>3
<1> HIDE DEF next
<1> QED
  BY <1>1, <1>4, BecomesInv

\* An installation is the only step that leaves the branch, for a newer one.
LEMMA ConvertKeeps ==
  ASSUME IInv, Nav!Convert
  PROVE  IInv' /\ (page'.shown = page.shown \/ page'.shown.nav > page.shown.nav)
<1>0. /\ Inv(host, feed, Nav!World) /\ Nav!World \in WorldT /\ Nav!World.page = page
      /\ Nav!World.flight = walk /\ Nav!World.sent = sent /\ Nav!World.log = navLog
  BY WorldNow
<1>1. UNCHANGED <<host, feed>> /\ walk.pc = "converting"
  BY DEF Nav!Convert
<1>2. CASE Nav!Installable(Nav!World)
  <2> DEFINE x == Nav!Installed(Nav!World)
             v == Nav!Acking(x, walk.nav, "acking")
  <2>1. Nav!Becomes(v)
    BY <1>2 DEF Nav!Convert
  <2>2. /\ Inv(host, feed, Nav!Over(x)) /\ Alike(Nav!Over(x), x) /\ walk.nav \in x.page.done
        /\ x.page.shown.nav = walk.nav /\ walk.nav > page.shown.nav
    BY <1>0, <1>1, <1>2, InstalledKeeps
  <2> HIDE DEF x
  <2>3. Stays(host, feed, Nav!Over(x), v)
    BY <2>2, AckingKeeps
  <2>4. v \in WorldT /\ v.page.shown = x.page.shown
    BY <2>2, <2>3 DEF Stays, Inv, Typed, Alike
  <2> HIDE DEF v
  <2>5. Nav!World' = v
    BY <2>1, <2>4, WorldTypes DEF Nav!Becomes, Nav!World
  <2>6. Inv(host', feed', Nav!World')
    BY <1>1, <2>3, <2>5 DEF Stays
  <2> QED
    BY <2>1, <2>2, <2>4, <2>6 DEF IInv, Nav!Becomes
<1>3. CASE ~Nav!Installable(Nav!World)
  <2>1. Nav!Becomes(Nav!Over(Nav!Reconciling(Nav!World))) \/ Nav!Becomes(Nav!Over(Nav!World))
    BY <1>3 DEF Nav!Convert
  <2>2. Alike(Nav!World, Nav!World)
    BY <1>0 DEF Inv, Typed, Alike
  <2>3. Stays(host, feed, Nav!World, Nav!Over(Nav!World))
    BY <1>0, <2>2, OverAlike
  <2>4. Stays(host, feed, Nav!World, Nav!Reconciling(Nav!World))
    BY <1>0, ReconcilingKeeps
  <2>5. Alike(Nav!Reconciling(Nav!World), Nav!Reconciling(Nav!World))
    BY <2>4 DEF Stays, Inv, Typed, Alike
  <2>6. Stays(host, feed, Nav!World, Nav!Over(Nav!Reconciling(Nav!World)))
    BY <2>4, <2>5, OverAlike DEF Stays
  <2> QED
    BY <1>1, <2>1, <2>3, <2>6, BecomesInv
<1> QED
  BY <1>2, <1>3

\* The end of a flight, in a world with the invariant.
LEMMA OverKeeps ==
  ASSUME NEW h, NEW f, NEW w, Inv(h, f, w) PROVE Stays(h, f, w, Nav!Over(w))
<1>1. Alike(w, w)
  BY DEF Inv, Typed, Alike
<1> QED
  BY <1>1, OverAlike

\* A conversion that fails leaves the page as it was, and retries.
LEMMA ConvertFailsKeeps == ASSUME IInv, Nav!ConvertFails PROVE IInv' /\ page'.shown = page.shown
<1>0. /\ Inv(host, feed, Nav!World) /\ Nav!World \in WorldT /\ Nav!World.page = page
      /\ Nav!World.flight = walk /\ Nav!World.sent = sent /\ Nav!World.log = navLog
  BY WorldNow
<1> DEFINE v == [Nav!World EXCEPT !.log.faults = @ + 1]
<1>1. /\ UNCHANGED <<host, feed>> /\ walk.pc = "converting"
      /\ Nav!Becomes(Nav!Over(Nav!Retried(v, walk.nav)))
  BY DEF Nav!ConvertFails
<1>2. Stays(host, feed, Nav!World, v)
  <2>1. v = [Nav!World EXCEPT !.log = [navLog EXCEPT !.faults = navLog.faults + 1]]
    BY <1>0 DEF WorldT, LogT
  <2>2. navLog.faults + 1 \in Nat
    BY <1>0, WorldTypes
  <2> HIDE DEF v
  <2>3. /\ v \in WorldT /\ v.page = page /\ v.flight = Nav!World.flight /\ v.sent = Nav!World.sent
        /\ v.log.installed = navLog.installed /\ v.log.foreign = navLog.foreign
        /\ v.log.navs = navLog.navs /\ v.log.prompts = navLog.prompts /\ v.log.may = navLog.may
    BY <1>0, <2>1, <2>2 DEF WorldT, LogT
  <2> QED
    BY <1>0, <2>3, Bookkeeping
<1> HIDE DEF v
<1>3. walk.nav \in Nav!Navs
  BY <1>0, <1>1, WorldTypes DEF Inv, FlightOK
<1>4. Stays(host, feed, v, Nav!Retried(v, walk.nav))
  BY <1>2, <1>3, RetriedKeeps DEF Stays
<1>5. Stays(host, feed, Nav!World, Nav!Over(Nav!Retried(v, walk.nav)))
  BY <1>2, <1>4, OverKeeps DEF Stays
<1> QED
  BY <1>1, <1>5, BecomesInv

\* An acknowledgement that fails leaves what was installed, and retries.
LEMMA AckFailsKeeps == ASSUME IInv, Nav!AckFails PROVE IInv' /\ page'.shown = page.shown
<1>0. /\ Inv(host, feed, Nav!World) /\ Nav!World \in WorldT /\ Nav!World.page = page
      /\ Nav!World.flight = walk /\ Nav!World.sent = sent /\ Nav!World.log = navLog
  BY WorldNow
<1> PICK gone \in BOOLEAN :
      /\ sent # <<>> /\ UNCHANGED <<host, feed>>
      /\ Nav!Becomes(Nav!Answered([Nav!World EXCEPT !.sent = IF gone THEN Nav!Front(@) ELSE @,
                                        !.log.faults = @ + 1], Nav!Last(sent), FALSE))
  BY DEF Nav!AckFails
<1> DEFINE q == IF gone THEN Nav!Front(sent) ELSE sent
           x == [Nav!World EXCEPT !.sent = q]
           v == [Nav!World EXCEPT !.sent = IF gone THEN Nav!Front(@) ELSE @, !.log.faults = @ + 1]
           r == Nav!Last(sent)
<1>1. sent # <<>> /\ UNCHANGED <<host, feed>> /\ Nav!Becomes(Nav!Answered(v, r, FALSE))
  OBVIOUS
<1>2. Stays(host, feed, Nav!World, x)
  <2>1. CASE gone
    <3>1. x = [Nav!World EXCEPT !.sent = Nav!Front(Nav!World.sent)] /\ Nav!World.sent # <<>>
      BY <1>0, <1>1, <2>1
    <3> HIDE DEF x
    <3> QED
      BY <1>0, <3>1, SentFront
  <2>2. CASE ~gone
    <3>1. x = Nav!World
      BY <1>0, <2>2 DEF WorldT
    <3> HIDE DEF x
    <3> QED
      BY <1>0, <3>1 DEF Stays
  <2> QED
    BY <2>1, <2>2
<1>3. v = [x EXCEPT !.log = [x.log EXCEPT !.faults = x.log.faults + 1]]
  BY <1>0 DEF WorldT, LogT
<1> HIDE DEF x, v, r
<1>4. Stays(host, feed, x, v)
  <2>1. x \in WorldT /\ Inv(host, feed, x)
    BY <1>2 DEF Stays, Inv, Typed
  <2>2. x.log.faults + 1 \in Nat
    BY <2>1, WorldTypes
  <2>3. /\ v \in WorldT /\ v.page = x.page /\ v.flight = x.flight /\ v.sent = x.sent
        /\ v.log.installed = x.log.installed /\ v.log.foreign = x.log.foreign
        /\ v.log.navs = x.log.navs /\ v.log.prompts = x.log.prompts /\ v.log.may = x.log.may
    BY <1>3, <2>1, <2>2 DEF WorldT, LogT
  <2> QED
    BY <2>1, <2>3, Bookkeeping
<1>5. Stays(host, feed, v, Nav!Answered(v, r, FALSE))
  <2> DEFINE ok == FALSE
  <2>1. ok \in BOOLEAN /\ Inv(host, feed, v)
    BY <1>4 DEF Stays
  <2> HIDE DEF ok
  <2>2. Stays(host, feed, v, Nav!Answered(v, r, ok))
    BY <2>1, AnsweredKeeps
  <2> QED
    BY <2>2 DEF ok
<1>6. Stays(host, feed, Nav!World, Nav!Answered(v, r, FALSE))
  BY <1>2, <1>4, <1>5 DEF Stays
<1> QED
  BY <1>1, <1>6, BecomesInv

\* What follows an acknowledgement forgets only what the page has shown.
LEMMA ContinueKeeps == ASSUME IInv, Nav!Continue PROVE IInv' /\ page'.shown = page.shown
<1> DEFINE nav == walk.nav
           w == Nav!Retired(Nav!World, nav)
           x == [w EXCEPT !.flight.olds = Tail(@)]
           c == Nav!Cleared(x, {nav})
<1>0. /\ Inv(host, feed, Nav!World) /\ Nav!World \in WorldT /\ Nav!World.page = page
      /\ Nav!World.flight = walk /\ Nav!World.sent = sent /\ Nav!World.log = navLog
  BY WorldNow
<1>1. UNCHANGED <<host, feed>> /\ walk.pc \in {"acked", "ackedOld"}
  BY DEF Nav!Continue
<1>2. nav \in Nav!Navs
  BY <1>0, <1>1, WorldTypes DEF Inv, FlightOK
<1>3. /\ Stays(host, feed, Nav!World, w) /\ (walk.pc = "ackedOld" => Len(w.page.pending) <= 1)
      /\ w.flight = walk /\ w.page.done = page.done
  BY <1>0, <1>1, RetiredKeeps
<1>4. \/ Nav!Becomes(Nav!Over(Nav!Retried(Nav!World, nav)))
      \/ walk.pc = "ackedOld" /\ Nav!Becomes(Nav!Proceeded(c))
      \/ Nav!Becomes(Nav!Over(Nav!Cleared(w, {nav})))
      \/ Nav!Becomes(Nav!Over(Nav!Reconciling(w)))
  BY DEF Nav!Continue
<1> HIDE DEF w
<1>5. w \in WorldT /\ Inv(host, feed, w)
  BY <1>3 DEF Stays, Inv, Typed
<1>6. Stays(host, feed, Nav!World, Nav!Over(Nav!Retried(Nav!World, nav)))
  <2>1. Stays(host, feed, Nav!World, Nav!Retried(Nav!World, nav))
    BY <1>0, <1>2, RetriedKeeps
  <2> QED
    BY <2>1, OverKeeps DEF Stays
<1>7. Stays(host, feed, Nav!World, Nav!Over(Nav!Cleared(w, {nav})))
  <2>1. Stays(host, feed, w, Nav!Cleared(w, {nav}))
    BY <1>5, ClearedKeeps
  <2> QED
    BY <1>3, <2>1, OverKeeps DEF Stays
<1>8. Stays(host, feed, Nav!World, Nav!Over(Nav!Reconciling(w)))
  <2>1. Stays(host, feed, w, Nav!Reconciling(w))
    BY <1>5, ReconcilingKeeps
  <2> QED
    BY <1>3, <2>1, OverKeeps DEF Stays
<1>9. ASSUME walk.pc = "ackedOld" PROVE Stays(host, feed, Nav!World, Nav!Proceeded(c))
  <2>1. w.flight.olds = <<nav>>
    BY <1>3, <1>5, <1>9 DEF Inv, FlightOK
  <2> DEFINE olds == Tail(w.flight.olds)
  <2>2. olds = <<>>
    <3>1. Len(<<nav>>) = 1 /\ <<nav>> \in Seq({nav})
      OBVIOUS
    <3> QED
      BY <2>1, <3>1
  <2>3. x = [w EXCEPT !.flight = [w.flight EXCEPT !.olds = <<>>]]
    BY <1>5, <2>2 DEF WorldT, FlightT
  <2>4. <<>> \in Seq(Nav!Navs)
    OBVIOUS
  <2> DEFINE tries == [n \in Nav!Navs |-> IF n \in {nav} THEN 0 ELSE x.page.tries[n]]
  <2>5. c = [x EXCEPT !.page.timers = @ \ {nav},
                      !.page.tries = [n \in Nav!Navs |-> IF n \in {nav} THEN 0 ELSE @[n]]]
    BY DEF Nav!Cleared
  <2> HIDE DEF x, c
  <2>6. /\ x \in WorldT /\ x.page = w.page /\ x.sent = w.sent /\ x.log = w.log
        /\ x.flight.olds = <<>>
    BY <1>5, <2>3, <2>4 DEF WorldT, FlightT
  <2>7. tries \in [Nav!Navs -> 0..Nav!Retries]
    <3>1. x.page.tries \in [Nav!Navs -> 0..3]
      BY <2>6, WorldTypes, NavsAreNumbers
    <3>2. ASSUME NEW n \in Nav!Navs PROVE (IF n \in {nav} THEN 0 ELSE x.page.tries[n]) \in 0..3
      BY <3>1
    <3> QED
      BY <3>2, NavsAreNumbers
  <2>8. c = [x EXCEPT !.page = [x.page EXCEPT !.timers = x.page.timers \ {nav}, !.tries = tries]]
    BY <2>5, <2>6 DEF WorldT, PageT
  <2>9. \A n \in x.page.timers \ {nav} : tries[n] > 0
    BY <1>5, <2>6, WorldTypes DEF Inv, Typed
  <2> HIDE DEF tries
  <2>10. /\ c \in WorldT /\ c.page.done = w.page.done /\ c.page.shown = w.page.shown
         /\ c.page.dirty = w.page.dirty /\ c.page.pending = w.page.pending
         /\ c.page.epoch = w.page.epoch /\ c.page.life = w.page.life /\ c.sent = w.sent
         /\ c.log = w.log /\ c.page.timers = x.page.timers \ {nav} /\ c.page.tries = tries
         /\ c.flight.olds = <<>>
    BY <2>6, <2>7, <2>8 DEF WorldT, PageT
  <2>11. Alike(w, c)
    BY <2>9, <2>10 DEF Alike
  <2>12. Stays(host, feed, w, Nav!Proceeded(c))
    BY <1>3, <1>5, <1>9, <2>10, <2>11, ProceededKeeps
  <2> QED
    BY <1>3, <2>12 DEF Stays
<1> HIDE DEF c
<1> QED
  BY <1>1, <1>4, <1>6, <1>7, <1>8, <1>9, BecomesInv

\* A retry timer that fires.
LEMMA TimerKeeps ==
  ASSUME IInv, NEW nav \in Nav!Navs, Nav!Timer(nav) PROVE IInv' /\ page'.shown = page.shown
<1> DEFINE v == [Nav!World EXCEPT !.page.timers = @ \ {nav}]
<1>0. /\ Inv(host, feed, Nav!World) /\ Nav!World \in WorldT /\ Nav!World.page = page
      /\ Nav!World.flight = walk /\ Nav!World.sent = sent /\ Nav!World.log = navLog
  BY WorldNow
<1>1. UNCHANGED <<host, feed>> /\ Nav!Becomes(Nav!Reconciling(v))
  BY DEF Nav!Timer
<1>2. Stays(host, feed, Nav!World, v)
  <2>1. v = [Nav!World EXCEPT !.page = [page EXCEPT !.timers = page.timers \ {nav}]]
    BY <1>0 DEF WorldT, PageT
  <2> HIDE DEF v
  <2>2. page.timers \ {nav} \subseteq Nav!Navs
    BY <1>0, WorldTypes
  <2>3. /\ v \in WorldT /\ v.page.done = page.done /\ v.page.shown = page.shown
        /\ v.page.dirty = page.dirty /\ v.page.pending = page.pending
        /\ v.page.epoch = page.epoch /\ v.page.life = page.life /\ v.flight = Nav!World.flight
        /\ v.sent = Nav!World.sent /\ v.page.timers = page.timers \ {nav}
        /\ v.page.tries = page.tries /\ v.log = Nav!World.log
    BY <1>0, <2>1, <2>2 DEF WorldT, PageT
  <2>4. v.page.timers \subseteq page.timers
    BY <2>3
  <2> QED
    BY <1>0, <2>3, <2>4, Bookkeeping
<1> HIDE DEF v
<1>3. Stays(host, feed, Nav!World, Nav!Reconciling(v))
  BY <1>2, ReconcilingKeeps DEF Stays
<1> QED
  BY <1>1, <1>3, BecomesInv

\* A page that loses its place forgets what it knew and asks to attach.
LEMMA FenceKeeps == ASSUME IInv, Nav!Fence PROVE IInv' /\ page'.shown = page.shown
<1> DEFINE v == [Nav!World EXCEPT !.log.fences = @ + 1]
<1>0. /\ Inv(host, feed, Nav!World) /\ Nav!World \in WorldT /\ Nav!World.page = page
      /\ Nav!World.flight = walk /\ Nav!World.sent = sent /\ Nav!World.log = navLog
  BY WorldNow
<1>1. UNCHANGED <<host, feed>> /\ Nav!Becomes(Nav!Asking(v))
  BY DEF Nav!Fence
<1>2. Stays(host, feed, Nav!World, v)
  <2>1. v = [Nav!World EXCEPT !.log = [navLog EXCEPT !.fences = navLog.fences + 1]]
    BY <1>0 DEF WorldT, LogT
  <2>2. navLog.fences + 1 \in Nat
    BY <1>0, WorldTypes
  <2> HIDE DEF v
  <2>3. /\ v \in WorldT /\ v.page = page /\ v.flight = Nav!World.flight /\ v.sent = Nav!World.sent
        /\ v.log.installed = navLog.installed /\ v.log.foreign = navLog.foreign
        /\ v.log.navs = navLog.navs /\ v.log.prompts = navLog.prompts /\ v.log.may = navLog.may
    BY <1>0, <2>1, <2>2 DEF WorldT, LogT
  <2> QED
    BY <1>0, <2>3, Bookkeeping
<1> HIDE DEF v
<1>3. Stays(host, feed, Nav!World, Nav!Asking(v))
  BY <1>2, AskingKeeps DEF Stays
<1> QED
  BY <1>1, <1>3, BecomesInv

\* Receiving a message keeps the invariant, and the page at the branch it shows.
LEMMA ReceiveKeeps ==
  ASSUME IInv, Nav!Receive
  PROVE  IInv' /\ page'.shown.nav = page.shown.nav /\ page'.shown.events >= page.shown.events
<1> DEFINE v == Nav!Received(Nav!World, Head(feed))
<1>0. /\ Inv(host, feed, Nav!World) /\ Nav!World \in WorldT /\ Nav!World.page = page
  BY WorldNow
<1>1. feed # <<>> /\ feed' = Tail(feed) /\ Nav!Becomes(v) /\ host' = host
  BY DEF Nav!Receive
<1>2. /\ Inv(host, Tail(feed), v) /\ v.page.shown.nav = page.shown.nav
      /\ v.page.shown.events >= page.shown.events
  BY <1>0, <1>1, ReceivedKeeps
<1> HIDE DEF v
<1>3. v \in WorldT
  BY <1>2 DEF Inv, Typed
<1>4. Nav!World' = v
  BY <1>1, <1>3, WorldTypes DEF Nav!Becomes, Nav!World
<1>5. Inv(host', feed', Nav!World')
  BY <1>1, <1>2, <1>4
<1> QED
  BY <1>1, <1>2, <1>5 DEF IInv, Nav!Becomes

\* A page that is reloaded knows nothing, and only its predecessor's requests are
\* under way.
LEMMA ReloadKeeps == ASSUME IInv, Nav!Reload PROVE IInv' /\ page'.life # page.life
<1> DEFINE life == page.life + 1
           p == Nav!FreshPage(life)
           r == Nav!Attaching(life)
           q == Append(sent, r)
           v == [page |-> p, flight |-> Nav!NoFlight, sent |-> q, log |-> navLog]
           n == Len(sent)
<1>0. /\ Inv(host, feed, Nav!World) /\ Nav!World \in WorldT /\ Nav!World.page = page
      /\ Nav!World.flight = walk /\ Nav!World.sent = sent /\ Nav!World.log = navLog
  BY WorldNow
<1>1. /\ page' = p /\ walk' = Nav!NoFlight /\ feed' = <<>> /\ sent' = q /\ host' = host /\ navLog' = navLog
  BY DEF Nav!Reload
<1>2. Nav!World' = v
  BY <1>1 DEF Nav!World
<1>3. /\ page.life \in Nat /\ life \in Nat /\ life > page.life /\ life > 0
      /\ sent \in Seq(RequestT) /\ navLog \in LogT
  BY <1>0, WorldTypes
<1>4. r \in RequestT /\ r.nav = Nav!None /\ r.life = life
  BY <1>3, NavsAreNumbers DEF Nav!Attaching, Nav!Request, RequestT
<1> HIDE DEF r
<1>5. /\ p \in PageT /\ p.life = life /\ p.epoch = Nav!None /\ p.pending = <<>>
      /\ p.shown.nav = Nav!None /\ p.dirty = TRUE /\ p.done = {} /\ p.timers = {}
  <2>1. [x \in Nav!Navs |-> 0] \in [Nav!Navs -> 0..Nav!Retries]
    BY NavsAreNumbers
  <2>2. Nav!Shown(Nav!None, 0) \in ShownT /\ Nav!Shown(Nav!None, 0).nav = Nav!None
    BY DEF Nav!Shown, ShownT
  <2>3. (life > 0) = TRUE
    BY <1>3
  <2>4. <<>> \in Seq(Nav!Navs)
    OBVIOUS
  <2> HIDE DEF life
  <2> QED
    BY <1>3, <2>1, <2>2, <2>3, <2>4, NavsAreNumbers DEF Nav!FreshPage, PageT
<1> HIDE DEF p
<1>6. Nav!NoFlight \in FlightT /\ Nav!NoFlight.nav = Nav!None
  BY DEF Nav!NoFlight, FlightT, Nav!None
<1>7. /\ q \in Seq(RequestT) /\ n \in Nat /\ DOMAIN q = 1..(n + 1) /\ DOMAIN sent = 1..n
      /\ q[n + 1] = r /\ \A i \in 1..n : q[i] = sent[i]
  BY <1>3, <1>4
<1> HIDE DEF q, life
<1>8. /\ v \in WorldT /\ v.page = p /\ v.flight = Nav!NoFlight /\ v.sent = q /\ v.log = navLog
  BY <1>3, <1>5, <1>6, <1>7 DEF WorldT
<1> HIDE DEF v
<1>9. Waiting(v) = {}
  BY <1>5, <1>8, ShortPlaces DEF Waiting
<1>10. Known(v) \subseteq Known(Nav!World)
  BY <1>0, <1>4, <1>5, <1>6, <1>7, <1>8, <1>9, NavsAreNumbers DEF Known
<1>11. <<>> \in Seq(MessageT) /\ DOMAIN <<>> = {}
  BY ShortPlaces
<1>12. Typed(host, <<>>, v)
  <2>1. host.epoch \in Nat
    BY <1>0 DEF Inv, Typed, HostT
  <2>2. Nav!None <= host.epoch
    BY <2>1, NavsAreNumbers
  <2> QED
    BY <1>0, <1>5, <1>8, <1>11, <2>2 DEF Inv, Typed
<1>13. Alone(host, v) /\ Numbered(host, v.log)
  BY <1>0, <1>8 DEF Inv, Alone
<1>14. OrderHost(host, <<>>, v)
  BY <1>0, <1>8, <1>10, <1>11 DEF Inv, OrderHost, Older
<1>15. /\ OrderWire(<<>>) /\ OrderPage(<<>>, v) /\ Told1(<<>>, v) /\ Told2(<<>>, v)
       /\ EscrowWire(host, <<>>, v)
  BY <1>11 DEF OrderWire, OrderPage, Told1, Told2, EscrowWire
<1>16. PageOK(v)
  BY <1>5, <1>8, <1>9, ShortPlaces DEF PageOK
<1>17. FlightOK(v)
  BY <1>8 DEF FlightOK, Nav!NoFlight
<1>18. SentOK(<<>>, v)
  <2>1. SentOK(feed, Nav!World)
    BY <1>0 DEF Inv
  <2>2. \A i \in 1..n : sent[i].life <= page.life /\ sent[i].life \in Nat
    <3> SUFFICES ASSUME NEW i \in 1..n PROVE sent[i].life <= page.life /\ sent[i].life \in Nat
      OBVIOUS
    <3>1. sent[i] \in RequestT /\ i \in DOMAIN sent
      BY <1>3, <1>7
    <3>2. sent[i].life \in Nat
      BY <3>1 DEF RequestT
    <3> QED
      BY <1>0, <2>1, <3>1, <3>2 DEF SentOK
  <2>3. \A i \in 1..n : sent[i].life < life
    BY <1>3, <2>2 DEF life
  <2>4. ASSUME NEW i \in DOMAIN q
        PROVE  /\ q[i].life <= life
               /\ q[i].nav # Nav!None => q[i].nav \in navLog.installed /\ q[i].life # life
    <3>1. CASE i = n + 1
      BY <1>3, <1>4, <1>7, <3>1
    <3>2. CASE i \in 1..n
      BY <1>0, <1>3, <1>7, <2>1, <2>2, <2>3, <3>2 DEF SentOK
    <3> QED
      BY <1>7, <3>1, <3>2
  <2>5. ASSUME NEW i \in DOMAIN q, NEW j \in DOMAIN q, i < j PROVE q[i].life <= q[j].life
    <3>1. i \in 1..n
      BY <1>7, <2>5
    <3>2. CASE j = n + 1
      BY <1>3, <1>4, <1>7, <2>2, <2>3, <3>1, <3>2
    <3>3. CASE j \in 1..n
      BY <1>0, <1>7, <2>1, <2>5, <3>1, <3>3 DEF SentOK
    <3> QED
      BY <1>7, <3>2, <3>3
  <2>6. \A k \in DOMAIN <<>> : <<>>[k].kind # "attach"
    BY <1>11
  <2>7. v.sent = q /\ v.page.life = life /\ v.log.installed = navLog.installed
    BY <1>5, <1>8
  <2>8. v.page.epoch = Nav!None /\ v.page.done = {} /\ v.page.dirty
    BY <1>5, <1>8
  <2> HIDE DEF n
  <2>9. \A i \in DOMAIN v.sent :
          /\ v.sent[i].life <= v.page.life
          /\ v.sent[i].nav # Nav!None =>
               /\ v.sent[i].nav \in v.log.installed
               /\ v.sent[i].life = v.page.life => v.sent[i].nav \in v.page.done
    BY <2>4, <2>7
  <2>10. \A i, j \in DOMAIN v.sent : i < j => v.sent[i].life <= v.sent[j].life
    BY <2>5, <2>7
  <2> HIDE DEF v
  <2> QED
    BY <2>6, <2>8, <2>9, <2>10 DEF SentOK
<1>19. EscrowPage(host, v)
  BY <1>9 DEF EscrowPage
<1>20. Unshown(host, v)
  BY <1>0, <1>8 DEF Inv, Unshown
<1>21. Elsewhere(host, <<>>, v)
  BY <1>5, <1>8, <1>11 DEF Elsewhere
<1>22. Tally(host, <<>>, v)
  BY <1>0, <1>5, <1>8, <1>9, <1>11 DEF Inv, Tally, NoEventAfter
<1>23. Inv(host, <<>>, v)
  BY <1>12, <1>13, <1>14, <1>15, <1>16, <1>17, <1>18, <1>19, <1>20, <1>21, <1>22 DEF Inv
<1>24. page'.life # page.life
  BY <1>1, <1>3, <1>5
<1>25. Inv(host', feed', Nav!World')
  BY <1>1, <1>2, <1>23
<1> QED
  BY <1>24, <1>25 DEF IInv

-----------------------------------------------------------------------------
\* The parts of a host, by their types.
LEMMA HostTypes ==
  ASSUME NEW h \in HostT
  PROVE  /\ h.epoch \in Nat /\ h.epoch # 0 /\ h.jobs \in Seq(Nav!Navs) /\ h.running \in Nav!Navs \cup {Nav!None}
         /\ h.toSettle \in Seq(Nav!Navs) /\ h.pending \in Seq(ItemT) /\ h.acked \subseteq Nav!Navs
         /\ h.outcomes \subseteq Nav!Navs /\ h.held \in Nat /\ h.truth \in ShownT
         /\ h.truth.nav \in Nav!Navs \cup {Nav!None} /\ h.truth.events \in Nat
         /\ h.truth.nav \in Nat /\ h.running \in Nat
<1>1. /\ h.epoch \in Nat /\ h.epoch # 0 /\ h.jobs \in Seq(Nav!Navs) /\ h.running \in Nav!Navs \cup {Nav!None}
      /\ h.toSettle \in Seq(Nav!Navs) /\ h.pending \in Seq(ItemT) /\ h.acked \subseteq Nav!Navs
      /\ h.outcomes \subseteq Nav!Navs /\ h.held \in Nat /\ h.truth \in ShownT
  BY DEF HostT
<1>2. h.truth.nav \in Nav!Navs \cup {Nav!None} /\ h.truth.events \in Nat
  BY <1>1 DEF ShownT
<1> QED
  BY <1>1, <1>2, NavsAreNumbers

\* A host on the same branch, with the same escrow, that keeps the order.
LEMMA HostOrdered ==
  ASSUME NEW h, NEW f, NEW w, NEW g, Inv(h, f, w), g \in HostT,
         g.epoch = h.epoch, g.toSettle = h.toSettle, g.pending = h.pending, g.truth = h.truth,
         g.held <= w.log.prompts, Alone(g, w), Numbered(g, w.log), OrderHost(g, f, w)
  PROVE  Inv(g, f, w)
<1>1. Typed(g, f, w)
  BY DEF Inv, Typed
<1>2. EscrowPage(g, w) /\ EscrowWire(g, f, w)
  BY DEF Inv, EscrowPage, EscrowWire, InEscrow
<1>3. Unshown(g, w) /\ Elsewhere(g, f, w) /\ Tally(g, f, w)
  BY DEF Inv, Unshown, Elsewhere, Tally, NoEventAfter
<1> QED
  BY <1>1, <1>2, <1>3 DEF Inv

\* The same, member by member of what is known.
LEMMA HostKin ==
  ASSUME NEW h, NEW f, NEW w, NEW g, Inv(h, f, w), g \in HostT,
         g.epoch = h.epoch, g.toSettle = h.toSettle, g.pending = h.pending, g.truth = h.truth,
         g.held <= w.log.prompts, Alone(g, w), Numbered(g, w.log),
         \A x \in Nav!Navs : Older(h, w.log, x) => Older(g, w.log, x)
  PROVE  Inv(g, f, w)
<1>1. w \in WorldT /\ \A x \in Known(w) : x \in Nav!Navs
  BY WorldTypes DEF Inv, Typed, Known, Waiting
<1>2. OrderHost(g, f, w)
  BY <1>1 DEF Inv, OrderHost, Told
<1> QED
  BY <1>2, HostOrdered

\* The same, when what it has to do is the same too.
LEMMA HostTwin ==
  ASSUME NEW h, NEW f, NEW w, NEW g, Inv(h, f, w), g \in HostT,
         g.epoch = h.epoch, g.toSettle = h.toSettle, g.pending = h.pending, g.truth = h.truth,
         g.jobs = h.jobs, g.running = h.running, g.held <= w.log.prompts
  PROVE  Inv(g, f, w)
<1>1. Alone(g, w) /\ Numbered(g, w.log)
  BY DEF Inv, Alone, Numbered
<1>2. \A x \in Nav!Navs : Older(h, w.log, x) => Older(g, w.log, x)
  BY DEF Older
<1> QED
  BY <1>1, <1>2, HostKin

\* More navigations and prompts than before.
LEMMA LogGrows ==
  ASSUME NEW h, NEW f, NEW w, NEW v, Inv(h, f, w), v \in WorldT, v.page = w.page,
         v.flight = w.flight, v.sent = w.sent, v.log.installed = w.log.installed,
         v.log.foreign = w.log.foreign, v.log.may = w.log.may,
         v.log.navs >= w.log.navs, v.log.navs <= v.log.may.navs,
         v.log.prompts >= w.log.prompts, v.log.prompts <= v.log.may.prompts
  PROVE  Inv(h, f, v)
<1>1. h \in HostT /\ w \in WorldT
  BY DEF Inv, Typed
<1>2. /\ w.log.navs \in Nat /\ v.log.navs \in Nat /\ w.log.prompts \in Nat /\ v.log.prompts \in Nat
      /\ h.held \in Nat /\ h.truth.nav \in Nat /\ h.running \in Nat
  BY <1>1, WorldTypes, HostTypes
<1>3. Waiting(v) = Waiting(w) /\ Known(v) = Known(w)
  BY DEF Waiting, Known
<1>4. Typed(h, f, v)
  BY <1>2 DEF Inv, Typed
<1>5. Numbered(h, v.log)
  <2>1. ASSUME NEW i \in DOMAIN h.jobs PROVE h.jobs[i] \in Nat
    <3>1. h.jobs \in Seq(Nav!Navs)
      BY <1>1, HostTypes
    <3>2. h.jobs[i] \in Nav!Navs
      BY <3>1
    <3> QED
      BY <3>2, NavsAreNumbers
  <2> QED
    BY <1>2, <2>1 DEF Inv, Numbered
<1>6. \A x \in Nav!Navs : Older(h, w.log, x) => Older(h, v.log, x)
  BY <1>2, NavsAreNumbers DEF Older
<1>7. OrderHost(h, f, v)
  <2>1. \A x \in Known(w) : x \in Nav!Navs
    BY <1>1, WorldTypes DEF Known, Waiting
  <2> QED
    BY <1>3, <1>6, <2>1 DEF Inv, OrderHost, Told
<1>8. OrderPage(f, v) /\ Told1(f, v) /\ Told2(f, v) /\ SentOK(f, v)
  BY <1>3 DEF Inv, OrderPage, Told1, Told2, SentOK
<1>9. PageOK(v) /\ FlightOK(v)
  BY <1>3 DEF Inv, PageOK, FlightOK
<1>10. EscrowPage(h, v) /\ EscrowWire(h, f, v) /\ Alone(h, v)
  BY <1>3 DEF Inv, EscrowPage, EscrowWire, Alone
<1>11. Unshown(h, v) /\ Elsewhere(h, f, v) /\ Tally(h, f, v)
  BY <1>3 DEF Inv, Unshown, Elsewhere, Tally
<1> QED
  BY <1>4, <1>5, <1>7, <1>8, <1>9, <1>10, <1>11 DEF Inv

\* A wire with one more message.
LEMMA AppendPlaces ==
  ASSUME NEW S, NEW f \in Seq(S), NEW m \in S
  PROVE  /\ Append(f, m) \in Seq(S) /\ Len(f) \in Nat /\ DOMAIN f = 1..Len(f)
         /\ DOMAIN Append(f, m) = 1..(Len(f) + 1) /\ Append(f, m)[Len(f) + 1] = m
         /\ \A k \in DOMAIN f : k \in DOMAIN Append(f, m) /\ Append(f, m)[k] = f[k]
         /\ \A k \in DOMAIN Append(f, m) : k \in DOMAIN f \/ k = Len(f) + 1
         /\ \A j, k \in DOMAIN Append(f, m) : j < k => j \in DOMAIN f
         /\ Len(f) + 1 \in DOMAIN Append(f, m)
<1>1. Len(f) \in Nat /\ DOMAIN f = 1..Len(f)
  OBVIOUS
<1>2. /\ Append(f, m) \in Seq(S) /\ DOMAIN Append(f, m) = 1..(Len(f) + 1)
      /\ Append(f, m)[Len(f) + 1] = m
  OBVIOUS
<1>3. \A k \in 1..Len(f) : Append(f, m)[k] = f[k]
  OBVIOUS
<1> QED
  BY <1>1, <1>2, <1>3

\* A message that tells of no branch, appended; all but the count of events.
LEMMA AppendMost ==
  ASSUME NEW h, NEW f, NEW w, NEW m, Inv(h, f, w), m \in MessageT, MessageOK(m),
         m.kind \in {"frame", "event", "lost"}, m.epoch <= h.epoch
  PROVE  Most(h, Append(f, m), w) /\ f \in Seq(MessageT)
         /\ (m.kind # "event" => (NoEventAfter(h, f) => NoEventAfter(h, Append(f, m))))
         /\ (m.kind # "event" /\ (\A j \in DOMAIN f : f[j].kind # "event")
                => \A j \in DOMAIN Append(f, m) : Append(f, m)[j].kind # "event")
<1> DEFINE g == Append(f, m)
           n == Len(f) + 1
<1>1. f \in Seq(MessageT)
  BY DEF Inv, Typed
<1>2. /\ g \in Seq(MessageT) /\ n \in DOMAIN g /\ g[n] = m
      /\ \A k \in DOMAIN f : k \in DOMAIN g /\ g[k] = f[k]
      /\ \A k \in DOMAIN g : k \in DOMAIN f \/ k = n
      /\ \A j, k \in DOMAIN g : j < k => j \in DOMAIN f
  BY <1>1, AppendPlaces
<1> HIDE DEF g, n
<1>3. Told(m) = {}
  BY NavsAreNumbers, ShortPlaces DEF MessageOK, Told
<1>4. Typed(h, g, w)
  BY <1>2 DEF Inv, Typed
<1>5. OrderHost(h, g, w)
  BY <1>2, <1>3 DEF Inv, OrderHost
<1>6. OrderWire(g)
  BY <1>2, <1>3 DEF Inv, OrderWire
<1>7. OrderPage(g, w)
  BY <1>2, <1>3 DEF Inv, OrderPage
<1>8. SentOK(g, w)
  BY <1>2 DEF Inv, SentOK
<1>9. Told1(g, w) /\ Told2(g, w)
  BY <1>2 DEF Inv, Told1, Told2
<1>10. EscrowWire(h, g, w) /\ Elsewhere(h, g, w)
  BY <1>2, <1>3 DEF Inv, EscrowWire, Elsewhere
<1>11. Most(h, g, w)
  BY <1>4, <1>5, <1>6, <1>7, <1>8, <1>9, <1>10 DEF Most, Inv
<1>12. m.kind # "event" => (NoEventAfter(h, f) => NoEventAfter(h, g))
  BY <1>2, <1>3 DEF NoEventAfter
<1>13. m.kind # "event" /\ (\A j \in DOMAIN f : f[j].kind # "event")
         => \A j \in DOMAIN g : g[j].kind # "event"
  BY <1>2
<1> QED
  BY <1>1, <1>11, <1>12, <1>13 DEF g

\* Sending a frame, or word of a lost host, keeps the invariant.
LEMMA AppendQuiet ==
  ASSUME NEW h, NEW f, NEW w, NEW m, Inv(h, f, w), m \in MessageT, MessageOK(m),
         m.kind \in {"frame", "lost"}, m.epoch <= h.epoch
  PROVE  Inv(h, Append(f, m), w)
<1> DEFINE g == Append(f, m)
<1>1. /\ Most(h, g, w) /\ f \in Seq(MessageT) /\ (NoEventAfter(h, f) => NoEventAfter(h, g))
      /\ (\A j \in DOMAIN f : f[j].kind # "event") => \A j \in DOMAIN g : g[j].kind # "event"
  BY AppendMost
<1>2. w.page.shown.events \in Nat /\ h.truth.events \in Nat
  BY WorldTypes, HostTypes DEF Inv, Typed
<1>3. ASSUME Counts(f, w.page.shown.events, h.truth.events)
      PROVE  Counts(g, w.page.shown.events, h.truth.events)
  BY <1>1, <1>2, <1>3, CountsAppend
<1> HIDE DEF g
<1>4. Tally(h, g, w)
  BY <1>1, <1>3 DEF Inv, Tally
<1>5. Inv(h, g, w)
  BY <1>1, <1>4 DEF Inv, Most
<1> QED
  BY <1>5 DEF g

\* An entry on the host's branch, and the event that tells of it: of a prompt
\* that is not held back, or of an extension.
LEMMA EventAppended ==
  ASSUME NEW h, NEW f, NEW w, NEW g, NEW v, NEW m, Inv(h, f, w), m \in MessageT, MessageOK(m),
         m.kind = "event", m.epoch <= h.epoch, g \in HostT, v \in WorldT,
         g.epoch = h.epoch, g.toSettle = h.toSettle, g.pending = h.pending, g.jobs = h.jobs,
         g.running = h.running, g.truth.nav = h.truth.nav, g.truth.events = h.truth.events + 1,
         g.held <= v.log.prompts, v.page = w.page, v.flight = w.flight, v.sent = w.sent,
         v.log.installed = w.log.installed, v.log.may = w.log.may, v.log.navs = w.log.navs,
         v.log.prompts <= v.log.may.prompts,
         \/ h.pending = <<>> /\ v.log.foreign = w.log.foreign
         \/ v.log.foreign = w.log.foreign + 1
  PROVE  Inv(g, Append(f, m), v)
<1> DEFINE e == Append(f, m)
<1>1. Most(h, e, w) /\ f \in Seq(MessageT)
  BY AppendMost
<1>2. /\ w.page.shown.events \in Nat /\ h.truth.events \in Nat /\ w.log.foreign \in Nat
      /\ v.log.foreign \in Nat
  BY WorldTypes, HostTypes DEF Inv, Typed
<1>3. ASSUME Counts(f, w.page.shown.events, h.truth.events)
      PROVE  Counts(e, w.page.shown.events, g.truth.events)
  BY <1>1, <1>2, <1>3, CountsAppend
<1> HIDE DEF e
<1>4. Waiting(v) = Waiting(w) /\ Known(v) = Known(w)
  BY DEF Waiting, Known
<1>5. Typed(g, e, v)
  BY <1>1 DEF Most, Typed
<1>6. Alone(g, v) /\ Numbered(g, v.log)
  BY <1>1 DEF Most, Alone, Numbered
<1>7. OrderHost(g, e, v) /\ OrderWire(e) /\ OrderPage(e, v)
  BY <1>1, <1>4 DEF Most, OrderHost, OrderPage, Older
<1>8. PageOK(v) /\ FlightOK(v) /\ SentOK(e, v)
  BY <1>1, <1>4 DEF Most, PageOK, FlightOK, SentOK
<1>9. Told1(e, v) /\ Told2(e, v)
  BY <1>1, <1>4 DEF Most, Told1, Told2
<1>10. EscrowPage(g, v) /\ EscrowWire(g, e, v)
  BY <1>1, <1>4 DEF Most, EscrowPage, EscrowWire, InEscrow
<1>11. Elsewhere(g, e, v)
  BY <1>1 DEF Most, Elsewhere
<1>12. Unshown(g, v)
  BY <1>1, <1>2 DEF Most, Unshown
<1>13. Tally(g, e, v)
  <2>1. CASE h.pending = <<>> /\ v.log.foreign = w.log.foreign
    BY <1>3, <2>1 DEF Inv, Tally
  <2>2. CASE v.log.foreign = w.log.foreign + 1
    <3>1. v.log.foreign # 0
      BY <1>2, <2>2
    <3> QED
      BY <3>1 DEF Tally
  <2> QED
    BY <2>1, <2>2
<1>14. Inv(g, e, v)
  BY <1>5, <1>6, <1>7, <1>8, <1>9, <1>10, <1>11, <1>12, <1>13 DEF Inv
<1> QED
  BY <1>14 DEF e

-----------------------------------------------------------------------------
\* The steps of the host.
LEMMA HostNow ==
  ASSUME IInv
  PROVE  /\ Inv(host, feed, Nav!World) /\ Nav!World \in WorldT /\ Nav!World.page = page
         /\ Nav!World.flight = walk /\ Nav!World.sent = sent /\ Nav!World.log = navLog
         /\ host \in HostT /\ feed \in Seq(MessageT) /\ navLog \in LogT /\ navLog.may \in Plans
         /\ navLog.may.navs \in 0..MaxNavs /\ navLog.may.prompts \in 0..MaxPrompts
<1>1. /\ Inv(host, feed, Nav!World) /\ Nav!World \in WorldT /\ Nav!World.page = page
      /\ Nav!World.flight = walk /\ Nav!World.sent = sent /\ Nav!World.log = navLog
  BY WorldNow
<1>2. host \in HostT /\ feed \in Seq(MessageT) /\ navLog \in LogT /\ navLog.may \in Plans
  BY <1>1, WorldTypes DEF Inv, Typed
<1> QED
  BY <1>1, <1>2, NavAssumption

\* A step of the host that leaves the page alone.
LEMMA HostStays ==
  ASSUME IInv, UNCHANGED <<page, walk, sent, navLog>>, Inv(host', feed', Nav!World)
  PROVE  IInv' /\ page'.shown = page.shown
<1>1. Nav!World' = Nav!World
  BY DEF Nav!World
<1> QED
  BY <1>1 DEF IInv

\* Dispatching a navigation gives it the next number.
LEMMA DispatchKeeps == ASSUME IInv, Nav!Dispatch PROVE IInv' /\ page'.shown = page.shown
<1>0. /\ Inv(host, feed, Nav!World) /\ Nav!World \in WorldT /\ Nav!World.page = page
      /\ Nav!World.flight = walk /\ Nav!World.sent = sent /\ Nav!World.log = navLog
      /\ host \in HostT /\ feed \in Seq(MessageT) /\ navLog \in LogT /\ navLog.may \in Plans
      /\ navLog.may.navs \in 0..MaxNavs /\ navLog.may.prompts \in 0..MaxPrompts
  BY HostNow
<1> DEFINE x == navLog.navs + 1
           g == host'
           v == Nav!World'
<1>1. /\ navLog.navs < navLog.may.navs /\ g = [host EXCEPT !.jobs = Append(host.jobs, x)]
      /\ navLog' = [navLog EXCEPT !.navs = x] /\ UNCHANGED <<feed, page, walk, sent>>
  BY DEF Nav!Dispatch
<1>2. navLog.navs \in Nat /\ x \in Nat /\ x <= navLog.may.navs /\ x \in Nav!Navs /\ navLog.navs < x
  BY <1>0, <1>1, NavsAreNumbers, NavAssumption DEF LogT
<1> HIDE DEF x
<1>3. navLog' \in LogT /\ navLog'.navs = x /\ navLog'.may = navLog.may /\ navLog'.prompts = navLog.prompts
      /\ navLog'.foreign = navLog.foreign /\ navLog'.installed = navLog.installed
  BY <1>0, <1>1, <1>2 DEF LogT
<1>4. v.page = Nav!World.page /\ v.flight = Nav!World.flight /\ v.sent = Nav!World.sent /\ v.log = navLog'
  BY <1>1 DEF Nav!World
<1>5. v \in WorldT
  BY <1>0, <1>1, <1>3 DEF Nav!World, WorldT
<1>6. g \in HostT /\ g.jobs = Append(host.jobs, x) /\ g.epoch = host.epoch
      /\ g.toSettle = host.toSettle /\ g.pending = host.pending /\ g.truth = host.truth
      /\ g.held = host.held /\ g.running = host.running
  <2>1. host.jobs \in Seq(Nav!Navs)
    BY <1>0, HostTypes
  <2>2. Append(host.jobs, x) \in Seq(Nav!Navs)
    BY <1>2, <2>1
  <2> QED
    BY <1>0, <1>1, <2>2 DEF HostT
<1> HIDE DEF g, v
<1>7. Inv(host, feed, v)
  <2>1. Nav!World.log.prompts \in Nat /\ Nav!World.log.navs \in Nat
    BY <1>0, WorldTypes
  <2>2. Nav!World.log.prompts <= Nav!World.log.may.prompts
    BY <1>0 DEF Inv, Typed
  <2> QED
    BY <1>0, <1>2, <1>3, <1>4, <1>5, <2>1, <2>2, LogGrows
<1>8. /\ \A i \in DOMAIN host.jobs : host.jobs[i] \in Nat /\ host.jobs[i] < x
      /\ host.truth.nav \in Nat /\ host.running \in Nat /\ host.truth.nav < x /\ host.running < x
  <2>1. host.truth.nav \in Nat /\ host.running \in Nat /\ host.jobs \in Seq(Nav!Navs)
    BY <1>0, HostTypes
  <2>2. host.truth.nav < x /\ host.running < x
    BY <1>0, <1>2, <2>1 DEF Inv, Numbered
  <2>3. ASSUME NEW i \in DOMAIN host.jobs PROVE host.jobs[i] \in Nat /\ host.jobs[i] < x
    <3>1. host.jobs[i] \in Nav!Navs
      BY <2>1
    <3>2. host.jobs[i] \in Nat /\ host.jobs[i] <= navLog.navs
      BY <1>0, <3>1, NavsAreNumbers DEF Inv, Numbered
    <3> QED
      BY <1>2, <3>2
  <2> QED
    BY <2>1, <2>2, <2>3
<1>9. /\ \A i \in DOMAIN host.jobs : i \in DOMAIN g.jobs /\ g.jobs[i] = host.jobs[i]
      /\ \A i \in DOMAIN g.jobs : i \in DOMAIN host.jobs \/ g.jobs[i] = x
      /\ \A i, j \in DOMAIN g.jobs : i < j => i \in DOMAIN host.jobs
      /\ \A i \in DOMAIN g.jobs : i \in DOMAIN host.jobs \/ i = Len(host.jobs) + 1
      /\ g.jobs[Len(host.jobs) + 1] = x
  <2>1. host.jobs \in Seq(Nav!Navs)
    BY <1>0, HostTypes
  <2> QED
    BY <1>2, <1>6, <2>1, AppendPlaces
<1>10. Numbered(g, v.log)
  <2>1. \A i \in DOMAIN g.jobs :
          g.jobs[i] > g.truth.nav /\ g.jobs[i] > g.running /\ g.jobs[i] <= v.log.navs
    BY <1>0, <1>2, <1>3, <1>4, <1>6, <1>8, <1>9 DEF Inv, Numbered
  <2>2. ASSUME NEW i \in DOMAIN g.jobs, NEW j \in DOMAIN g.jobs, i < j
        PROVE  g.jobs[i] < g.jobs[j]
    <3>1. i \in DOMAIN host.jobs /\ g.jobs[i] = host.jobs[i] /\ host.jobs[i] < x
      BY <1>8, <1>9, <2>2
    <3>2. CASE g.jobs[j] = x
      BY <3>1, <3>2
    <3>3. CASE j \in DOMAIN host.jobs
      BY <1>0, <1>9, <2>2, <3>1, <3>3 DEF Inv, Numbered
    <3> QED
      BY <1>9, <3>2, <3>3
  <2>3. g.running <= v.log.navs /\ g.truth.nav <= v.log.navs
    BY <1>2, <1>3, <1>4, <1>6, <1>8
  <2>4. g.running # Nav!None => g.running > g.truth.nav
    BY <1>0, <1>6 DEF Inv, Numbered
  <2> QED
    BY <2>1, <2>2, <2>3, <2>4 DEF Numbered
<1>11. \A y \in Nav!Navs : Older(host, navLog, y) => Older(g, v.log, y)
  <2>1. SUFFICES ASSUME NEW y \in Nav!Navs, Older(host, navLog, y) PROVE Older(g, v.log, y)
    OBVIOUS
  <2>2. y \in Nat /\ y <= navLog.navs /\ y < x
    BY <1>2, <2>1, NavsAreNumbers DEF Older
  <2>3. \A i \in DOMAIN g.jobs : y < g.jobs[i]
    BY <1>9, <2>1, <2>2 DEF Older
  <2>4. y <= v.log.navs
    BY <1>2, <1>3, <1>4, <2>2
  <2>5. /\ g.running # Nav!None => y < g.running
        /\ g.truth.nav # Nav!None => y <= g.truth.nav
        /\ g.toSettle # <<>> => y < g.truth.nav
    BY <1>6, <2>1 DEF Older
  <2> QED
    BY <2>3, <2>4, <2>5 DEF Older
<1>12. OrderHost(g, feed, v)
  <2>1. Known(v) = Known(Nav!World) /\ \A y \in Known(Nav!World) : y \in Nav!Navs
    BY <1>0, <1>4, WorldTypes DEF Known, Waiting
  <2> QED
    BY <1>0, <1>11, <2>1 DEF Inv, OrderHost, Told
<1>13. Alone(g, v)
  BY <1>6, <1>7 DEF Inv, Alone
<1>14. g.held <= v.log.prompts
  BY <1>6, <1>7 DEF Inv, Typed
<1>15. Inv(g, feed, v)
  BY <1>6, <1>7, <1>10, <1>12, <1>13, <1>14, HostOrdered
<1> QED
  BY <1>1, <1>15 DEF IInv, g, v

\* The slot takes the navigation only when no branch is in the way.
LEMMA ExecuteKeeps == ASSUME IInv, Nav!Execute PROVE IInv' /\ page'.shown = page.shown
<1>0. /\ Inv(host, feed, Nav!World) /\ Nav!World \in WorldT /\ Nav!World.page = page
      /\ Nav!World.flight = walk /\ Nav!World.sent = sent /\ Nav!World.log = navLog
      /\ host \in HostT /\ feed \in Seq(MessageT) /\ navLog \in LogT /\ navLog.may \in Plans
      /\ navLog.may.navs \in 0..MaxNavs /\ navLog.may.prompts \in 0..MaxPrompts
  BY HostNow
<1> DEFINE next == IF Nav!Blocked(host) THEN host.running ELSE Head(host.jobs)
           g == [host EXCEPT !.jobs = Tail(host.jobs), !.running = next]
<1>1. host.jobs # <<>> /\ host' = g /\ UNCHANGED <<feed, page, walk, sent, navLog>>
  BY DEF Nav!Execute
<1>2. /\ host.jobs \in Seq(Nav!Navs) /\ host.running \in Nav!Navs \cup {Nav!None} /\ host.truth.nav \in Nat
      /\ host.running \in Nat /\ host.pending \in Seq(ItemT) /\ host.toSettle \in Seq(Nav!Navs)
  BY <1>0, HostTypes
<1>3. /\ Tail(host.jobs) \in Seq(Nav!Navs) /\ 1 \in DOMAIN host.jobs /\ Head(host.jobs) = host.jobs[1]
      /\ \A k \in DOMAIN Tail(host.jobs) :
           k + 1 \in DOMAIN host.jobs /\ Tail(host.jobs)[k] = host.jobs[k + 1] /\ 1 < k + 1
      /\ \A j, k \in DOMAIN Tail(host.jobs) : j < k => j + 1 < k + 1
  BY <1>1, <1>2, TailPlaces
<1>4. next \in Nav!Navs \cup {Nav!None}
  <2>1. host.jobs[1] \in Nav!Navs
    BY <1>2, <1>3
  <2> QED
    BY <1>2, <1>3, <2>1
<1>5. ~Nav!Blocked(host) => /\ next = host.jobs[1] /\ host.running = Nav!None /\ host.pending = <<>>
                            /\ host.toSettle = <<>>
  <2>1. \A a : <<a>> # <<>>
    BY ShortPlaces
  <2>2. ~Nav!Blocked(host) => host.running = Nav!None /\ host.pending = <<>> /\ next = host.jobs[1]
    BY <1>3 DEF Nav!Blocked
  <2>3. host.pending = <<>> => host.toSettle = <<>>
    BY <1>0, <2>1 DEF Inv, Alone
  <2> QED
    BY <2>2, <2>3
<1>6. Nav!Blocked(host) => next = host.running
  OBVIOUS
<1> HIDE DEF next
<1>7. /\ g \in HostT /\ g.jobs = Tail(host.jobs) /\ g.running = next /\ g.epoch = host.epoch
      /\ g.toSettle = host.toSettle /\ g.pending = host.pending /\ g.truth = host.truth
      /\ g.held = host.held
  BY <1>0, <1>3, <1>4 DEF HostT
<1> HIDE DEF g
<1>8. ASSUME NEW i \in DOMAIN host.jobs PROVE host.jobs[i] \in Nav!Navs /\ host.jobs[i] \in Nat
  <2>1. host.jobs[i] \in Nav!Navs
    BY <1>2
  <2> QED
    BY <2>1, NavsAreNumbers
<1>9. Numbered(g, navLog)
  <2>1. \A i \in DOMAIN g.jobs : g.jobs[i] > g.truth.nav /\ g.jobs[i] <= navLog.navs
    BY <1>0, <1>3, <1>7 DEF Inv, Numbered
  <2>2. \A i \in DOMAIN g.jobs : g.jobs[i] > g.running
    BY <1>0, <1>3, <1>5, <1>6, <1>7, <1>8 DEF Inv, Numbered
  <2>3. \A i, j \in DOMAIN g.jobs : i < j => g.jobs[i] < g.jobs[j]
    BY <1>0, <1>3, <1>7 DEF Inv, Numbered
  <2>4. g.running <= navLog.navs /\ g.truth.nav <= navLog.navs
    BY <1>0, <1>3, <1>5, <1>6, <1>7 DEF Inv, Numbered
  <2>5. g.running # Nav!None => g.running > g.truth.nav
    BY <1>0, <1>3, <1>5, <1>6, <1>7 DEF Inv, Numbered
  <2> QED
    BY <2>1, <2>2, <2>3, <2>4, <2>5 DEF Numbered
<1>10. \A x \in Nav!Navs : Older(host, navLog, x) => Older(g, navLog, x)
  <2>1. SUFFICES ASSUME NEW x \in Nav!Navs, Older(host, navLog, x) PROVE Older(g, navLog, x)
    OBVIOUS
  <2>2. \A i \in DOMAIN g.jobs : x < g.jobs[i]
    BY <1>3, <1>7, <2>1 DEF Older
  <2>3. g.running # Nav!None => x < g.running
    BY <1>3, <1>5, <1>6, <1>7, <2>1 DEF Older
  <2> QED
    BY <1>7, <2>1, <2>2, <2>3 DEF Older
<1>11. Alone(g, Nav!World)
  <2>1. CASE Nav!Blocked(host)
    BY <1>0, <1>6, <1>7, <2>1 DEF Inv, Alone
  <2>2. CASE ~Nav!Blocked(host)
    BY <1>5, <1>7, <2>2 DEF Alone
  <2> QED
    BY <2>1, <2>2
<1>12. g.held <= navLog.prompts
  BY <1>0, <1>7 DEF Inv, Typed
<1>13. Inv(g, feed, Nav!World)
  BY <1>0, <1>7, <1>9, <1>10, <1>11, <1>12, HostKin
<1> QED
  BY <1>1, <1>13, HostStays

\* A navigation that fails leaves the branch alone; what was behind it is gone.
LEMMA NavigationFails ==
  ASSUME IInv, host.running # Nav!None, UNCHANGED <<feed, page, walk, sent, navLog>>,
         host' = [host EXCEPT !.running = Nav!None, !.toSettle = @, !.held = 0]
  PROVE  IInv' /\ page'.shown = page.shown
<1>0. /\ Inv(host, feed, Nav!World) /\ Nav!World \in WorldT /\ Nav!World.page = page
      /\ Nav!World.flight = walk /\ Nav!World.sent = sent /\ Nav!World.log = navLog
      /\ host \in HostT /\ feed \in Seq(MessageT) /\ navLog \in LogT /\ navLog.may \in Plans
      /\ navLog.may.navs \in 0..MaxNavs /\ navLog.may.prompts \in 0..MaxPrompts
  BY HostNow
<1> DEFINE g == host'
<1>1. /\ g \in HostT /\ g.jobs = host.jobs /\ g.running = Nav!None /\ g.epoch = host.epoch
      /\ g.toSettle = host.toSettle /\ g.pending = host.pending /\ g.truth = host.truth
      /\ g.held = 0
  BY <1>0 DEF HostT
<1> HIDE DEF g
<1>2. Numbered(g, navLog)
  <2>1. host.jobs \in Seq(Nav!Navs) /\ host.truth.nav \in Nat /\ navLog.navs \in Nat
    BY <1>0, HostTypes, WorldTypes
  <2>2. \A i \in DOMAIN host.jobs : host.jobs[i] > Nav!None
    <3>1. \A i \in DOMAIN host.jobs : host.jobs[i] \in Nav!Navs
      BY <2>1
    <3> QED
      BY <3>1, NavsAreNumbers
  <2> QED
    BY <1>0, <1>1, <2>1, <2>2, NavsAreNumbers DEF Inv, Numbered
<1>3. \A x \in Nav!Navs : Older(host, navLog, x) => Older(g, navLog, x)
  BY <1>1 DEF Older
<1>4. Alone(g, Nav!World)
  BY <1>0, <1>1 DEF Inv, Alone
<1>5. g.held <= navLog.prompts
  BY <1>0, <1>1, WorldTypes
<1>6. Inv(g, feed, Nav!World)
  BY <1>0, <1>1, <1>2, <1>3, <1>4, <1>5, HostKin
<1> QED
  BY <1>6, HostStays DEF g

\* A navigation that ends well puts the host on a branch that nobody knows yet.
LEMMA NavigationEndsWell ==
  ASSUME IInv, host.running # Nav!None, UNCHANGED <<feed, page, walk, sent, navLog>>,
         host' = [host EXCEPT !.running = Nav!None, !.toSettle = Append(@, host.running),
                              !.truth = Nav!Shown(host.running, 0), !.acked = @ \ {host.running},
                              !.pending = Append(@, Nav!Item(host.running, FALSE))]
  PROVE  IInv' /\ page'.shown = page.shown
<1>0. /\ Inv(host, feed, Nav!World) /\ Nav!World \in WorldT /\ Nav!World.page = page
      /\ Nav!World.flight = walk /\ Nav!World.sent = sent /\ Nav!World.log = navLog
      /\ host \in HostT /\ feed \in Seq(MessageT) /\ navLog \in LogT /\ navLog.may \in Plans
      /\ navLog.may.navs \in 0..MaxNavs /\ navLog.may.prompts \in 0..MaxPrompts
  BY HostNow
<1> DEFINE g == host'
           x == host.running
<1>1. /\ x \in Nav!Navs /\ x \in Nat /\ x > 0 /\ host.jobs \in Seq(Nav!Navs) /\ host.truth.nav \in Nat
      /\ host.pending = <<>> /\ host.toSettle = <<>> /\ x > host.truth.nav /\ x <= navLog.navs
  BY <1>0, HostTypes, NavsAreNumbers DEF Inv, Alone, Numbered
<1>2. Append(host.toSettle, x) = <<x>> /\ Append(host.pending, Nav!Item(x, FALSE)) = <<Nav!Item(x, FALSE)>>
  BY <1>1, ShortAppend
<1>3. <<x>> \in Seq(Nav!Navs) /\ <<Nav!Item(x, FALSE)>> \in Seq(ItemT) /\ Nav!Shown(x, 0) \in ShownT
      /\ Nav!Shown(x, 0).nav = x /\ Nav!Shown(x, 0).events = 0 /\ host.acked \ {x} \in SUBSET Nav!Navs
  <2>1. Nav!Item(x, FALSE) \in ItemT
    BY <1>1 DEF Nav!Item, ItemT
  <2>2. Nav!Shown(x, 0) \in ShownT /\ Nav!Shown(x, 0).nav = x /\ Nav!Shown(x, 0).events = 0
    BY <1>1 DEF Nav!Shown, ShownT
  <2>3. host.acked \in SUBSET Nav!Navs
    BY <1>0, HostTypes
  <2>4. <<x>> \in Seq(Nav!Navs)
    BY <1>1
  <2>5. \A i \in ItemT : <<i>> \in Seq(ItemT)
    OBVIOUS
  <2> QED
    BY <2>1, <2>2, <2>3, <2>4, <2>5
<1>4. /\ g \in HostT /\ g.jobs = host.jobs /\ g.running = Nav!None /\ g.epoch = host.epoch
      /\ g.toSettle = <<x>> /\ g.pending = <<Nav!Item(x, FALSE)>> /\ g.truth.nav = x
      /\ g.truth.events = 0 /\ g.held = host.held
  BY <1>0, <1>2, <1>3 DEF HostT
<1> HIDE DEF g
<1>5. \A y \in Nav!Navs : Older(host, navLog, y) => y < x /\ y # x
  BY <1>1, NavsAreNumbers DEF Older
<1>6. /\ \A y \in Known(Nav!World) : y \in Nav!Navs /\ y < x /\ y # x
      /\ \A k \in DOMAIN feed : \A y \in Told(feed[k]) : y \in Nav!Navs /\ y < x /\ y # x
  <2>1. \A y \in Known(Nav!World) : y \in Nav!Navs
    BY <1>0, WorldTypes DEF Known, Waiting
  <2> QED
    BY <1>0, <1>5, <2>1 DEF Inv, OrderHost, Told
<1>7. page.done \subseteq Known(Nav!World) /\ Waiting(Nav!World) \subseteq Known(Nav!World)
  BY <1>0 DEF Known
<1>8. Typed(g, feed, Nav!World) /\ Alone(g, Nav!World)
  BY <1>0, <1>1, <1>4 DEF Inv, Typed, Alone
<1>9. Numbered(g, navLog)
  <2>1. ASSUME NEW i \in DOMAIN host.jobs PROVE host.jobs[i] > x /\ host.jobs[i] > Nav!None
    <3>1. host.jobs[i] \in Nav!Navs
      BY <1>1
    <3>2. host.jobs[i] > x
      BY <1>0 DEF Inv, Numbered
    <3> QED
      BY <3>1, <3>2, NavsAreNumbers
  <2>2. navLog.navs \in Nat /\ Nav!None <= navLog.navs
    BY <1>0, WorldTypes DEF Nav!None
  <2> QED
    BY <1>0, <1>1, <1>4, <2>1, <2>2 DEF Inv, Numbered
<1>10. OrderHost(g, feed, Nav!World)
  <2>1. \A y \in Nav!Navs : y < x /\ Older(host, navLog, y) => Older(g, navLog, y)
    BY <1>1, <1>4, NavsAreNumbers DEF Older
  <2> QED
    BY <1>0, <1>6, <2>1 DEF Inv, OrderHost
<1>11. EscrowPage(g, Nav!World) /\ EscrowWire(g, feed, Nav!World)
  <2>1. ~InEscrow(host, 0) /\ \A y : ~InEscrow(host, y)
    BY <1>1, ShortPlaces DEF InEscrow
  <2> QED
    BY <1>0, <1>4, <1>6, <1>7, <2>1 DEF Inv, EscrowPage, EscrowWire
<1>12. g.pending # <<>>
  BY <1>4, ShortPlaces
<1>13. Unshown(g, Nav!World) /\ Elsewhere(g, feed, Nav!World)
  BY <1>0, <1>4, <1>12, WorldTypes DEF Unshown, Elsewhere
<1>14. NoEventAfter(g, feed) /\ g.truth.nav \notin Waiting(Nav!World) /\ g.truth.nav \notin page.done
  BY <1>4, <1>6, <1>7 DEF NoEventAfter
<1>15. Tally(g, feed, Nav!World)
  BY <1>0, <1>4, <1>14 DEF Tally
<1>16. Inv(g, feed, Nav!World)
  BY <1>0, <1>8, <1>9, <1>10, <1>11, <1>13, <1>15 DEF Inv
<1> QED
  BY <1>16, HostStays DEF g

\* A navigation that ends puts its branch in the escrow, or fails.
LEMMA NavigationEndsKeeps == ASSUME IInv, Nav!NavigationEnds PROVE IInv' /\ page'.shown = page.shown
<1>1. PICK ok \in BOOLEAN :
        LET over == [host EXCEPT !.running = Nav!None,
                                 !.toSettle = IF ok THEN Append(@, host.running) ELSE @]
        IN  /\ host.running # Nav!None
            /\ host' = IF ok THEN Nav!Captured([over EXCEPT !.truth = Nav!Shown(host.running, 0)], host.running)
                       ELSE [over EXCEPT !.held = 0]
            /\ UNCHANGED <<feed, page, walk, sent, navLog>>
  BY DEF Nav!NavigationEnds
<1>2. host \in HostT
  BY HostNow
<1>3. CASE ok
  <2>1. host' = [host EXCEPT !.running = Nav!None, !.toSettle = Append(@, host.running),
                             !.truth = Nav!Shown(host.running, 0), !.acked = @ \ {host.running},
                             !.pending = Append(@, Nav!Item(host.running, FALSE))]
    BY <1>1, <1>2, <1>3 DEF Nav!Captured, HostT
  <2> QED
    BY <1>1, <2>1, NavigationEndsWell
<1>4. CASE ~ok
  <2>1. host' = [host EXCEPT !.running = Nav!None, !.toSettle = @, !.held = 0]
    BY <1>1, <1>2, <1>4 DEF HostT
  <2> QED
    BY <1>1, <2>1, NavigationFails
<1> QED
  BY <1>3, <1>4

\* An escrow of one item: which branch it holds, and what it is when it is ready.
LEMMA EscrowOfOne ==
  ASSUME NEW h, NEW x \in Nav!Navs, NEW ready \in BOOLEAN, h.pending = <<Nav!Item(x, ready)>>
  PROVE  /\ \A n : Nav!Contains(Nav!Pending(h), n) <=> n = x
         /\ [i \in DOMAIN h.pending |->
               IF h.pending[i].nav = x THEN Nav!Item(x, TRUE) ELSE h.pending[i]] = <<Nav!Item(x, TRUE)>>
<1>1. DOMAIN h.pending = {1} /\ h.pending[1].nav = x
  BY ShortPlaces DEF Nav!Item
<1>2. Nav!Pending(h) = [i \in {1} |-> x]
  BY <1>1 DEF Nav!Pending
<1>3. [i \in {1} |-> x] = <<x>> /\ [i \in {1} |-> Nav!Item(x, TRUE)] = <<Nav!Item(x, TRUE)>>
  <2>1. {1} = 1..1
    OBVIOUS
  <2>2. \A a : [i \in 1..1 |-> a] = <<a>>
    OBVIOUS
  <2> QED
    BY <2>1, <2>2
<1>4. \A n : Nav!Contains(Nav!Pending(h), n) <=> n = x
  <2>1. Len(<<x>>) = 1 /\ <<x>>[1] = x /\ 1..1 = {1}
    BY ShortPlaces
  <2>2. Nav!Pending(h) = <<x>>
    BY <1>2, <1>3
  <2> DEFINE s == <<x>>
  <2> HIDE DEF s
  <2>3. \A n : Nav!Contains(s, n) <=> n = x
    BY <2>1 DEF Nav!Contains, s
  <2> QED
    BY <2>2, <2>3 DEF s
<1>5. [i \in DOMAIN h.pending |-> IF h.pending[i].nav = x THEN Nav!Item(x, TRUE) ELSE h.pending[i]]
        = [i \in {1} |-> Nav!Item(x, TRUE)]
  BY <1>1
<1> QED
  BY <1>3, <1>4, <1>5

\* The outcome is told after everything else that is known, and only of a
\* branch that the page can be asked to confirm.
LEMMA SettleKeeps == ASSUME IInv, Nav!Settle PROVE IInv' /\ page'.shown = page.shown
<1>0. /\ Inv(host, feed, Nav!World) /\ Nav!World \in WorldT /\ Nav!World.page = page
      /\ Nav!World.flight = walk /\ Nav!World.sent = sent /\ Nav!World.log = navLog
      /\ host \in HostT /\ feed \in Seq(MessageT) /\ navLog \in LogT /\ navLog.may \in Plans
      /\ navLog.may.navs \in 0..MaxNavs /\ navLog.may.prompts \in 0..MaxPrompts
  BY HostNow
<1> DEFINE x == host.truth.nav
           g == host'
           m == [Nav!Message("outcome") EXCEPT !.nav = x, !.outcomes = g.outcomes]
           e == Append(feed, m)
           n == Len(feed) + 1
<1>1. /\ host.toSettle # <<>> /\ host' = Nav!Settled(host, Head(host.toSettle))
      /\ feed' = Append(feed, [Nav!Message("outcome") EXCEPT !.nav = Head(host.toSettle),
                                                          !.outcomes = host'.outcomes])
      /\ UNCHANGED <<page, walk, sent, navLog>>
  BY DEF Nav!Settle
<1>2. /\ x # Nav!None /\ host.toSettle = <<x>> /\ host.pending = <<Nav!Item(x, FALSE)>>
      /\ host.running = Nav!None
  BY <1>0, <1>1, ShortPlaces DEF Inv, Alone
<1>3. Head(host.toSettle) = x /\ Tail(host.toSettle) = <<>>
  BY <1>2
<1>4. x \in Nav!Navs /\ x \in Nat /\ host.outcomes \subseteq Nav!Navs
  BY <1>0, <1>2, HostTypes
<1>5. host' = [host EXCEPT !.toSettle = <<>>, !.outcomes = host.outcomes \cup {x},
                           !.pending = <<Nav!Item(x, TRUE)>>]
  <2>1. Nav!Contains(Nav!Pending(host), x)
        /\ [i \in DOMAIN host.pending |->
               IF host.pending[i].nav = x THEN Nav!Item(x, TRUE) ELSE host.pending[i]] = <<Nav!Item(x, TRUE)>>
    BY <1>2, <1>4, EscrowOfOne
  <2> DEFINE r == [host EXCEPT !.toSettle = <<>>, !.outcomes = host.outcomes \cup {x}]
             p == [i \in DOMAIN host.pending |->
                     IF host.pending[i].nav = x THEN Nav!Item(x, TRUE) ELSE host.pending[i]]
  <2>2. r.pending = host.pending
    BY <1>0 DEF HostT
  <2>3. host' = [r EXCEPT !.pending = p]
    BY <1>1, <1>3, <2>1, <2>2 DEF Nav!Settled
  <2>4. p = <<Nav!Item(x, TRUE)>>
    BY <2>1
  <2> HIDE DEF p
  <2> QED
    BY <1>0, <2>3, <2>4 DEF HostT
<1>6. /\ g \in HostT /\ g.jobs = host.jobs /\ g.running = Nav!None /\ g.epoch = host.epoch
      /\ g.toSettle = <<>> /\ g.pending = <<Nav!Item(x, TRUE)>> /\ g.truth = host.truth
      /\ g.held = host.held /\ g.outcomes \subseteq Nav!Navs
  <2>1. Nav!Item(x, TRUE) \in ItemT
    BY <1>4 DEF Nav!Item, ItemT
  <2>90. <<Nav!Item(x, TRUE)>> \in Seq(ItemT)
    <3>1. \A i \in ItemT : <<i>> \in Seq(ItemT)
      OBVIOUS
    <3> QED
      BY <2>1, <3>1
  <2>91. <<>> \in Seq(Nav!Navs)
    OBVIOUS
  <2>2. <<Nav!Item(x, TRUE)>> \in Seq(ItemT) /\ <<>> \in Seq(Nav!Navs)
    BY <2>90, <2>91
  <2>3. host.outcomes \cup {x} \in SUBSET Nav!Navs
    BY <1>4
  <2> QED
    BY <1>0, <1>2, <1>5, <2>2, <2>3 DEF HostT
<1> HIDE DEF g
<1>7. /\ m \in MessageT /\ MessageOK(m) /\ m.kind = "outcome" /\ m.epoch = host.epoch
      /\ Told(m) = {x}
  <2>90. m = [kind |-> "outcome", epoch |-> host.epoch, nav |-> x, outcomes |-> g.outcomes,
             pending |-> <<>>]
    <3> DEFINE p == host.epoch
               o == host.outcomes
               y == g.outcomes
               q == <<>>
               a == [[kind |-> "outcome", epoch |-> p, nav |-> Nav!None, outcomes |-> o, pending |-> q]
                       EXCEPT !.nav = x]
    <3>1. m = [a EXCEPT !.outcomes = y]
      BY DEF Nav!Message
    <3> HIDE DEF p, o, y, q, x, m
    <3>2. a = [kind |-> "outcome", epoch |-> p, nav |-> x, outcomes |-> o, pending |-> q]
      OBVIOUS
    <3> HIDE DEF a
    <3>3. m = [kind |-> "outcome", epoch |-> p, nav |-> x, outcomes |-> y, pending |-> q]
      BY <3>1, <3>2
    <3> QED
      BY <3>3 DEF p, y, q
  <2> HIDE DEF m
  <2>1. /\ m.kind = "outcome" /\ m.epoch = host.epoch /\ m.nav = x /\ m.pending = <<>>
        /\ m.outcomes = g.outcomes
        /\ m = [kind |-> "outcome", epoch |-> host.epoch, nav |-> x, outcomes |-> g.outcomes,
                pending |-> <<>>]
    BY <2>90
  <2>2. <<>> \in Seq(Nav!Navs) /\ host.epoch \in Nat \ {0}
    BY <1>0, HostTypes
  <2>3. m \in MessageT
    BY <1>4, <1>6, <2>1, <2>2 DEF MessageT, Kinds
  <2> QED
    BY <1>2, <1>4, <2>1, <2>3, ShortPlaces DEF MessageOK, Told
<1> HIDE DEF m
<1>8. /\ e \in Seq(MessageT) /\ n \in DOMAIN e /\ e[n] = m
      /\ \A k \in DOMAIN feed : k \in DOMAIN e /\ e[k] = feed[k]
      /\ \A k \in DOMAIN e : k \in DOMAIN feed \/ k = n
      /\ \A j, k \in DOMAIN e : j < k => j \in DOMAIN feed
  BY <1>0, <1>7, AppendPlaces
<1>9. feed' = e
  BY <1>1, <1>3 DEF m, g
<1> HIDE DEF e, n
<1>10. \A y \in Nav!Navs : Older(host, navLog, y) => y < x /\ y <= x /\ y # x /\ Older(g, navLog, y)
  BY <1>2, <1>4, <1>6, NavsAreNumbers DEF Older
<1>11. /\ \A y \in Known(Nav!World) : y \in Nav!Navs /\ y < x /\ y <= x /\ y # x /\ Older(g, navLog, y)
       /\ \A k \in DOMAIN feed : \A y \in Told(feed[k]) :
            y \in Nav!Navs /\ y < x /\ y <= x /\ y # x /\ Older(g, navLog, y)
  <2>1. \A y \in Known(Nav!World) : y \in Nav!Navs
    BY <1>0, WorldTypes DEF Known, Waiting
  <2> QED
    BY <1>0, <1>10, <2>1 DEF Inv, OrderHost, Told
<1>12. page.done \subseteq Known(Nav!World) /\ Waiting(Nav!World) \subseteq Known(Nav!World)
  BY <1>0 DEF Known
<1>13. Typed(g, e, Nav!World)
  BY <1>0, <1>6, <1>7, <1>8, HostTypes DEF Inv, Typed
<1>14. Alone(g, Nav!World) /\ Numbered(g, navLog)
  BY <1>0, <1>2, <1>6 DEF Inv, Alone, Numbered
<1>15. OrderHost(g, e, Nav!World)
  <2>1. Older(g, navLog, x)
    BY <1>0, <1>2, <1>4, <1>6 DEF Inv, Numbered, Older
  <2> QED
    BY <1>0, <1>7, <1>8, <1>11, <2>1 DEF OrderHost
<1>16. OrderWire(e)
  BY <1>0, <1>7, <1>8, <1>11 DEF Inv, OrderWire
<1>17. OrderPage(e, Nav!World)
  BY <1>0, <1>7, <1>8, <1>11 DEF Inv, OrderPage
<1>18. SentOK(e, Nav!World)
  BY <1>0, <1>7, <1>8 DEF Inv, SentOK
<1>19. \A y : ~InEscrow(host, y)
  BY <1>2, ShortPlaces DEF InEscrow, Nav!Item
<1>20. Told1(e, Nav!World) /\ Told2(e, Nav!World)
  BY <1>0, <1>7, <1>8, <1>19 DEF Inv, Told1, Told2, EscrowPage, EscrowWire
<1>21. EscrowPage(g, Nav!World)
  BY <1>0, <1>6, <1>19 DEF Inv, EscrowPage
<1>22. EscrowWire(g, e, Nav!World)
  <2>1. InEscrow(g, x)
    BY <1>6 DEF InEscrow
  <2> QED
    BY <1>0, <1>6, <1>7, <1>8, <1>19, <2>1 DEF Inv, EscrowWire
<1>23. host.pending # <<>> /\ g.pending # <<>>
  BY <1>2, <1>6, ShortPlaces
<1>24. Unshown(g, Nav!World) /\ Elsewhere(g, e, Nav!World)
  BY <1>0, <1>6, <1>23 DEF Inv, Unshown, Elsewhere
<1>25. NoEventAfter(g, e) /\ x \notin Waiting(Nav!World) /\ x \notin page.done
  BY <1>6, <1>8, <1>11, <1>12 DEF NoEventAfter
<1>26. Tally(g, e, Nav!World)
  BY <1>0, <1>6, <1>23, <1>25 DEF Inv, Tally
<1>27. Inv(g, e, Nav!World)
  BY <1>0, <1>13, <1>14, <1>15, <1>16, <1>17, <1>18, <1>20, <1>21, <1>22, <1>24, <1>26 DEF Inv
<1> QED
  BY <1>1, <1>9, <1>27, HostStays DEF g

\* A message of the host, other than an outcome and a baseline.
LEMMA PlainMessage ==
  ASSUME NEW m, NEW k \in Kinds \ {"outcome"}, NEW e \in Nat \ {0}, NEW o \in SUBSET Nav!Navs,
         m = [kind |-> k, epoch |-> e, nav |-> Nav!None, outcomes |-> o, pending |-> <<>>]
  PROVE  m \in MessageT /\ MessageOK(m) /\ m.kind = k /\ m.epoch = e
<1>1. <<>> \in Seq(Nav!Navs)
  OBVIOUS
<1>2. m \in MessageT
  BY <1>1 DEF MessageT
<1>3. m.kind = k /\ m.epoch = e /\ m.nav = Nav!None /\ m.pending = <<>>
  OBVIOUS
<1> QED
  BY <1>2, <1>3, ShortPlaces DEF MessageOK

\* A settled intent is retired.
LEMMA PruneKeeps ==
  ASSUME IInv, NEW nav \in Nav!Navs, Nav!Prune(nav) PROVE IInv' /\ page'.shown = page.shown
<1>0. /\ Inv(host, feed, Nav!World) /\ Nav!World \in WorldT /\ Nav!World.page = page
      /\ Nav!World.flight = walk /\ Nav!World.sent = sent /\ Nav!World.log = navLog
      /\ host \in HostT /\ feed \in Seq(MessageT) /\ navLog \in LogT /\ navLog.may \in Plans
      /\ navLog.may.navs \in 0..MaxNavs /\ navLog.may.prompts \in 0..MaxPrompts
  BY HostNow
<1> DEFINE g == host'
           m == [Nav!Message("frame") EXCEPT !.outcomes = g.outcomes]
<1>1. /\ g = [host EXCEPT !.outcomes = host.outcomes \ {nav}]
      /\ feed' = Append(feed, m) /\ UNCHANGED <<page, walk, sent, navLog>>
  BY DEF Nav!Prune
<1>2. m = [kind |-> "frame", epoch |-> host.epoch, nav |-> Nav!None, outcomes |-> g.outcomes,
           pending |-> <<>>]
  BY DEF Nav!Message
<1> HIDE DEF m
<1>3. /\ g \in HostT /\ g.jobs = host.jobs /\ g.running = host.running /\ g.epoch = host.epoch
      /\ g.toSettle = host.toSettle /\ g.pending = host.pending /\ g.truth = host.truth
      /\ g.held = host.held /\ g.outcomes \in SUBSET Nav!Navs
  <2>1. host.outcomes \ {nav} \in SUBSET Nav!Navs
    BY <1>0, HostTypes
  <2> QED
    BY <1>0, <1>1, <2>1 DEF HostT
<1> HIDE DEF g
<1>4. g.held <= Nav!World.log.prompts
  BY <1>0, <1>3 DEF Inv, Typed
<1>5. Inv(g, feed, Nav!World)
  BY <1>0, <1>3, <1>4, HostTwin
<1>6. m \in MessageT /\ MessageOK(m) /\ m.kind = "frame" /\ m.epoch = host.epoch
  <2>1. host.epoch \in Nat \ {0} /\ "frame" \in Kinds \ {"outcome"}
    BY <1>0, HostTypes DEF Kinds
  <2> QED
    BY <1>2, <1>3, <2>1, PlainMessage
<1>7. m.epoch <= g.epoch
  BY <1>0, <1>3, <1>6, HostTypes
<1>8. Inv(g, Append(feed, m), Nav!World)
  BY <1>5, <1>6, <1>7, AppendQuiet
<1> QED
  BY <1>1, <1>8, HostStays DEF g

\* The event of an entry.
LEMMA EventNow ==
  ASSUME IInv
  PROVE  /\ Nav!Message("event") \in MessageT /\ MessageOK(Nav!Message("event"))
         /\ Nav!Message("event").kind = "event" /\ Nav!Message("event").epoch <= host.epoch
<1>1. host \in HostT
  BY HostNow
<1>2. /\ host.epoch \in Nat \ {0} /\ host.outcomes \in SUBSET Nav!Navs /\ "event" \in Kinds \ {"outcome"}
      /\ host.epoch <= host.epoch
  BY <1>1, HostTypes DEF Kinds
<1> DEFINE m == Nav!Message("event")
<1>3. m = [kind |-> "event", epoch |-> host.epoch, nav |-> Nav!None, outcomes |-> host.outcomes,
           pending |-> <<>>]
  BY DEF Nav!Message
<1> HIDE DEF m
<1>4. m \in MessageT /\ MessageOK(m) /\ m.kind = "event" /\ m.epoch = host.epoch
  BY <1>2, <1>3, PlainMessage
<1> QED
  BY <1>2, <1>4 DEF m

\* The host after an entry was added.
LEMMA RanParts ==
  ASSUME NEW h \in HostT
  PROVE  /\ Nav!Ran(h) \in HostT /\ Nav!Ran(h).epoch = h.epoch /\ Nav!Ran(h).toSettle = h.toSettle
         /\ Nav!Ran(h).pending = h.pending /\ Nav!Ran(h).jobs = h.jobs /\ Nav!Ran(h).running = h.running
         /\ Nav!Ran(h).held = h.held /\ Nav!Ran(h).truth.nav = h.truth.nav
         /\ Nav!Ran(h).truth.events = h.truth.events + 1
<1> DEFINE n == h.truth.events + 1
           t == [h.truth EXCEPT !.events = n]
<1>1. Nav!Ran(h) = [h EXCEPT !.truth = t]
  BY DEF Nav!Ran, HostT
<1>2. h.truth \in ShownT /\ n \in Nat
  BY HostTypes
<1> HIDE DEF n
<1>3. t \in ShownT /\ t.nav = h.truth.nav /\ t.events = n
  BY <1>2 DEF ShownT
<1> HIDE DEF t
<1> QED
  BY <1>1, <1>3 DEF HostT, n

\* An extension that appends to the branch behind the page.
LEMMA ForeignKeeps == ASSUME IInv, Nav!Foreign PROVE IInv' /\ page'.shown = page.shown
<1>0. /\ Inv(host, feed, Nav!World) /\ Nav!World \in WorldT /\ Nav!World.page = page
      /\ Nav!World.flight = walk /\ Nav!World.sent = sent /\ Nav!World.log = navLog
      /\ host \in HostT /\ feed \in Seq(MessageT) /\ navLog \in LogT /\ navLog.may \in Plans
      /\ navLog.may.navs \in 0..MaxNavs /\ navLog.may.prompts \in 0..MaxPrompts
  BY HostNow
<1> DEFINE n == navLog.foreign + 1
           v == Nav!World'
<1>1. /\ host' = Nav!Ran(host) /\ feed' = Append(feed, Nav!Message("event"))
      /\ navLog' = [navLog EXCEPT !.foreign = n] /\ UNCHANGED <<page, walk, sent>>
  BY DEF Nav!Foreign
<1>2. n \in Nat
  BY <1>0, WorldTypes
<1> HIDE DEF n
<1>3. /\ navLog' \in LogT /\ navLog'.foreign = n /\ navLog'.may = navLog.may /\ navLog'.prompts = navLog.prompts
      /\ navLog'.navs = navLog.navs /\ navLog'.installed = navLog.installed
  BY <1>0, <1>1, <1>2 DEF LogT
<1>4. v.page = Nav!World.page /\ v.flight = Nav!World.flight /\ v.sent = Nav!World.sent /\ v.log = navLog'
  BY <1>1 DEF Nav!World
<1>5. v \in WorldT
  BY <1>0, <1>1, <1>3 DEF Nav!World, WorldT
<1>6. /\ Nav!Ran(host) \in HostT /\ Nav!Ran(host).epoch = host.epoch /\ Nav!Ran(host).toSettle = host.toSettle
      /\ Nav!Ran(host).pending = host.pending /\ Nav!Ran(host).jobs = host.jobs
      /\ Nav!Ran(host).running = host.running /\ Nav!Ran(host).held = host.held
      /\ Nav!Ran(host).truth.nav = host.truth.nav
      /\ Nav!Ran(host).truth.events = host.truth.events + 1
  BY <1>0, RanParts
<1>7. /\ Nav!Ran(host).held <= v.log.prompts /\ v.log.prompts <= v.log.may.prompts
      /\ v.log.foreign = Nav!World.log.foreign + 1
  BY <1>0, <1>3, <1>4, <1>6 DEF Inv, Typed, n
<1> HIDE DEF v
<1>8. Inv(Nav!Ran(host), Append(feed, Nav!Message("event")), v)
  BY <1>0, <1>3, <1>4, <1>5, <1>6, <1>7, EventNow, EventAppended
<1> QED
  BY <1>1, <1>8 DEF IInv, v

\* A prompt in custody runs once nothing is in the way.
LEMMA DrainKeeps == ASSUME IInv, Nav!Drain PROVE IInv' /\ page'.shown = page.shown
<1>0. /\ Inv(host, feed, Nav!World) /\ Nav!World \in WorldT /\ Nav!World.page = page
      /\ Nav!World.flight = walk /\ Nav!World.sent = sent /\ Nav!World.log = navLog
      /\ host \in HostT /\ feed \in Seq(MessageT) /\ navLog \in LogT /\ navLog.may \in Plans
      /\ navLog.may.navs \in 0..MaxNavs /\ navLog.may.prompts \in 0..MaxPrompts
  BY HostNow
<1> DEFINE n == host.held - 1
           h == [host EXCEPT !.held = n]
<1>1. /\ host.held > 0 /\ ~Nav!Blocked(host) /\ host' = Nav!Ran(h) /\ feed' = Append(feed, Nav!Message("event"))
      /\ UNCHANGED <<page, walk, sent, navLog>>
  BY DEF Nav!Drain
<1>2. n \in Nat /\ n <= host.held /\ host.held \in Nat
  BY <1>0, <1>1, HostTypes
<1> HIDE DEF n
<1>3. /\ h \in HostT /\ h.epoch = host.epoch /\ h.toSettle = host.toSettle
      /\ h.pending = host.pending /\ h.jobs = host.jobs /\ h.running = host.running
      /\ h.held = n /\ h.truth = host.truth
  BY <1>0, <1>2 DEF HostT
<1> HIDE DEF h
<1>4. /\ Nav!Ran(h) \in HostT /\ Nav!Ran(h).epoch = host.epoch /\ Nav!Ran(h).toSettle = host.toSettle
      /\ Nav!Ran(h).pending = host.pending /\ Nav!Ran(h).jobs = host.jobs /\ Nav!Ran(h).running = host.running
      /\ Nav!Ran(h).held = n /\ Nav!Ran(h).truth.nav = host.truth.nav
      /\ Nav!Ran(h).truth.events = host.truth.events + 1
  BY <1>3, RanParts
<1>5. host.pending = <<>>
  BY <1>1 DEF Nav!Blocked
<1>6. Nav!Ran(h).held <= Nav!World.log.prompts /\ Nav!World.log.prompts <= Nav!World.log.may.prompts
  <2>1. navLog.prompts \in Nat /\ host.held <= navLog.prompts
    BY <1>0, WorldTypes DEF Inv, Typed
  <2> QED
    BY <1>0, <1>2, <1>4, <2>1 DEF Inv, Typed
<1>7. Inv(Nav!Ran(h), Append(feed, Nav!Message("event")), Nav!World)
  BY <1>0, <1>4, <1>5, <1>6, EventNow, EventAppended
<1> QED
  BY <1>1, <1>7, HostStays

\* A prompt is held back, or it runs at once.
LEMMA SubmitKeeps == ASSUME IInv, Nav!Submit PROVE IInv' /\ page'.shown = page.shown
<1>0. /\ Inv(host, feed, Nav!World) /\ Nav!World \in WorldT /\ Nav!World.page = page
      /\ Nav!World.flight = walk /\ Nav!World.sent = sent /\ Nav!World.log = navLog
      /\ host \in HostT /\ feed \in Seq(MessageT) /\ navLog \in LogT /\ navLog.may \in Plans
      /\ navLog.may.navs \in 0..MaxNavs /\ navLog.may.prompts \in 0..MaxPrompts
  BY HostNow
<1> DEFINE n == navLog.prompts + 1
           v == Nav!World'
<1>1. /\ navLog.prompts < navLog.may.prompts
      /\ host' = IF Nav!Blocked(host) THEN [host EXCEPT !.held = host.held + 1] ELSE Nav!Ran(host)
      /\ feed' = IF Nav!Blocked(host) THEN feed ELSE Append(feed, Nav!Message("event"))
      /\ navLog' = [navLog EXCEPT !.prompts = n] /\ UNCHANGED <<page, walk, sent>>
  BY DEF Nav!Submit
<1>2. /\ n \in Nat /\ navLog.prompts \in Nat /\ navLog.prompts <= n /\ n <= navLog.may.prompts
      /\ host.held \in Nat /\ host.held <= navLog.prompts /\ navLog.navs \in Nat
      /\ host.held + 1 \in Nat /\ host.held + 1 <= n
  <2>1. navLog.prompts \in Nat /\ host.held \in Nat /\ host.held <= navLog.prompts /\ navLog.navs \in Nat
    BY <1>0, WorldTypes, HostTypes DEF Inv, Typed
  <2> QED
    BY <1>0, <1>1, <2>1
<1> HIDE DEF n
<1>3. /\ navLog' \in LogT /\ navLog'.prompts = n /\ navLog'.may = navLog.may /\ navLog'.foreign = navLog.foreign
      /\ navLog'.navs = navLog.navs /\ navLog'.installed = navLog.installed
  BY <1>0, <1>1, <1>2 DEF LogT
<1>4. v.page = Nav!World.page /\ v.flight = Nav!World.flight /\ v.sent = Nav!World.sent /\ v.log = navLog'
  BY <1>1 DEF Nav!World
<1>5. v \in WorldT
  BY <1>0, <1>1, <1>3 DEF Nav!World, WorldT
<1> HIDE DEF v
<1>6. navLog.navs <= navLog.may.navs
  BY <1>0 DEF Inv, Typed
<1>7. CASE Nav!Blocked(host)
  <2> DEFINE c == host.held + 1
             g == [host EXCEPT !.held = c]
  <2>1. host' = g /\ feed' = feed
    BY <1>1, <1>7
  <2>2. c \in Nat /\ c <= n
    BY <1>2
  <2> HIDE DEF c
  <2>3. /\ g \in HostT /\ g.epoch = host.epoch /\ g.toSettle = host.toSettle
        /\ g.pending = host.pending /\ g.jobs = host.jobs /\ g.running = host.running
        /\ g.held = c /\ g.truth = host.truth
    BY <1>0, <2>2 DEF HostT
  <2> HIDE DEF g
  <2>4. Inv(host, feed, v)
    BY <1>0, <1>2, <1>3, <1>4, <1>5, <1>6, LogGrows
  <2>5. g.held <= v.log.prompts
    BY <1>3, <1>4, <2>2, <2>3
  <2>6. Inv(g, feed, v)
    BY <2>3, <2>4, <2>5, HostTwin
  <2> QED
    BY <1>1, <2>1, <2>6 DEF IInv, v
<1>8. CASE ~Nav!Blocked(host)
  <2>1. host' = Nav!Ran(host) /\ feed' = Append(feed, Nav!Message("event")) /\ host.pending = <<>>
    BY <1>1, <1>8 DEF Nav!Blocked
  <2>2. /\ Nav!Ran(host) \in HostT /\ Nav!Ran(host).epoch = host.epoch
        /\ Nav!Ran(host).toSettle = host.toSettle
        /\ Nav!Ran(host).pending = host.pending /\ Nav!Ran(host).jobs = host.jobs
        /\ Nav!Ran(host).running = host.running /\ Nav!Ran(host).held = host.held
        /\ Nav!Ran(host).truth.nav = host.truth.nav
        /\ Nav!Ran(host).truth.events = host.truth.events + 1
    BY <1>0, RanParts
  <2>3. Nav!Ran(host).held <= v.log.prompts /\ v.log.prompts <= v.log.may.prompts
    BY <1>2, <1>3, <1>4, <2>2
  <2>4. Inv(Nav!Ran(host), Append(feed, Nav!Message("event")), v)
    BY <1>0, <1>3, <1>4, <1>5, <2>1, <2>2, <2>3, EventNow, EventAppended
  <2> QED
    BY <1>1, <2>1, <2>4 DEF IInv, v
<1> QED
  BY <1>7, <1>8

\* A host that crashes forgets its branch; what is under way is of an older epoch.
LEMMA CrashKeeps == ASSUME IInv, Nav!Crash PROVE IInv' /\ page'.shown = page.shown
<1>0. /\ Inv(host, feed, Nav!World) /\ Nav!World \in WorldT /\ Nav!World.page = page
      /\ Nav!World.flight = walk /\ Nav!World.sent = sent /\ Nav!World.log = navLog
      /\ host \in HostT /\ feed \in Seq(MessageT) /\ navLog \in LogT /\ navLog.may \in Plans
      /\ navLog.may.navs \in 0..MaxNavs /\ navLog.may.prompts \in 0..MaxPrompts
  BY HostNow
<1> DEFINE b == host.epoch + 1
           g == Nav!FreshHost(b)
           m == [Nav!Message("lost") EXCEPT !.epoch = b]
           e == Append(feed, m)
           v == Nav!World'
           n == navLog.crashes + 1
<1>1. /\ host' = g /\ feed' = e /\ navLog' = [navLog EXCEPT !.crashes = n]
      /\ UNCHANGED <<page, walk, sent>>
  BY DEF Nav!Crash
<1>2. n \in Nat /\ b \in Nat \ {0} /\ host.epoch \in Nat /\ host.outcomes \in SUBSET Nav!Navs /\ host.epoch < b
  BY <1>0, WorldTypes, HostTypes
<1>3. m = [kind |-> "lost", epoch |-> b, nav |-> Nav!None, outcomes |-> host.outcomes, pending |-> <<>>]
  BY DEF Nav!Message
<1> HIDE DEF b, n, m
<1>4. m \in MessageT /\ MessageOK(m) /\ m.kind = "lost" /\ m.epoch = b
  <2>1. "lost" \in Kinds \ {"outcome"}
    BY DEF Kinds
  <2> QED
    BY <1>2, <1>3, <2>1, PlainMessage
<1>5. Told(m) = {}
  BY <1>4, NavsAreNumbers, ShortPlaces DEF MessageOK, Told
<1>6. /\ navLog' \in LogT /\ navLog'.prompts = navLog.prompts /\ navLog'.may = navLog.may
      /\ navLog'.foreign = navLog.foreign /\ navLog'.navs = navLog.navs /\ navLog'.installed = navLog.installed
  BY <1>0, <1>1, <1>2 DEF LogT
<1>7. v.page = Nav!World.page /\ v.flight = Nav!World.flight /\ v.sent = Nav!World.sent /\ v.log = navLog'
  BY <1>1 DEF Nav!World
<1>8. v \in WorldT
  BY <1>0, <1>1, <1>6 DEF Nav!World, WorldT
<1> HIDE DEF v
<1>9. /\ g.epoch = b /\ g.jobs = <<>> /\ g.running = Nav!None /\ g.toSettle = <<>> /\ g.pending = <<>>
      /\ g.acked = {} /\ g.outcomes = {} /\ g.held = 0 /\ g.truth.nav = Nav!None /\ g.truth.events = 0
  BY DEF Nav!FreshHost, Nav!Shown
<1>10. g \in HostT
  <2>1. /\ <<>> \in Seq(Nav!Navs) /\ <<>> \in Seq(ItemT)
    OBVIOUS
  <2>2. Nav!Shown(Nav!None, 0) \in ShownT
    BY DEF Nav!Shown, ShownT
  <2> QED
    BY <1>2, <2>1, <2>2 DEF Nav!FreshHost, HostT
<1> HIDE DEF g
<1>11. /\ e \in Seq(MessageT)
       /\ \A k \in DOMAIN feed : k \in DOMAIN e /\ e[k] = feed[k]
       /\ \A k \in DOMAIN e : (k \in DOMAIN feed /\ e[k] = feed[k]) \/ e[k] = m
       /\ \A j, k \in DOMAIN e : j < k => j \in DOMAIN feed
  BY <1>0, <1>4, AppendPlaces
<1> HIDE DEF e
<1>12. Waiting(v) = Waiting(Nav!World) /\ Known(v) = Known(Nav!World)
  BY <1>7 DEF Waiting, Known
<1>13. /\ page.epoch \in Nat /\ page.epoch < b /\ page.epoch # b
       /\ \A k \in DOMAIN feed : feed[k].epoch < b /\ feed[k].epoch # b /\ feed[k].epoch <= b
  <2>1. page.epoch \in Nat /\ page.epoch <= host.epoch
    BY <1>0, WorldTypes DEF Inv, Typed
  <2>2. ASSUME NEW k \in DOMAIN feed PROVE feed[k].epoch \in Nat /\ feed[k].epoch <= host.epoch
    <3>1. feed[k] \in MessageT
      BY <1>0
    <3> QED
      BY <1>0, <3>1 DEF Inv, Typed, MessageT
  <2> QED
    BY <1>2, <2>1, <2>2
<1>14. Typed(g, e, v)
  <2>1. \A k \in DOMAIN e : MessageOK(e[k]) /\ e[k].epoch <= g.epoch
    BY <1>0, <1>2, <1>4, <1>9, <1>11, <1>13 DEF Inv, Typed
  <2>2. navLog.prompts \in Nat /\ 0 <= navLog.prompts
    BY <1>0, WorldTypes
  <2>3. v.page.epoch <= g.epoch
    BY <1>0, <1>2, <1>7, <1>9, <1>13
  <2>4. /\ v.log.navs <= v.log.may.navs /\ v.log.prompts <= v.log.may.prompts
        /\ \A t \in v.page.timers : v.page.tries[t] > 0
    BY <1>0, <1>6, <1>7 DEF Inv, Typed
  <2>5. g.held <= v.log.prompts
    BY <1>0, <1>6, <1>7, <1>9, <2>2
  <2> QED
    BY <1>8, <1>10, <1>11, <2>1, <2>3, <2>4, <2>5 DEF Typed
<1>15. Alone(g, v)
  BY <1>9 DEF Alone
<1>16. DOMAIN g.jobs = {}
  BY <1>9, ShortPlaces
<1>17. Numbered(g, v.log)
  <2>1. navLog.navs \in Nat /\ Nav!None <= navLog.navs
    BY <1>0, WorldTypes DEF Nav!None
  <2> QED
    BY <1>0, <1>6, <1>7, <1>9, <1>16, <2>1 DEF Numbered
<1>18. \A x \in Nav!Navs : Older(host, navLog, x) => Older(g, v.log, x)
  BY <1>6, <1>7, <1>9, <1>16 DEF Older
<1>19. OrderHost(g, e, v) /\ OrderWire(e) /\ OrderPage(e, v)
  <2>1. \A y \in Known(Nav!World) : y \in Nav!Navs
    BY <1>0, WorldTypes DEF Known, Waiting
  <2>2. OrderHost(g, e, v)
    BY <1>0, <1>5, <1>11, <1>12, <1>18, <2>1 DEF Inv, OrderHost, Told
  <2>3. OrderWire(e)
    BY <1>0, <1>5, <1>11 DEF Inv, OrderWire
  <2>4. OrderPage(e, v)
    BY <1>0, <1>5, <1>11, <1>12 DEF Inv, OrderPage
  <2> QED
    BY <2>2, <2>3, <2>4
<1>20. PageOK(v) /\ FlightOK(v)
  BY <1>0, <1>6, <1>7, <1>12 DEF Inv, PageOK, FlightOK
<1>21. SentOK(e, v)
  BY <1>0, <1>4, <1>6, <1>7, <1>11 DEF Inv, SentOK
<1>22. Told1(e, v) /\ Told2(e, v)
  BY <1>0, <1>4, <1>7, <1>11, <1>12 DEF Inv, Told1, Told2
<1>23. EscrowPage(g, v) /\ EscrowWire(g, e, v)
  BY <1>0, <1>4, <1>5, <1>7, <1>9, <1>11, <1>13 DEF EscrowPage, EscrowWire
<1>24. Unshown(g, v) /\ Elsewhere(g, e, v)
  BY <1>9 DEF Unshown, Elsewhere
<1>25. Tally(g, e, v)
  <2>1. Nav!None \notin v.page.done
    BY <1>8, WorldTypes, NavsAreNumbers
  <2> QED
    BY <1>9, <2>1 DEF Tally
<1>26. Inv(g, e, v)
  BY <1>14, <1>15, <1>17, <1>19, <1>20, <1>21, <1>22, <1>23, <1>24, <1>25 DEF Inv
<1> QED
  BY <1>1, <1>26 DEF IInv, v

\* What is ready of an escrow: nothing of an empty one, its branch once settled.
LEMMA ReadyNone ==
  ASSUME NEW p, p = <<>> PROVE Nav!Kept(p, {i \in DOMAIN p : p[i].ready}) = <<>>
<1>1. {i \in DOMAIN p : p[i].ready} = {}
  BY ShortPlaces
<1> QED
  BY <1>1, KeptNone

\* The items of the escrow that an attach tells of: the ready ones.
LEMMA ReadyItem ==
  ASSUME NEW p, NEW x \in Nav!Navs, NEW ready \in BOOLEAN, p = <<Nav!Item(x, ready)>>
  PROVE  Nav!Kept(p, {i \in DOMAIN p : p[i].ready}) = IF ready THEN <<Nav!Item(x, ready)>> ELSE <<>>
<1>1. Nav!Item(x, ready) \in ItemT /\ Nav!Item(x, ready).ready = ready
  BY DEF Nav!Item, ItemT
<1> QED
  BY <1>1, ReadyOne

\* The baseline of an attach tells of the branch in escrow, once it is ready;
\* a page that is gone gets none.
LEMMA AttachKeeps == ASSUME IInv, Nav!Attach PROVE IInv' /\ page'.shown = page.shown
<1>0. /\ Inv(host, feed, Nav!World) /\ Nav!World \in WorldT /\ Nav!World.page = page
      /\ Nav!World.flight = walk /\ Nav!World.sent = sent /\ Nav!World.log = navLog
      /\ host \in HostT /\ feed \in Seq(MessageT) /\ navLog \in LogT /\ navLog.may \in Plans
      /\ navLog.may.navs \in 0..MaxNavs /\ navLog.may.prompts \in 0..MaxPrompts
  BY HostNow
<1> DEFINE ready == Nav!Kept(host.pending, {i \in DOMAIN host.pending : host.pending[i].ready})
           told == [i \in DOMAIN ready |-> ready[i].nav]
           m == [Nav!Message("attach") EXCEPT !.pending = told]
           e == Append(feed, m)
           n == Len(feed) + 1
           v == Nav!World'
           x == host.truth.nav
<1>1. /\ sent # <<>> /\ Head(sent).nav = Nav!None /\ sent' = Tail(sent)
      /\ feed' = IF Head(sent).life = page.life THEN e ELSE feed
      /\ UNCHANGED <<host, page, walk, navLog>>
  BY DEF Nav!Attach
<1>2. v = [Nav!World EXCEPT !.sent = Tail(Nav!World.sent)]
  <2> DEFINE s == Tail(sent)
  <2>1. v = [page |-> page, flight |-> walk, sent |-> s, log |-> navLog]
    BY <1>1 DEF Nav!World
  <2>2. Tail(Nav!World.sent) = s /\ Nav!World = [page |-> page, flight |-> walk, sent |-> sent, log |-> navLog]
    BY DEF Nav!World
  <2> HIDE DEF s, v
  <2>3. [Nav!World EXCEPT !.sent = s] = [page |-> page, flight |-> walk, sent |-> s, log |-> navLog]
    BY <2>2
  <2> QED
    BY <2>1, <2>2, <2>3
<1>3. Stays(host, feed, Nav!World, v)
  BY <1>0, <1>1, <1>2, SentTail
<1>4. /\ Inv(host, feed, v) /\ v.page = page /\ v.flight = walk /\ v.sent = Tail(sent)
      /\ v.log = navLog /\ v \in WorldT
  BY <1>0, <1>1, <1>3 DEF Stays, Inv, Typed, Nav!World
<1> HIDE DEF v
<1>5. told = <<>> \/ (x \in Nav!Navs /\ told = <<x>> /\ InEscrow(host, x))
  <2>1. CASE host.pending = <<>>
    <3>1. ready = <<>>
      BY <2>1, ReadyNone
    <3> HIDE DEF ready
    <3>2. DOMAIN ready = {}
      BY <3>1, ShortPlaces
    <3> QED
      BY <3>1, <3>2
  <2>2. CASE host.pending = <<Nav!Item(x, FALSE)>> /\ x # Nav!None
    <3>1. x \in Nav!Navs
      BY <1>0, <2>2, HostTypes
    <3>2. ready = <<>>
      BY <2>2, <3>1, ReadyItem
    <3> HIDE DEF ready
    <3>3. DOMAIN ready = {}
      BY <3>2, ShortPlaces
    <3> QED
      BY <3>2, <3>3
  <2>3. CASE host.pending = <<Nav!Item(x, TRUE)>> /\ x # Nav!None
    <3>1. x \in Nav!Navs
      BY <1>0, <2>3, HostTypes
    <3>2. ready = <<Nav!Item(x, TRUE)>>
      BY <2>3, <3>1, ReadyItem
    <3> HIDE DEF ready
    <3>3. DOMAIN ready = 1..1 /\ ready[1].nav = x
      BY <3>2, ShortPlaces DEF Nav!Item
    <3>4. told = [i \in 1..1 |-> x]
      BY <3>3
    <3>5. \A a : [i \in 1..1 |-> a] = <<a>>
      OBVIOUS
    <3> HIDE DEF told
    <3> QED
      BY <2>3, <3>1, <3>4, <3>5 DEF InEscrow
  <2> QED
    BY <1>0, <2>1, <2>2, <2>3 DEF Inv, Alone
<1>6. m = [kind |-> "attach", epoch |-> host.epoch, nav |-> Nav!None, outcomes |-> host.outcomes,
           pending |-> told]
  BY DEF Nav!Message
<1> HIDE DEF m, told
<1>7. /\ m \in MessageT /\ MessageOK(m) /\ m.kind = "attach" /\ m.epoch = host.epoch
      /\ \A y \in Told(m) : y = x /\ x \in Nav!Navs /\ InEscrow(host, x)
  <2>1. told \in Seq(Nav!Navs) /\ Len(told) <= 1
    <3>1. <<>> \in Seq(Nav!Navs) /\ Len(<<>>) <= 1
      OBVIOUS
    <3>2. \A a \in Nav!Navs : <<a>> \in Seq(Nav!Navs) /\ Len(<<a>>) <= 1
      OBVIOUS
    <3> QED
      BY <1>5, <3>1, <3>2
  <2>2. host.epoch \in Nat \ {0} /\ host.outcomes \in SUBSET Nav!Navs
    BY <1>0, HostTypes
  <2>3. m.kind = "attach" /\ m.epoch = host.epoch /\ m.nav = Nav!None /\ m.pending = told
    BY <1>6
  <2>4. m \in MessageT
    BY <1>6, <2>1, <2>2 DEF MessageT, Kinds
  <2>5. MessageOK(m)
    BY <2>1, <2>3 DEF MessageOK
  <2>6. \A y \in Told(m) : y = x /\ x \in Nav!Navs /\ InEscrow(host, x)
    BY <1>5, <2>3, NavsAreNumbers, ShortPlaces DEF Told
  <2> QED
    BY <2>3, <2>4, <2>5, <2>6
<1>8. /\ e \in Seq(MessageT) /\ n \in DOMAIN e /\ e[n] = m
      /\ \A k \in DOMAIN feed : k \in DOMAIN e /\ e[k] = feed[k]
      /\ \A k \in DOMAIN e : k \in DOMAIN feed \/ k = n
      /\ \A j, k \in DOMAIN e : j < k => j \in DOMAIN feed
  BY <1>0, <1>7, AppendPlaces
<1> HIDE DEF e, n
<1>9. CASE Head(sent).life # page.life
  BY <1>1, <1>4, <1>9 DEF IInv, v
<1>10. CASE Head(sent).life = page.life
  <2>1. \A i \in DOMAIN v.sent : ~(v.sent[i].life < page.life)
    <3>1. /\ 1 \in DOMAIN sent /\ Head(sent) = sent[1] /\ sent \in Seq(RequestT)
          /\ \A k \in DOMAIN v.sent : k + 1 \in DOMAIN sent /\ v.sent[k] = sent[k + 1] /\ 1 < k + 1
      BY <1>0, <1>1, <1>4, WorldTypes, TailPlaces
    <3>2. \A i, j \in DOMAIN sent : i < j => sent[i].life <= sent[j].life
      BY <1>0 DEF Inv, SentOK
    <3>3. \A k \in DOMAIN v.sent : page.life <= v.sent[k].life
      BY <1>10, <3>1, <3>2
    <3>4. ASSUME NEW k \in DOMAIN v.sent PROVE v.sent[k].life \in Nat
      <4>1. v.sent \in Seq(RequestT)
        BY <1>4, WorldTypes
      <4>2. v.sent[k] \in RequestT
        BY <4>1
      <4> QED
        BY <4>2 DEF RequestT
    <3> QED
      BY <1>0, <3>3, <3>4, WorldTypes
  <2>2. InEscrow(host, x) /\ x \in Nav!Navs => /\ host.toSettle = <<>> /\ host.running = Nav!None
                                               /\ \A y \in Nav!Navs : Older(host, navLog, y) => y <= x
    <3>1. \A y : Nav!Item(y, TRUE) # Nav!Item(y, FALSE)
      BY DEF Nav!Item
    <3>2. <<Nav!Item(x, TRUE)>> # <<Nav!Item(x, FALSE)>> /\ <<Nav!Item(x, TRUE)>> # <<>>
      BY <3>1, ShortPlaces
    <3> QED
      BY <1>0, <3>2, NavsAreNumbers DEF Inv, Alone, InEscrow, Older
  <2>3. /\ \A y \in Known(v) : y \in Nav!Navs /\ Older(host, navLog, y)
        /\ \A k \in DOMAIN feed : \A y \in Told(feed[k]) : y \in Nav!Navs /\ Older(host, navLog, y)
    <3>1. \A y \in Known(v) : y \in Nav!Navs
      BY <1>4, WorldTypes DEF Known, Waiting
    <3> QED
      BY <1>4, <3>1 DEF Inv, OrderHost, Told
  <2>4. Typed(host, e, v)
    BY <1>0, <1>4, <1>7, <1>8, HostTypes DEF Inv, Typed
  <2>5. OrderHost(host, e, v)
    <3>1. ASSUME x \in Nav!Navs, InEscrow(host, x) PROVE Older(host, navLog, x)
      <4>1. x # Nav!None /\ x \in Nat
        BY <3>1, NavsAreNumbers
      <4> QED
        BY <1>0, <2>2, <3>1, <4>1 DEF Inv, Numbered, Older
    <3> QED
      BY <1>4, <1>7, <1>8, <2>3, <3>1 DEF OrderHost
  <2>6. OrderWire(e)
    BY <1>4, <1>7, <1>8, <2>2, <2>3 DEF Inv, OrderWire
  <2>7. OrderPage(e, v)
    BY <1>4, <1>7, <1>8, <2>2, <2>3 DEF Inv, OrderPage
  <2>8. SentOK(e, v)
    BY <1>4, <1>8, <2>1 DEF Inv, SentOK
  <2>9. Told1(e, v) /\ Told2(e, v)
    BY <1>4, <1>7, <1>8 DEF Inv, Told1, Told2
  <2>10. EscrowWire(host, e, v)
    BY <1>4, <1>7, <1>8 DEF Inv, EscrowWire
  <2>11. Elsewhere(host, e, v)
    BY <1>4, <1>7, <1>8 DEF Inv, Elsewhere
  <2>12. Tally(host, e, v)
    <3>1. v.page.shown.events \in Nat /\ host.truth.events \in Nat
      BY <1>0, <1>4, WorldTypes, HostTypes
    <3>2. ASSUME Counts(feed, v.page.shown.events, host.truth.events)
          PROVE  Counts(e, v.page.shown.events, host.truth.events)
      BY <1>0, <1>7, <3>1, <3>2, CountsAppend DEF e
    <3>3. NoEventAfter(host, feed) => NoEventAfter(host, e)
      BY <1>7, <1>8 DEF NoEventAfter
    <3>4. (\A j \in DOMAIN feed : feed[j].kind # "event") => \A j \in DOMAIN e : e[j].kind # "event"
      BY <1>7, <1>8
    <3> QED
      BY <1>4, <3>2, <3>3, <3>4 DEF Inv, Tally
  <2>13. Inv(host, e, v)
    BY <1>4, <2>4, <2>5, <2>6, <2>7, <2>8, <2>9, <2>10, <2>11, <2>12 DEF Inv
  <2> QED
    BY <1>1, <1>10, <2>13 DEF IInv, v
<1> QED
  BY <1>9, <1>10

\* What an escrow is without a branch: the branch is gone, if it was there.
LEMMA EscrowNone ==
  ASSUME NEW p, p = <<>>, NEW x PROVE Nav!Kept(p, {i \in DOMAIN p : p[i].nav # x}) = p
<1>1. {i \in DOMAIN p : p[i].nav # x} = {}
  BY ShortPlaces
<1> QED
  BY <1>1, KeptNone

\* Lists of one are equal only if their members are.
LEMMA SingleInjective == \A a, b : <<a>> = <<b>> => a = b
<1>1. \A a : <<a>>[1] = a
  BY ShortPlaces
<1>2. ASSUME NEW a, NEW b, <<a>> = <<b>> PROVE a = b
  <2>1. <<a>>[1] = <<b>>[1]
    BY <1>2
  <2> QED
    BY <1>1, <2>1
<1> QED
  BY <1>2

\* The branch in escrow is released at the request of a page that has shown it,
\* or of a predecessor of the page, which then follows no host yet.
LEMMA Released ==
  ASSUME NEW h, NEW f, NEW w, NEW g, Inv(h, f, w), g \in HostT, h.truth.nav \in Nav!Navs,
         h.pending = <<Nav!Item(h.truth.nav, TRUE)>>, g.pending = <<>>,
         g.epoch = h.epoch, g.toSettle = h.toSettle, g.truth = h.truth,
         g.jobs = h.jobs, g.running = h.running, g.held = h.held,
         NEW i \in DOMAIN w.sent, w.sent[i].nav = h.truth.nav
  PROVE  Inv(g, f, w)
<1> DEFINE x == h.truth.nav
<1>1. h \in HostT /\ w \in WorldT /\ f \in Seq(MessageT) /\ x # Nav!None
  BY NavsAreNumbers DEF Inv, Typed
<1>2. /\ \A y : InEscrow(h, y) => y = x
      /\ h.pending # <<>> /\ h.toSettle = <<>> /\ h.running = Nav!None
  <2>1. \A y : Nav!Item(x, TRUE) = Nav!Item(y, TRUE) => x = y
    BY DEF Nav!Item
  <2>2. Nav!Item(x, TRUE) # Nav!Item(x, FALSE)
    BY DEF Nav!Item
  <2>90. h.pending # <<>>
    BY ShortPlaces
  <2>3. h.pending # <<>> /\ h.pending # <<Nav!Item(x, FALSE)>>
    BY <2>2, <2>90, SingleInjective
  <2>4. h.toSettle = <<>> /\ h.running = Nav!None
    BY <2>3 DEF Inv, Alone
  <2>5. \A y : InEscrow(h, y) => y = x
    BY <2>1, SingleInjective DEF InEscrow
  <2> QED
    BY <2>3, <2>4, <2>5
<1>3. /\ x \in w.log.installed
      /\ \/ x \in w.page.done
         \/ /\ w.page.epoch = Nav!None /\ w.page.done = {} /\ w.page.dirty
            /\ \A k \in DOMAIN f : f[k].kind # "attach"
  <2>1. w.sent[i].life \in Nat /\ w.page.life \in Nat
    <3>1. w.sent \in Seq(RequestT)
      BY <1>1, WorldTypes
    <3>2. w.sent[i] \in RequestT
      BY <3>1
    <3> QED
      BY <1>1, <3>2, WorldTypes DEF RequestT
  <2>2. w.sent[i].life <= w.page.life
    BY DEF Inv, SentOK
  <2>3. w.sent[i].life = w.page.life \/ w.sent[i].life < w.page.life
    BY <2>1, <2>2
  <2> QED
    BY <1>1, <2>3 DEF Inv, SentOK
<1>4. Typed(g, f, w) /\ Alone(g, w) /\ Numbered(g, w.log)
  <2>1. Typed(g, f, w)
    BY DEF Inv, Typed
  <2>2. Alone(g, w)
    BY <1>2 DEF Alone
  <2>3. Numbered(g, w.log)
    BY DEF Inv, Numbered
  <2> QED
    BY <2>1, <2>2, <2>3
<1>5. OrderHost(g, f, w)
  BY DEF Inv, OrderHost, Older
<1>6. EscrowPage(g, w)
  <2>1. h.epoch # Nav!None
    BY <1>1, HostTypes DEF Nav!None
  <2> QED
    BY <1>2, <1>3, <2>1 DEF Inv, EscrowPage
<1>7. EscrowWire(g, f, w)
  <2>1. ASSUME NEW k \in DOMAIN f, f[k].epoch = h.epoch, NEW y \in Told(f[k]), y \notin w.page.done
        PROVE  FALSE
    <3>1. y = x
      BY <1>2, <2>1 DEF Inv, EscrowWire
    <3>2. f[k].kind # "attach"
      BY <1>3, <2>1, <3>1
    <3>3. f[k].kind = "outcome"
      <4>1. MessageOK(f[k])
        BY DEF Inv, Typed
      <4> QED
        BY <3>2, <4>1, NavsAreNumbers, ShortPlaces DEF MessageOK, Told
    <3>4. x \in Known(w)
      BY DEF Known
    <3> QED
      BY <3>1, <3>3, <3>4, NavsAreNumbers DEF Inv, OrderPage
  <2> QED
    BY <2>1 DEF Inv, EscrowWire
<1>8. Unshown(g, w) /\ Elsewhere(g, f, w)
  BY <1>3 DEF Unshown, Elsewhere
<1>9. Tally(g, f, w)
  BY DEF Inv, Tally
<1> QED
  BY <1>4, <1>5, <1>6, <1>7, <1>8, <1>9 DEF Inv

\* The host takes an acknowledged branch out of the escrow.
LEMMA AcknowledgedKeeps ==
  ASSUME IInv, sent # <<>>, Head(sent).nav # Nav!None
  PROVE  Inv(Nav!Acknowledged(Head(sent)), feed, Nav!World)
<1>0. /\ Inv(host, feed, Nav!World) /\ Nav!World \in WorldT /\ Nav!World.page = page
      /\ Nav!World.flight = walk /\ Nav!World.sent = sent /\ Nav!World.log = navLog
      /\ host \in HostT /\ feed \in Seq(MessageT) /\ navLog \in LogT /\ navLog.may \in Plans
      /\ navLog.may.navs \in 0..MaxNavs /\ navLog.may.prompts \in 0..MaxPrompts
  BY HostNow
<1> DEFINE r == Head(sent)
           x == host.truth.nav
           p == Nav!Kept(host.pending, {i \in DOMAIN host.pending : host.pending[i].nav # r.nav})
           a == host.acked \cup {r.nav}
           g == [host EXCEPT !.acked = a, !.pending = p]
<1>1. 1 \in DOMAIN sent /\ r = sent[1] /\ r.nav \in Nav!Navs
  <2>1. sent \in Seq(RequestT)
    BY <1>0, WorldTypes
  <2>2. 1 \in DOMAIN sent /\ r = sent[1]
    BY <2>1, TailPlaces
  <2>3. sent[1] \in RequestT
    BY <2>1, <2>2
  <2> QED
    BY <2>2, <2>3 DEF RequestT
<1>2. CASE ~Nav!Acknowledges(r)
  BY <1>0, <1>2 DEF Nav!Acknowledged
<1>3. CASE Nav!Acknowledges(r)
  <2>1. Nav!Acknowledged(r) = g
    BY <1>3 DEF Nav!Acknowledged
  <2>2. a \in SUBSET Nav!Navs
    BY <1>0, <1>1, HostTypes
  <2>3. p \in Seq(ItemT) => /\ g \in HostT /\ g.epoch = host.epoch /\ g.toSettle = host.toSettle
                            /\ g.pending = p /\ g.truth = host.truth /\ g.jobs = host.jobs
                            /\ g.running = host.running /\ g.held = host.held
    <3> HIDE DEF p, a
    <3> QED
      BY <1>0, <2>2 DEF HostT
  <2>4. host.held <= Nav!World.log.prompts /\ host.pending \in Seq(ItemT)
    BY <1>0, HostTypes DEF Inv, Typed
  <2>5. CASE p = host.pending
    <3> HIDE DEF p, g
    <3> QED
      BY <1>0, <2>1, <2>3, <2>4, <2>5, HostTwin
  <2>6. CASE p # host.pending
    <3>1. x # Nav!None /\ \E ready \in BOOLEAN : host.pending = <<Nav!Item(x, ready)>>
      <4>1. host.pending # <<>>
        BY <2>6, EscrowNone
      <4> HIDE DEF p
      <4> QED
        BY <1>0, <4>1 DEF Inv, Alone
    <3>2. PICK ready \in BOOLEAN : host.pending = <<Nav!Item(x, ready)>>
      BY <3>1
    <3>3. x \in Nav!Navs
      BY <1>0, <3>1, HostTypes
    <3>4. p = IF x = r.nav THEN <<>> ELSE <<Nav!Item(x, ready)>>
      <4>1. DOMAIN host.pending = {1} /\ host.pending[1] = Nav!Item(x, ready) /\ Nav!Item(x, ready).nav = x
        BY <3>2, ShortPlaces DEF Nav!Item
      <4> DEFINE at == {i \in DOMAIN host.pending : host.pending[i].nav # r.nav}
      <4>2. at = IF x = r.nav THEN {} ELSE {1}
        BY <4>1
      <4>3. p = Nav!Kept(host.pending, at)
        OBVIOUS
      <4> HIDE DEF at, p, r
      <4>4. CASE x = r.nav
        BY <4>2, <4>3, <4>4, KeptNone
      <4>5. CASE x # r.nav
        BY <4>1, <4>2, <4>3, <4>5, KeptOne
      <4> QED
        BY <4>4, <4>5
    <3> HIDE DEF p
    <3>5. p = <<>> /\ r.nav = x
      BY <2>6, <3>2, <3>4
    <3>6. Nav!Contains(Nav!Pending(host), x)
      BY <3>2, <3>3, EscrowOfOne
    <3>7. \E i \in DOMAIN host.pending : host.pending[i] = Nav!Item(x, TRUE)
      BY <1>3, <3>5, <3>6 DEF Nav!Acknowledges
    <3>8. host.pending = <<Nav!Item(x, TRUE)>>
      <4>1. host.pending[1] = Nav!Item(x, ready) /\ DOMAIN host.pending = {1}
        BY <3>2, ShortPlaces
      <4>2. Nav!Item(x, ready) = Nav!Item(x, TRUE)
        BY <3>7, <4>1
      <4> QED
        BY <3>2, <4>2
    <3>9. p \in Seq(ItemT)
      BY <3>5
    <3> HIDE DEF g
    <3>10. Inv(g, feed, Nav!World)
      BY <1>0, <1>1, <2>3, <3>3, <3>5, <3>8, <3>9, Released
    <3> QED
      BY <2>1, <3>10
  <2> QED
    BY <2>5, <2>6
<1> QED
  BY <1>2, <1>3

\* The answer of the host, and the page that waits for it.
LEMMA AckArrivesKeeps == ASSUME IInv, Nav!AckArrives PROVE IInv' /\ page'.shown = page.shown
<1>0. /\ Inv(host, feed, Nav!World) /\ Nav!World \in WorldT /\ Nav!World.page = page
      /\ Nav!World.flight = walk /\ Nav!World.sent = sent /\ Nav!World.log = navLog
  BY WorldNow
<1> DEFINE r == Head(sent)
           u == [Nav!World EXCEPT !.sent = Tail(Nav!World.sent)]
           ok == Nav!Acknowledges(r)
           v == Nav!Answered(u, r, ok)
<1>1. /\ sent # <<>> /\ r.nav # Nav!None /\ host' = Nav!Acknowledged(r) /\ feed' = feed
      /\ Nav!Becomes(v)
  BY <1>0 DEF Nav!AckArrives
<1>2. ok \in BOOLEAN
  BY DEF Nav!Acknowledges
<1>3. Inv(host', feed, Nav!World)
  BY <1>1, AcknowledgedKeeps
<1>4. Stays(host', feed, Nav!World, u)
  BY <1>0, <1>1, <1>3, SentTail
<1> HIDE DEF u, ok
<1>5. Stays(host', feed, u, v)
  BY <1>2, <1>4, AnsweredKeeps DEF Stays
<1> HIDE DEF v
<1>6. v \in WorldT /\ Inv(host', feed, v) /\ v.page.shown = page.shown
  BY <1>0, <1>4, <1>5 DEF Stays, Inv, Typed
<1>7. Nav!World' = v
  BY <1>1, <1>6, WorldTypes DEF Nav!Becomes, Nav!World
<1> QED
  BY <1>1, <1>6, <1>7 DEF IInv, Nav!Becomes

-----------------------------------------------------------------------------
\* What the invariant says of the initial states.
LEMMA InitKeeps == ASSUME Nav!Init PROVE IInv
<1> DEFINE fp == Nav!FreshPage(0)
           h == Nav!FreshHost(1)
           s == <<Nav!Attaching(0)>>
<1>1. /\ host = h /\ feed = <<>> /\ page = fp /\ walk = Nav!NoFlight /\ sent = s
      /\ navLog \in [may : Plans, navs : {0}, prompts : {0}, foreign : {0}, faults : {0},
                  fences : {0}, crashes : {0}, installed : {{}}]
  BY DEF Nav!Init
<1>2. /\ h.epoch = 1 /\ h.jobs = <<>> /\ h.running = Nav!None /\ h.toSettle = <<>> /\ h.pending = <<>>
      /\ h.acked = {} /\ h.outcomes = {} /\ h.held = 0 /\ h.truth.nav = Nav!None /\ h.truth.events = 0
  BY DEF Nav!FreshHost, Nav!Shown
<1>3. h \in HostT
  <2>1. /\ <<>> \in Seq(Nav!Navs) /\ <<>> \in Seq(ItemT)
    OBVIOUS
  <2>2. Nav!Shown(Nav!None, 0) \in ShownT
    BY DEF Nav!Shown, ShownT
  <2> QED
    BY <2>1, <2>2 DEF Nav!FreshHost, HostT
<1>4. /\ fp.life = 0 /\ fp.epoch = Nav!None /\ fp.pending = <<>> /\ fp.outcomes = {}
      /\ fp.shown.nav = Nav!None /\ fp.shown.events = 0 /\ fp.done = {}
      /\ fp.timers = {}
  BY DEF Nav!FreshPage, Nav!Shown
<1>5. fp \in PageT
  <2>1. <<>> \in Seq(Nav!Navs)
    OBVIOUS
  <2>2. Nav!Shown(Nav!None, 0) \in ShownT
    BY DEF Nav!Shown, ShownT
  <2>3. [n \in Nav!Navs |-> 0] \in [Nav!Navs -> 0..Nav!Retries] /\ Nav!None \in Nat
    BY NavsAreNumbers
  <2> QED
    BY <2>1, <2>2, <2>3 DEF Nav!FreshPage, PageT
<1>6. Nav!NoFlight \in FlightT /\ Nav!NoFlight.pc = "idle" /\ Nav!NoFlight.nav = Nav!None
  <2>1. <<>> \in Seq(Nav!Navs) /\ Nav!None \in Nat
    BY NavsAreNumbers
  <2> QED
    BY <2>1 DEF Nav!NoFlight, FlightT
<1>7. s \in Seq(RequestT) /\ DOMAIN s = {1} /\ s[1].nav = Nav!None /\ s[1].life = 0
  <2>1. Nav!Attaching(0) \in RequestT /\ Nav!Attaching(0).nav = Nav!None /\ Nav!Attaching(0).life = 0
    BY NavsAreNumbers DEF Nav!Attaching, Nav!Request, RequestT
  <2>2. \A a \in RequestT : <<a>> \in Seq(RequestT)
    OBVIOUS
  <2> QED
    BY <2>1, <2>2, ShortPlaces
<1>8. /\ navLog \in LogT /\ navLog.navs = 0 /\ navLog.prompts = 0 /\ navLog.foreign = 0 /\ navLog.installed = {}
      /\ navLog.may \in Plans
  BY <1>1 DEF LogT
<1>9. navLog.may.navs \in Nat /\ navLog.may.prompts \in Nat
  BY <1>8, NavAssumption
<1> HIDE DEF fp, h, s
<1>10. /\ Nav!World.page = fp /\ Nav!World.flight = Nav!NoFlight /\ Nav!World.sent = s /\ Nav!World.log = navLog
       /\ Nav!World \in WorldT
  BY <1>1, <1>5, <1>6, <1>7, <1>8 DEF Nav!World, WorldT
<1>11. /\ DOMAIN feed = {} /\ feed \in Seq(MessageT) /\ DOMAIN h.jobs = {} /\ DOMAIN fp.pending = {}
       /\ Len(fp.pending) = 0
  <2>1. <<>> \in Seq(MessageT)
    OBVIOUS
  <2> QED
    BY <1>1, <1>2, <1>4, <2>1, ShortPlaces
<1>12. Waiting(Nav!World) = {} /\ Known(Nav!World) = {}
  <2>1. Waiting(Nav!World) = {}
    BY <1>10, <1>11 DEF Waiting
  <2> QED
    BY <1>4, <1>6, <1>7, <1>10, <2>1, NavsAreNumbers DEF Known
<1>13. Typed(h, feed, Nav!World) /\ Alone(h, Nav!World)
  BY <1>2, <1>3, <1>4, <1>8, <1>9, <1>10, <1>11 DEF Typed, Alone, Nav!None
<1>14. Numbered(h, Nav!World.log)
  BY <1>2, <1>8, <1>10, <1>11 DEF Numbered, Nav!None
<1>15. OrderHost(h, feed, Nav!World) /\ OrderWire(feed) /\ OrderPage(feed, Nav!World)
  BY <1>11, <1>12 DEF OrderHost, OrderWire, OrderPage
<1>16. PageOK(Nav!World)
  BY <1>4, <1>10, <1>11, <1>12 DEF PageOK
<1>17. FlightOK(Nav!World)
  BY <1>6, <1>10 DEF FlightOK
<1>18. SentOK(feed, Nav!World)
  BY <1>4, <1>7, <1>10 DEF SentOK
<1>19. /\ Told1(feed, Nav!World) /\ Told2(feed, Nav!World) /\ EscrowPage(h, Nav!World)
       /\ EscrowWire(h, feed, Nav!World)
  BY <1>2, <1>11, <1>12 DEF Told1, Told2, EscrowPage, EscrowWire
<1>20. Unshown(h, Nav!World) /\ Elsewhere(h, feed, Nav!World)
  BY <1>2 DEF Unshown, Elsewhere
<1>21. Tally(h, feed, Nav!World)
  BY <1>2, <1>4, <1>10, <1>12 DEF Tally
<1>22. Inv(h, feed, Nav!World)
  BY <1>13, <1>14, <1>15, <1>16, <1>17, <1>18, <1>19, <1>20, <1>21 DEF Inv
<1> QED
  BY <1>1, <1>22 DEF IInv

\* A page shows a newer branch, or as much of the branch that it is on.
Onward ==
    page'.life = page.life =>
      \/ page'.shown.nav > page.shown.nav
      \/ page'.shown.nav = page.shown.nav /\ page'.shown.events >= page.shown.events

\* Every step keeps the invariant, and takes no page back.
LEMMA NextKeeps == ASSUME IInv, [Nav!Next]_(Nav!vars) PROVE IInv' /\ Onward
<1>1. page.shown.nav \in Nat /\ page.shown.events \in Nat
  BY HostNow, WorldTypes, NavsAreNumbers
<1>2. page'.shown = page.shown => Onward
  BY <1>1 DEF Onward
<1>3. CASE Nav!HostStep
  <2>1. CASE Nav!Dispatch
    BY <1>2, <2>1, DispatchKeeps
  <2>2. CASE Nav!Execute
    BY <1>2, <2>2, ExecuteKeeps
  <2>3. CASE Nav!NavigationEnds
    BY <1>2, <2>3, NavigationEndsKeeps
  <2>4. CASE Nav!Settle
    BY <1>2, <2>4, SettleKeeps
  <2>5. CASE Nav!Submit
    BY <1>2, <2>5, SubmitKeeps
  <2>6. CASE Nav!Drain
    BY <1>2, <2>6, DrainKeeps
  <2>7. CASE Nav!Foreign
    BY <1>2, <2>7, ForeignKeeps
  <2>8. CASE Nav!Attach
    BY <1>2, <2>8, AttachKeeps
  <2>9. CASE Nav!Crash
    BY <1>2, <2>9, CrashKeeps
  <2>10. ASSUME NEW nav \in Nav!Navs, Nav!Prune(nav) PROVE IInv' /\ Onward
    BY <1>2, <2>10, PruneKeeps
  <2> QED
    BY <1>3, <2>1, <2>2, <2>3, <2>4, <2>5, <2>6, <2>7, <2>8, <2>9, <2>10 DEF Nav!HostStep
<1>4. CASE Nav!PageStep
  <2>1. CASE Nav!Begin
    BY <1>2, <2>1, BeginKeeps
  <2>2. CASE Nav!Convert
    BY <1>2, <2>2, ConvertKeeps DEF Onward
  <2>3. CASE Nav!ConvertFails
    BY <1>2, <2>3, ConvertFailsKeeps
  <2>4. CASE Nav!Continue
    BY <1>2, <2>4, ContinueKeeps
  <2>5. CASE Nav!Receive
    BY <2>5, ReceiveKeeps DEF Onward
  <2>6. CASE Nav!Fence
    BY <1>2, <2>6, FenceKeeps
  <2>7. CASE Nav!Reload
    BY <2>7, ReloadKeeps DEF Onward
  <2>8. ASSUME NEW nav \in Nav!Navs, Nav!Timer(nav) PROVE IInv' /\ Onward
    BY <1>2, <2>8, TimerKeeps
  <2> QED
    BY <1>4, <2>1, <2>2, <2>3, <2>4, <2>5, <2>6, <2>7, <2>8 DEF Nav!PageStep
<1>5. CASE Nav!AckArrives
  BY <1>2, <1>5, AckArrivesKeeps
<1>6. CASE Nav!AckFails
  BY <1>2, <1>6, AckFailsKeeps
<1>7. CASE UNCHANGED Nav!vars
  <2>1. Nav!World' = Nav!World /\ host' = host /\ feed' = feed /\ page' = page
    BY <1>7 DEF Nav!vars, Nav!World
  <2> QED
    BY <1>2, <2>1 DEF IInv
<1> QED
  BY <1>3, <1>4, <1>5, <1>6, <1>7 DEF Nav!Next

\* A page that waits for two branches has two to wait for.
LEMMA PendingBounded ==
  ASSUME NEW w \in WorldT, PageOK(w) PROVE w.page.pending \in Nav!BoundedSeq(Nav!Navs, MaxNavs)
<1> DEFINE p == w.page.pending
<1>1. p \in Seq(Nav!Navs) /\ Len(p) <= 2 /\ Len(p) \in Nat
  BY WorldTypes DEF PageOK
<1>2. p \in [1..Len(p) -> Nav!Navs]
  BY <1>1
<1>3. Len(p) <= MaxNavs
  <2>1. MaxNavs \in Nat
    BY NavAssumption
  <2>2. \A i \in 1..Len(p) : p[i] \in 1..MaxNavs
    BY <1>2, NavsAreNumbers
  <2>3. Len(p) = 2 => p[1] < p[2]
    BY DEF PageOK
  <2>4. CASE Len(p) = 0
    BY <2>1, <2>4
  <2>5. CASE Len(p) = 1
    <3>1. p[1] \in 1..MaxNavs
      BY <2>2, <2>5
    <3> HIDE DEF p
    <3> QED
      BY <2>1, <2>5, <3>1
  <2>6. CASE Len(p) = 2
    <3>1. p[1] \in 1..MaxNavs /\ p[2] \in 1..MaxNavs /\ p[1] < p[2]
      BY <2>2, <2>3, <2>6
    <3> HIDE DEF p
    <3> QED
      BY <2>1, <2>6, <3>1
  <2>7. \A n \in Nat : n <= 2 => n = 0 \/ n = 1 \/ n = 2
    OBVIOUS
  <2>8. Len(p) = 0 \/ Len(p) = 1 \/ Len(p) = 2
    BY <1>1, <2>7
  <2> HIDE DEF p
  <2> QED
    BY <2>4, <2>5, <2>6, <2>8
<1> HIDE DEF p
<1> QED
  BY <1>1, <1>2, <1>3, NavAssumption DEF Nav!BoundedSeq, Nav!SeqOf, p

\* What the invariant gives.
LEMMA InvGives == ASSUME IInv PROVE Nav!TypeOK /\ Nav!NotPastTheBranch /\ Nav!NavigationIsAlone /\ Nav!TruthShown
<1>0. /\ Inv(host, feed, Nav!World) /\ Nav!World \in WorldT /\ Nav!World.page = page
      /\ Nav!World.flight = walk /\ Nav!World.sent = sent /\ Nav!World.log = navLog
      /\ host \in HostT /\ feed \in Seq(MessageT) /\ navLog \in LogT /\ navLog.may \in Plans
      /\ navLog.may.navs \in 0..MaxNavs /\ navLog.may.prompts \in 0..MaxPrompts
  BY HostNow
<1>1. Nav!TypeOK
  <2>1. host.running \in Nav!Navs \cup {Nav!None} /\ host.held \in Nat /\ navLog.prompts \in Nat
    BY <1>0, HostTypes, WorldTypes
  <2>2. host.held <= navLog.prompts /\ navLog.prompts <= navLog.may.prompts
    BY <1>0 DEF Inv, Typed
  <2>3. host.held \in 0..MaxPrompts
    BY <1>0, <2>1, <2>2, NavAssumption
  <2>4. page.pending \in Nav!BoundedSeq(Nav!Navs, MaxNavs)
    BY <1>0, PendingBounded DEF Inv
  <2>5. page.timers \subseteq Nav!Navs /\ page.tries \in [Nav!Navs -> 0..Nav!Retries]
    BY <1>0, WorldTypes
  <2>6. \A n \in Nav!Navs : page.tries[n] \in 0..Nav!Retries /\ (n \in page.timers => page.tries[n] > 0)
    BY <1>0, <2>5 DEF Inv, Typed
  <2>7. walk.pc \in {"idle", "converting", "acking", "ackingOld", "acked", "ackedOld"}
    BY <1>0, WorldTypes DEF FlightT
  <2> QED
    BY <2>1, <2>3, <2>4, <2>5, <2>6, <2>7 DEF Nav!TypeOK
<1>2. Nav!NotPastTheBranch
  <2>1. host.truth.events \in Nat /\ navLog.foreign \in Nat
    BY <1>0, HostTypes, WorldTypes
  <2> QED
    BY <1>0, <2>1 DEF Inv, Unshown, Nav!NotPastTheBranch
<1>3. Nav!NavigationIsAlone
  BY <1>0 DEF Inv, Alone, Nav!NavigationIsAlone
<1>4. Nav!TruthShown
  <2>1. SUFFICES ASSUME navLog.foreign = 0, Nav!Quiet, ~page.dirty, host.truth.nav # Nav!None,
                        host.pending = <<>>
                 PROVE  page.shown = host.truth
    BY DEF Nav!TruthShown
  <2>2. host.truth.nav \in page.done
    BY <1>0, <2>1 DEF Inv, Elsewhere
  <2>3. Counts(<<>>, page.shown.events, host.truth.events)
    BY <1>0, <2>1, <2>2 DEF Inv, Tally, Nav!Quiet
  <2>4. page.shown.events = host.truth.events
    BY <2>3, CountsEmpty
  <2>5. /\ page.shown \in ShownT /\ host.truth \in ShownT /\ page.shown.nav \in Nav!Navs \cup {Nav!None}
        /\ host.truth.nav \in Nav!Navs
    BY <1>0, <2>1, HostTypes, WorldTypes
  <2>6. host.truth.nav <= page.shown.nav
    BY <1>0, <2>2 DEF Inv, PageOK
  <2>7. page.shown.nav # Nav!None
    BY <2>5, <2>6, NavsAreNumbers
  <2>8. page.shown.nav \in page.done
    BY <1>0, <2>7 DEF Inv, PageOK
  <2>9. page.shown.nav <= host.truth.nav
    BY <1>0, <2>1, <2>8 DEF Inv, OrderHost, Known, Older
  <2>10. page.shown.nav = host.truth.nav
    BY <2>5, <2>6, <2>7, <2>9, NavsAreNumbers
  <2> QED
    BY <2>4, <2>5, <2>10 DEF ShownT
<1> QED
  BY <1>1, <1>2, <1>3, <1>4

\* The host itself adds to a navigation's branch only after a page has installed
\* it; a navigation runs only while no branch is in escrow; a page never goes
\* back to a branch it left, nor to less of the one it shows; and a page at rest
\* that is not dirty shows what the host holds.  It is what the escrow of
\* runNavigation (captureNavigationPresentation) and of
\* acknowledgeNavigationPresentation is for, with the page's
\* reconcileNavigationPresentations.
THEOREM BranchIsShown == Nav!Spec => BranchShown
<1>1. Nav!Init => IInv
  BY InitKeeps
<1>2. IInv /\ [Nav!Next]_(Nav!vars) => IInv'
  BY NextKeeps
<1>3. IInv => Nav!TypeOK /\ Nav!NotPastTheBranch /\ Nav!NavigationIsAlone /\ Nav!TruthShown
  BY InvGives
<1>4. IInv /\ [Nav!Next]_(Nav!vars) => [Onward]_(Nav!vars)
  BY NextKeeps
<1>5. Nav!Spec => [](Nav!TypeOK /\ Nav!NotPastTheBranch /\ Nav!NavigationIsAlone /\ Nav!TruthShown)
  BY <1>1, <1>2, <1>3, PTL DEF Nav!Spec
<1>6. Nav!Spec => [][Onward]_(Nav!vars)
  BY <1>1, <1>2, <1>4, PTL DEF Nav!Spec
<1>7. [][Onward]_(Nav!vars) <=> Nav!NeverBack
  BY DEF Onward, Nav!NeverBack
<1> QED
  BY <1>5, <1>6, <1>7 DEF BranchShown, Nav!BranchShown

\* The same of the composition that the run page_sync checks: the part of the
\* semantic frames leaves the navigation's state alone.
THEOREM BranchIsShownBeside == PartSpec => BranchShown
<1>1. PartInit => Nav!Init
  BY DEF PartInit
<1>2. [PartNext]_all => [Nav!Next]_(Nav!vars)
  BY DEF PartNext, all, navVars, Nav!vars
<1>3. PartSpec => Nav!Init /\ [][Nav!Next]_(Nav!vars)
  BY <1>1, <1>2, PTL DEF PartSpec
<1>4. Nav!Init /\ [][Nav!Next]_(Nav!vars) => BranchShown
  BY BranchIsShown DEF Nav!Spec
<1> QED
  BY <1>3, <1>4
=============================================================================
