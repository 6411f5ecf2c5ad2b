------------------------ MODULE NavigationPresentation ------------------------
(***************************************************************************)
(* A navigation in the conversation tree, from the host that performs it   *)
(* (state-authority.mjs: dispatchIntent, runNavigation, settle-            *)
(* DispatchedIntent, acknowledgeNavigationPresentation) to the page that   *)
(* shows the branch (sessions-store.ts, reconcileNavigationPresentations). *)
(* The host keeps the branch in escrow, and prompts behind it in custody,  *)
(* until the page has confirmed that it shows the branch.                  *)
(*                                                                         *)
(* What is shown is a branch (the navigation that selected it, 0 for the   *)
(* first) and how many entries followed on it.  Publications and attach    *)
(* baselines reach the page in order, and so do its requests the host; an  *)
(* answer to an acknowledgement may be lost or come too late.              *)
(***************************************************************************)
EXTENDS Naturals, Sequences, FiniteSets, SequencesExt

CONSTANTS
    MaxNavs,     \* bound: navigation intents
    MaxPrompts,  \* bound: prompts of the user
    Plans        \* what may happen in a behaviour: plans, see below

Retries == 3     \* delays.length
Navs == 1..MaxNavs
None == 0

(***************************************************************************)
(* A behaviour follows one plan, kept in log.may: how many navigations,    *)
(* prompts, entries that an extension adds on its own (foreign),           *)
(* conversions and acknowledgements that fail (faults), losses of the      *)
(* page's authority (fences), reloads of the page and host crashes it may  *)
(* have, and whether its steps are fair.                                   *)
(***************************************************************************)
VARIABLES
    host,    \* the child's authority
    wire,    \* publications and baselines on their way to the page
    page,    \* the session in the store, and its bookkeeping of navigations
    flight,  \* the reconciliation under way
    sent,    \* requests on their way to the host: acknowledgements and attaches
    log      \* counters of the bounds

vars == <<host, wire, page, flight, sent, log>>

Request(nav, epoch, life) == [nav |-> nav, epoch |-> epoch, life |-> life]
Attaching(life) == Request(None, None, life)
Shown(nav, events) == [nav |-> nav, events |-> events]
Item(nav, ready) == [nav |-> nav, ready |-> ready]
NoFlight == [pc |-> "idle", nav |-> None, olds |-> <<>>, epoch |-> None, ok |-> FALSE]
FreshPage(life) ==
    [life |-> life, epoch |-> None, pending |-> <<>>, outcomes |-> {},
     shown |-> Shown(None, 0), dirty |-> life > 0, done |-> {}, tasks |-> 0,
     tries |-> [n \in Navs |-> 0], timers |-> {}]
FreshHost(epoch) ==
    [epoch |-> epoch, jobs |-> <<>>, running |-> None, toSettle |-> <<>>, pending |-> <<>>,
     acked |-> {}, outcomes |-> {}, held |-> 0, truth |-> Shown(None, 0)]

Init ==
    /\ host = FreshHost(1) /\ wire = <<>> /\ page = FreshPage(0) /\ flight = NoFlight
    /\ sent = <<Attaching(0)>>
    /\ log \in [may : Plans, navs : {0}, prompts : {0}, foreign : {0}, faults : {0}, fences : {0},
                crashes : {0}, installed : {{}}]

(***************************************************************************)
(* The host.                                                               *)
(***************************************************************************)
\* Array.filter: the elements of a list at some of its places, in their order.
Kept(list, at) ==
    [n \in 1..Cardinality(at) |-> list[CHOOSE i \in at : Cardinality({j \in at : j <= i}) = n]]

Message(kind) ==
    [kind |-> kind, epoch |-> host.epoch, nav |-> None, outcomes |-> host.outcomes, pending |-> <<>>]
Pending(h) == [i \in DOMAIN h.pending |-> h.pending[i].nav]

BlockedWhileRunning(h) == h.running # None   \* bug: the escrow does not fence
Blocked(h) == h.running # None \/ h.pending # <<>>

\* dispatchIntent: refused now, or admitted and scheduled.
Dispatch ==
    /\ log.navs < log.may.navs /\ ~Blocked(host)
    /\ host' = [host EXCEPT !.jobs = Append(@, log.navs + 1)]
    /\ log' = [log EXCEPT !.navs = @ + 1]
    /\ UNCHANGED <<wire, page, flight, sent>>

ExecuteUnchecked ==   \* bug: the slot trusts the admission
    /\ host.jobs # <<>>
    /\ host' = [host EXCEPT !.jobs = Tail(@), !.running = Head(host.jobs)]
    /\ UNCHANGED <<wire, page, flight, sent, log>>
\* The scheduled slot looks again; runNavigation opens its barrier.
Execute ==
    /\ host.jobs # <<>>
    /\ host' = [host EXCEPT !.jobs = Tail(@), !.running = IF Blocked(host) THEN @ ELSE Head(host.jobs)]
    /\ UNCHANGED <<wire, page, flight, sent, log>>

\* captureNavigationPresentation, still within runNavigation.
Captured(h, nav) == [h EXCEPT !.acked = @ \ {nav}, !.pending = Append(@, Item(nav, FALSE))]
NavigationEnds == \E ok \in BOOLEAN :
    LET nav == host.running
        over == [host EXCEPT !.running = None, !.toSettle = IF ok THEN Append(@, nav) ELSE @]
    IN  /\ nav # None
        /\ host' = IF ok THEN Captured([over EXCEPT !.truth = Shown(nav, 0)], nav)
                   ELSE [over EXCEPT !.held = 0]
        /\ UNCHANGED <<wire, page, flight, sent, log>>

\* settleDispatchedIntent: the escrow is ready, the outcome is published with the branch.
Settled(h, nav) ==
    LET ready == [h EXCEPT !.toSettle = Tail(@), !.outcomes = @ \cup {nav}]
    IN  IF Contains(Pending(h), nav)
        THEN [ready EXCEPT !.pending = [i \in DOMAIN @ |->
                                          IF @[i].nav = nav THEN Item(nav, TRUE) ELSE @[i]]]
        ELSE [ready EXCEPT !.pending = Append(@, Item(nav, TRUE))]
Settle ==
    LET nav == Head(host.toSettle) IN
    /\ host.toSettle # <<>>
    /\ host' = Settled(host, nav)
    /\ wire' = Append(wire, [Message("outcome") EXCEPT !.nav = nav, !.outcomes = host'.outcomes])
    /\ UNCHANGED <<page, flight, sent, log>>

\* pruneDispatchedIntents: a settled intent is retired, a later frame says so.
RetirableAny(nav) == TRUE   \* bug: the fact that the page must match is retired too
Retirable(nav) == ~Contains(Pending(host), nav)
Prune(nav) ==
    /\ nav \in host.outcomes /\ Retirable(nav)
    /\ host' = [host EXCEPT !.outcomes = @ \ {nav}]
    /\ wire' = Append(wire, [Message("frame") EXCEPT !.outcomes = host'.outcomes])
    /\ UNCHANGED <<page, flight, sent, log>>

Ran(h) == [h EXCEPT !.truth.events = @ + 1]
Submit ==
    /\ log.prompts < log.may.prompts
    /\ host' = IF Blocked(host) THEN [host EXCEPT !.held = @ + 1] ELSE Ran(host)
    /\ wire' = IF Blocked(host) THEN wire ELSE Append(wire, Message("event"))
    /\ log' = [log EXCEPT !.prompts = @ + 1]
    /\ UNCHANGED <<page, flight, sent>>
Drain ==
    /\ host.held > 0 /\ ~Blocked(host)
    /\ host' = Ran([host EXCEPT !.held = @ - 1])
    /\ wire' = Append(wire, Message("event"))
    /\ UNCHANGED <<page, flight, sent, log>>
Foreign ==
    /\ log.foreign < log.may.foreign
    /\ host' = Ran(host)
    /\ wire' = Append(wire, Message("event"))
    /\ log' = [log EXCEPT !.foreign = @ + 1]
    /\ UNCHANGED <<page, flight, sent>>

\* acknowledgeNavigationPresentation
Acknowledges(r) ==
    /\ r.epoch = host.epoch
    /\ \/ r.nav \in host.acked /\ ~Contains(Pending(host), r.nav)
       \/ \E i \in DOMAIN host.pending : host.pending[i] = Item(r.nav, TRUE)
Acknowledged(r) ==
    IF ~Acknowledges(r) THEN host
    ELSE [host EXCEPT !.acked = @ \cup {r.nav},
                      !.pending = Kept(@, {i \in DOMAIN @ : @[i].nav # r.nav})]

\* The baseline goes to the page that asked; a page that is gone gets none.
Attach ==
    /\ sent # <<>> /\ Head(sent).nav = None
    /\ sent' = Tail(sent)
    /\ LET ready == Kept(host.pending, {i \in DOMAIN host.pending : host.pending[i].ready})
           m == [Message("attach") EXCEPT !.pending = [i \in DOMAIN ready |-> ready[i].nav]]
       IN  wire' = IF Head(sent).life = page.life THEN Append(wire, m) ELSE wire
    /\ UNCHANGED <<host, page, flight, log>>

Crash ==
    /\ log.crashes < log.may.crashes
    /\ host' = FreshHost(host.epoch + 1)
    /\ wire' = Append(wire, [Message("lost") EXCEPT !.epoch = host.epoch + 1])
    /\ log' = [log EXCEPT !.crashes = @ + 1]
    /\ UNCHANGED <<page, flight, sent>>

(***************************************************************************)
(* The page.  Everything between two awaits is one step.                   *)
(***************************************************************************)
World == [page |-> page, flight |-> flight, sent |-> sent, log |-> log]
Becomes(w) == page' = w.page /\ flight' = w.flight /\ sent' = w.sent /\ log' = w.log

Without(list, nav) == Kept(list, {i \in DOMAIN list : list[i] # nav})
Following(w) == w.page.epoch # None
Reconciling(w) == [w EXCEPT !.page.tasks = IF @ < 2 THEN @ + 1 ELSE @]
Over(w) == [w EXCEPT !.flight = NoFlight]
Cleared(w, navs) ==
    [w EXCEPT !.page.timers = @ \ navs, !.page.tries = [n \in Navs |-> IF n \in navs THEN 0 ELSE @[n]]]
RetriedOnceLess(w, nav) ==   \* bug: the last delay is never used
    IF nav \in w.page.timers \/ w.page.tries[nav] + 1 >= Retries THEN w
    ELSE [w EXCEPT !.page.timers = @ \cup {nav}, !.page.tries[nav] = @ + 1]
Retried(w, nav) ==
    IF nav \in w.page.timers \/ w.page.tries[nav] >= Retries THEN w
    ELSE [w EXCEPT !.page.timers = @ \cup {nav}, !.page.tries[nav] = @ + 1]
Retired(w, nav) == [w EXCEPT !.page.pending = Without(@, nav)]

Acking(w, nav, pc) ==
    [w EXCEPT !.flight.pc = pc, !.flight.nav = nav,
              !.sent = Append(@, Request(nav, w.flight.epoch, w.page.life))]

\* The newest branch is converted, unless this page has shown it before.
NewestAnew(w) ==   \* bug: a branch that was shown before is converted again
    LET nav == Last(w.page.pending)
    IN  IF ~Following(w) \/ w.page.pending = <<>> THEN Over(w)
        ELSE [w EXCEPT !.page.timers = @ \ {nav}, !.flight.pc = "converting", !.flight.nav = nav,
                       !.flight.epoch = w.page.epoch]
Newest(w) ==
    LET nav == Last(w.page.pending)
        at == [w EXCEPT !.page.timers = @ \ {nav}, !.flight.epoch = w.page.epoch]
    IN  IF ~Following(w) \/ w.page.pending = <<>> THEN Over(w)
        ELSE IF nav \in w.page.done THEN Acking(at, nav, "acking")
        ELSE [at EXCEPT !.flight.pc = "converting", !.flight.nav = nav]

\* Older branches are given back first, one after the other.
Proceeded(w) ==
    IF w.flight.olds = <<>> THEN Newest(w)
    ELSE Acking([w EXCEPT !.page.timers = @ \ {Head(w.flight.olds)}], Head(w.flight.olds), "ackingOld")

Begin ==
    /\ flight.pc = "idle" /\ page.tasks > 0
    /\ LET w == [World EXCEPT !.page.tasks = @ - 1]
       IN  Becomes(IF ~Following(w) THEN w
                   ELSE IF page.pending = <<>> THEN Cleared(w, Navs)
                   ELSE Proceeded([w EXCEPT !.flight.olds = Front(page.pending),
                                            !.flight.epoch = page.epoch]))
    /\ UNCHANGED <<host, wire>>

\* replaceTranscriptForNavigationPresentation
Installable(w) ==
    /\ Following(w) /\ w.page.epoch = w.flight.epoch
    /\ w.page.pending # <<>> /\ Last(w.page.pending) = w.flight.nav
    /\ w.flight.nav \in w.page.outcomes
Installed(w) ==
    LET nav == w.flight.nav
    IN  [w EXCEPT !.page.shown = Shown(nav, 0), !.page.dirty = FALSE, !.page.done = @ \cup {nav},
                  !.log.installed = @ \cup {nav}]
AckFirst ==   \* bug: the acknowledgement does not wait for the installation
    /\ flight.pc = "converting"
    /\ Becomes(IF Installable(World) /\ log.faults = 0 THEN Acking(Installed(World), flight.nav, "acking")
               ELSE Acking(World, flight.nav, "acking"))
    /\ UNCHANGED <<host, wire>>
Convert ==
    /\ flight.pc = "converting"
    /\ Becomes(IF Installable(World) THEN Acking(Installed(World), flight.nav, "acking")
               ELSE IF page.pending # <<>> /\ Last(page.pending) # flight.nav
               THEN Over(Reconciling(World)) ELSE Over(World))
    /\ UNCHANGED <<host, wire>>
ConvertFails ==
    /\ flight.pc = "converting" /\ log.faults < log.may.faults
    /\ Becomes(Over(Retried([World EXCEPT !.log.faults = @ + 1], flight.nav)))
    /\ UNCHANGED <<host, wire>>

Answered(w, r, ok) ==
    IF w.flight.pc \in {"acking", "ackingOld"} /\ w.flight.nav = r.nav /\ w.page.life = r.life
    THEN [w EXCEPT !.flight.ok = ok, !.flight.pc = IF @ = "acking" THEN "acked" ELSE "ackedOld"]
    ELSE w
\* The host answers; the answer may be lost, the request may fail at once, or
\* time out and reach the host nevertheless.
AckArrives == LET r == Head(sent) IN
    /\ sent # <<>> /\ r.nav # None
    /\ host' = Acknowledged(r)
    /\ Becomes(Answered([World EXCEPT !.sent = Tail(@)], r, Acknowledges(r)))
    /\ UNCHANGED wire
AckFails == \E gone \in BOOLEAN : LET r == Last(sent) IN
    /\ log.faults < log.may.faults /\ sent # <<>> /\ r.nav # None
    /\ flight.pc \in {"acking", "ackingOld"} /\ flight.nav = r.nav /\ page.life = r.life
    /\ Becomes(Answered([World EXCEPT !.sent = IF gone THEN Front(@) ELSE @, !.log.faults = @ + 1],
                        r, FALSE))
    /\ UNCHANGED <<host, wire>>

Continue ==
    LET w == Retired(World, flight.nav) IN
    /\ flight.pc \in {"acked", "ackedOld"}
    /\ Becomes(IF ~flight.ok THEN Over(Retried(World, flight.nav))
               ELSE IF flight.pc = "ackedOld"
               THEN Proceeded(Cleared([w EXCEPT !.flight.olds = Tail(@)], {flight.nav}))
               ELSE IF w.page.pending = <<>> THEN Over(Cleared(w, {flight.nav}))
               ELSE Over(Reconciling(w)))
    /\ UNCHANGED <<host, wire>>

Timer(nav) ==
    /\ nav \in page.timers
    /\ Becomes(Reconciling([World EXCEPT !.page.timers = @ \ {nav}]))
    /\ UNCHANGED <<host, wire>>

Asking(w) == [w EXCEPT !.page.epoch = None, !.sent = Append(@, Attaching(w.page.life))]
\* authority-reducer.ts and what the store does after it.
Received(w, m) ==
    IF m.kind = "lost" THEN Asking(w)
    ELSE IF m.kind = "attach"
    THEN Reconciling([w EXCEPT !.page = [@ EXCEPT !.epoch = m.epoch, !.pending = m.pending,
                                                  !.outcomes = m.outcomes]])
    ELSE IF w.page.epoch # m.epoch THEN [w EXCEPT !.page.dirty = @ \/ m.kind = "event"]
    ELSE IF m.kind = "event" THEN [w EXCEPT !.page.shown.events = @ + 1]
    ELSE Reconciling([w EXCEPT !.page.outcomes = m.outcomes,
                               !.page.pending = IF m.kind = "outcome"
                                                THEN Append(Without(@, m.nav), m.nav) ELSE @])
Receive ==
    /\ wire # <<>> /\ wire' = Tail(wire)
    /\ Becomes(Received(World, Head(wire)))
    /\ host' = host
Fence ==
    /\ page.epoch # None /\ log.fences < log.may.fences
    /\ Becomes(Asking([World EXCEPT !.log.fences = @ + 1]))
    /\ UNCHANGED <<host, wire>>
\* A new page knows nothing; it reads the transcript elsewhere.
Reload ==
    /\ page.life < log.may.reloads
    /\ page' = FreshPage(page.life + 1) /\ flight' = NoFlight /\ wire' = <<>>
    /\ sent' = Append(sent, Attaching(page.life + 1))
    /\ UNCHANGED <<host, log>>

HostStep ==
    \/ Dispatch \/ Execute \/ NavigationEnds \/ Settle \/ Submit \/ Drain \/ Foreign \/ Attach \/ Crash
    \/ \E nav \in Navs : Prune(nav)
PageStep ==
    \/ Begin \/ Convert \/ ConvertFails \/ Continue \/ Receive \/ Fence \/ Reload
    \/ \E nav \in Navs : Timer(nav)
Next == HostStep \/ PageStep \/ AckArrives \/ AckFails

Spec == Init /\ [][Next]_vars
FairSpec ==
    /\ Spec
    /\ WF_vars(Execute) /\ WF_vars(NavigationEnds) /\ WF_vars(Settle) /\ WF_vars(Drain)
    /\ WF_vars(Attach) /\ WF_vars(Begin) /\ WF_vars(Convert) /\ WF_vars(Continue) /\ WF_vars(Receive)
    /\ \A nav \in Navs : WF_vars(Timer(nav))
    /\ WF_vars(AckArrives)

(***************************************************************************)
(* Properties.                                                             *)
(***************************************************************************)
TypeOK ==
    /\ host.running \in Navs \cup {None} /\ host.held \in 0..MaxPrompts
    /\ page.pending \in BoundedSeq(Navs, MaxNavs) /\ page.timers \subseteq Navs
    /\ \A n \in Navs : page.tries[n] \in 0..Retries /\ (n \in page.timers => page.tries[n] > 0)
    /\ flight.pc \in {"idle", "converting", "acking", "ackingOld", "acked", "ackedOld"}

\* Nothing runs past a branch that no page has shown: as long as the host is
\* on the branch of a navigation, prompts add to it only once it was installed.
NotPastTheBranch ==
    host.truth.nav # None /\ host.truth.events > log.foreign => host.truth.nav \in log.installed

\* One navigation at a time, and none while the previous one is in escrow.
NavigationIsAlone == host.running # None => host.pending = <<>>

\* A page never returns to a branch that it left, and never shows less of the
\* branch that it is on: no late conversion and no stale baseline overwrites
\* what followed.
NeverBack ==
    [][page'.life = page.life =>
         \/ page'.shown.nav > page.shown.nav
         \/ page'.shown.nav = page.shown.nav /\ page'.shown.events >= page.shown.events]_vars

Quiet ==
    /\ wire = <<>> /\ flight = NoFlight /\ page.tasks = 0 /\ page.timers = {} /\ sent = <<>>
    /\ page.epoch = host.epoch /\ host.toSettle = <<>> /\ host.running = None

\* When all is quiet, a page that is not dirty shows the host's branch and
\* everything on it, if only the user and the host act.  (An entry that an
\* extension adds by itself behind the captured branch may stay hidden.)
TruthShown ==
    log.foreign = 0 /\ Quiet /\ ~page.dirty /\ host.truth.nav # None /\ host.pending = <<>>
        => page.shown = host.truth

\* An escrow that is ready is acknowledged, and the prompts behind it run, as
\* long as no more attempts fail than there are retries.
EscrowEnds == log.may.fair /\ host.pending # <<>> ~> host.pending = <<>>
CustodyResumes == log.may.fair /\ host.held > 0 ~> host.held = 0

\* The branch of a navigation is shown whole, once, and before anything follows it.
BranchShown ==
    [](TypeOK /\ NotPastTheBranch /\ NavigationIsAlone /\ TruthShown) /\ NeverBack

\* What waits for the page does not wait for ever.
BranchHeals == EscrowEnds /\ CustodyResumes
=============================================================================
