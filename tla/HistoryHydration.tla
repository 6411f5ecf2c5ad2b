--------------------------- MODULE HistoryHydration ---------------------------
(***************************************************************************)
(* How a page gets the history of a session: it asks main to read the      *)
(* session file (sessions-store.ts, rehydrateHistory and                   *)
(* adoptSessionFileAndHydrate), main binds the read to one owner before    *)
(* and after it (bound-history.ts), and the page installs the answer only  *)
(* if nothing moved meanwhile.  The host goes on appending, navigating,    *)
(* switching files and dying, and its events travel to the page.           *)
(*                                                                         *)
(* An entry is a number; a transcript, a branch and what a file says are   *)
(* sequences of them.  The publications, the notices and main's answers    *)
(* reach the page in the order main sends them.                            *)
(***************************************************************************)
EXTENDS Naturals, Sequences, FiniteSets, SequencesExt

CONSTANTS
    MaxFiles,    \* bound: session files
    MaxFlows,    \* bound: hydrations of the page
    Plans        \* what may happen in a behaviour: plans, see below

None == 0
Flows == 1..MaxFlows
Files == 1..MaxFiles

(***************************************************************************)
(* A behaviour follows one plan, kept in log.may: how many entries, turns, *)
(* runtimes (epochs), session files and hydrations (flows) it may have,    *)
(* events that the page cannot parse (drops), losses of the page's         *)
(* authority (fences), navigations in the tree, waits that end after two   *)
(* minutes (timeouts) and requests that fail (errors), and whether its     *)
(* steps are fair.                                                         *)
(***************************************************************************)
VARIABLES
    host,   \* the runtime and the session files
    wire,   \* what main has sent to the page
    page,   \* the session in the store
    flows,  \* hydrations, by their token, with main's reads
    log     \* counters of the bounds, and whether a limit was met or a hydration gave up

vars == <<host, wire, page, flows, log>>

NoCapture == [file |-> None, gen |-> 0, epoch |-> None]
NoFlow == [pc |-> "none", kind |-> "rehydrate", cap |-> NoCapture, bound |-> None, at |-> <<>>,
           rev |-> 0, navs |-> 0, retry |-> FALSE, owner |-> NoCapture, text |-> <<>>,
           stale |-> FALSE]

FreshPage ==
    [file |-> 1, status |-> "cold", epoch |-> None, busy |-> FALSE, shown |-> <<>>,
     rev |-> 0, dirty |-> FALSE, gen |-> 0, owner |-> None, token |-> None, scheduled |-> FALSE,
     adopt |-> NoCapture, navs |-> 0, asking |-> FALSE]
NoLog(may) == [may |-> may, turns |-> 0, drops |-> 0, fences |-> 0, navs |-> 0, timeouts |-> 0, errors |-> 0,
          tokens |-> 0, limited |-> FALSE, gaveUp |-> FALSE]

(***************************************************************************)
(* The host, and main which passes its word on.                            *)
(***************************************************************************)
Message(kind) == [kind |-> kind, epoch |-> host.epoch, busy |-> FALSE, entry |-> None,
                  bad |-> FALSE, file |-> None, branch |-> <<>>, flow |-> None]
Said(w, message) == Append(w, message)

Start ==
    /\ host.phase # "up" /\ host.epoch < log.may.epochs
    /\ host' = [host EXCEPT !.phase = "up", !.epoch = @ + 1, !.branch = host.disk[host.file]]
    /\ wire' = IF host.phase = "starting" THEN wire ELSE Said(wire, Message("starting"))
    /\ UNCHANGED <<page, flows, log>>

\* The host dies; main starts another at once, or has given up.  A leaf that
\* no entry followed is lost with it.
Stop == \E how \in {"failed", "starting"} :
    /\ host.phase = "up" /\ host.epoch < log.may.epochs
    /\ host' = [host EXCEPT !.phase = how, !.busy = FALSE]
    /\ wire' = Said(wire, Message(how))
    /\ log' = [log EXCEPT !.limited = @ \/ host.branch # host.disk[host.file]]
    /\ UNCHANGED <<page, flows>>

TurnStarts ==
    /\ host.phase = "up" /\ ~host.busy /\ log.turns < log.may.turns
    /\ log' = [log EXCEPT !.turns = @ + 1]
    /\ host' = [host EXCEPT !.busy = TRUE]
    /\ wire' = Said(wire, [Message("semantic") EXCEPT !.busy = TRUE])
    /\ UNCHANGED <<page, flows>>

\* A message is published and then written to the session file.
Entry == \E bad \in BOOLEAN :
    LET e == host.entries + 1 IN
    /\ host.phase = "up" /\ host.busy /\ host.entries < log.may.entries
    /\ bad => log.drops < log.may.drops
    /\ host' = [host EXCEPT !.entries = e, !.branch = Append(@, e),
                            !.disk[host.file] = Append(host.branch, e)]
    /\ wire' = Said(wire, [Message("event") EXCEPT !.entry = e, !.bad = bad])
    /\ log' = [log EXCEPT !.drops = IF bad THEN @ + 1 ELSE @]
    /\ UNCHANGED <<page, flows>>

TurnEnds ==
    /\ host.phase = "up" /\ host.busy
    /\ host' = [host EXCEPT !.busy = FALSE]
    /\ wire' = Said(wire, Message("semantic"))
    /\ UNCHANGED <<page, flows, log>>

\* A navigation moves the leaf; the file says so with the next entry only.
Navigate == \E n \in 0..Len(host.branch) :
    /\ host.phase = "up" /\ ~host.busy /\ log.navs < log.may.navs /\ n < Len(host.branch)
    /\ host' = [host EXCEPT !.branch = SubSeq(@, 1, n)]
    /\ wire' = Said(wire, [Message("nav") EXCEPT !.branch = SubSeq(host.branch, 1, n)])
    /\ log' = [log EXCEPT !.navs = @ + 1]
    /\ UNCHANGED <<page, flows>>

\* A new or forked session: another file and another epoch, then the notice.
SwitchFile == \E keep \in BOOLEAN :
    LET f == host.files + 1
        kept == IF keep THEN host.branch ELSE <<>>
        next == [host EXCEPT !.epoch = @ + 1, !.file = f, !.files = f, !.branch = kept,
                             !.disk[f] = kept]
    IN  /\ host.phase = "up" /\ ~host.busy /\ host.files < log.may.files /\ host.epoch < log.may.epochs
        /\ host' = next
        /\ wire' = wire \o << [Message("semantic") EXCEPT !.epoch = next.epoch],
                              [Message("file") EXCEPT !.epoch = next.epoch, !.file = f] >>
        /\ UNCHANGED <<page, flows, log>>

\* Main answers the page's attach: the present snapshot, and live from there.
Attach ==
    /\ page.asking /\ host.phase = "up"
    /\ page' = [page EXCEPT !.asking = FALSE]
    /\ wire' = Said(wire, [Message("attach") EXCEPT !.busy = host.busy])
    /\ UNCHANGED <<host, flows, log>>

(***************************************************************************)
(* Main reads the file for one owner.                                      *)
(***************************************************************************)
Owner == [file |-> host.file, gen |-> 0, epoch |-> IF host.phase = "up" THEN host.epoch ELSE None]
Requested(t) ==
    /\ flows[t].cap.file = host.file
    /\ IF flows[t].cap.epoch = None THEN host.phase = "cold"
       ELSE host.phase = "up" /\ flows[t].cap.epoch = host.epoch
StillCurrent(t) ==
    /\ flows[t].owner = Owner
    /\ flows[t].owner.epoch = None => host.phase = "cold"

Reply(t, ok) ==
    Said(wire, [Message(IF ok THEN "loaded" ELSE "stale") EXCEPT !.flow = t])
Admit(t) ==
    /\ flows[t].pc = "asked"
    /\ IF Requested(t)
       THEN /\ flows' = [flows EXCEPT ![t].pc = "reading", ![t].owner = Owner]
            /\ wire' = wire
       ELSE flows' = [flows EXCEPT ![t].pc = "told"] /\ wire' = Reply(t, FALSE)
    /\ UNCHANGED <<host, page, log>>
ReadFile(t) ==
    /\ flows[t].pc = "reading"
    /\ flows' = [flows EXCEPT ![t].pc = "read", ![t].text = host.disk[flows[t].owner.file],
                              ![t].stale = host.disk[host.file] # host.branch]
    /\ UNCHANGED <<host, wire, page, log>>
Answer(t) ==
    /\ flows[t].pc = "read"
    /\ flows' = [flows EXCEPT ![t].pc = "told"]
    /\ wire' = Reply(t, StillCurrent(t))
    /\ UNCHANGED <<host, page, log>>
ReadFails(t) ==
    /\ flows[t].pc = "reading" /\ log.errors < log.may.errors
    /\ flows' = [flows EXCEPT ![t].pc = "told"]
    /\ wire' = Said(wire, [Message("error") EXCEPT !.flow = t])
    /\ log' = [log EXCEPT !.errors = @ + 1]
    /\ UNCHANGED <<host, page>>

(***************************************************************************)
(* A hydration in the page.  Everything between two awaits is one step.    *)
(***************************************************************************)
Ready(p) == p.status = "ready" /\ p.epoch # None
Captured(p) == [file |-> p.file, gen |-> p.gen, epoch |-> IF Ready(p) THEN p.epoch ELSE None]
Matches(p, cap) ==
    /\ p.file = cap.file /\ p.gen = cap.gen
    /\ cap.epoch # None => Ready(p) /\ p.epoch = cap.epoch
MovedByFile(p, cap) == p.file # cap.file   \* bug: only another file counts as another owner
Moved(p, cap) ==
    /\ Captured(p) # cap
    /\ Captured(p).epoch # None \/ p.status = "cold"
Given(p) == p.status = "failed"
Occupied(p) == p.epoch # None /\ p.busy

World == [page |-> page, flow |-> flows, log |-> log]
Becomes(w) == page' = w.page /\ flows' = w.flow /\ log' = w.log

\* schedulePresentationRehydrateIfIdle
Rescheduled(w) ==
    IF w.page.dirty /\ w.page.token = None /\ ~Occupied(w.page)
    THEN [w EXCEPT !.page.scheduled = TRUE] ELSE w

\* The finally of both functions.
EndedMarked(w, t) ==   \* bug: no finally, the mark outlives its hydration
    [w EXCEPT !.flow[t] = [NoFlow EXCEPT !.pc = "done"]]
Ended(w, t) ==
    LET free == [w EXCEPT !.flow[t] = [NoFlow EXCEPT !.pc = "done"],
                          !.page.token = IF @ = t THEN None ELSE @]
    IN  IF w.flow[t].kind = "adopt" \/ w.flow[t].retry THEN Rescheduled(free) ELSE free

\* A hydration ends without having read: failed, timed out, or adopted in vain.
GivenUp(w, t) == Ended([w EXCEPT !.log.gaveUp = @ \/ w.page.token = t], t)

Waits(w, t, pc) == [w EXCEPT !.flow[t].pc = pc]
\* The top of the loop.
Looped(w, t) ==
    LET p == w.page
        f == w.flow[t]
        cap == IF f.kind = "adopt" THEN [Captured(p) EXCEPT !.epoch = f.bound] ELSE f.cap
    IN  IF p.token # t THEN Ended(w, t)
        ELSE IF f.kind = "rehydrate" /\ ~Matches(p, cap) THEN Waits(w, t, "owner")
        ELSE IF Occupied(p) THEN [Waits(w, t, "idle") EXCEPT !.flow[t].cap = cap]
        ELSE [w EXCEPT !.flow[t].pc = "asked", !.flow[t].cap = cap, !.flow[t].at = p.shown,
                       !.flow[t].rev = p.rev, !.flow[t].navs = p.navs]

\* rehydrateHistory; adoptSessionFileAndHydrate once its runtime is followed.
Begun(w, kind, bound) ==
    LET t == w.log.tokens + 1
        new == [NoFlow EXCEPT !.kind = kind, !.bound = bound, !.cap = Captured(w.page)]
    IN  Looped([w EXCEPT !.flow[t] = new, !.page.token = t, !.log.tokens = t], t)
Rehydrate ==
    /\ page.scheduled /\ log.tokens < log.may.flows
    /\ LET w == [World EXCEPT !.page.scheduled = FALSE]
       IN  Becomes(IF page.dirty /\ page.token = None THEN Begun(w, "rehydrate", None) ELSE w)
    /\ UNCHANGED <<host, wire>>
Adopt ==
    /\ page.adopt # NoCapture /\ Ready(page) /\ page.epoch = page.adopt.epoch
    /\ log.tokens < log.may.flows
    /\ Becomes(Begun([World EXCEPT !.page = [@ EXCEPT !.file = page.adopt.file, !.shown = <<>>,
                          !.gen = @ + 1, !.token = None, !.adopt = NoCapture]],
                     "adopt", page.adopt.epoch))
    /\ UNCHANGED <<host, wire>>

\* seedHistory
SeededKeepingGeneration(w, t) ==   \* bug: other reads of the same file may still be installed
    [w EXCEPT !.page = [@ EXCEPT !.shown = w.flow[t].text, !.dirty = FALSE, !.token = None],
              !.log.limited = @ \/ (w.flow[t].stale /\ w.flow[t].navs = w.page.navs)]
Seeded(w, t) ==
    [w EXCEPT !.page = [@ EXCEPT !.shown = w.flow[t].text, !.dirty = FALSE, !.token = None,
                                 !.gen = @ + 1],
              !.log.limited = @ \/ (w.flow[t].stale /\ w.flow[t].navs = w.page.navs)]

\* What the page makes of an answer.
EventsIgnored(p, f) == TRUE   \* bug: events that crossed the read are overwritten
Undisturbed(p, f) == p.shown = f.at /\ p.rev = f.rev
Loaded(w, t) ==
    LET f == w.flow[t]
        p == w.page
        again == [w EXCEPT !.flow[t].retry = TRUE]
    IN  IF ~Matches(p, f.cap)
        THEN IF f.kind = "adopt" THEN GivenUp(w, t) ELSE Waits(w, t, "owner")
        ELSE IF p.token # t THEN Ended(w, t)
        ELSE IF ~Undisturbed(p, f) \/ (f.kind = "adopt" /\ Occupied(p))
        THEN Waits(again, t, "idle")
        ELSE Ended(Seeded(w, t), t)
Stale(w, t) ==
    IF w.flow[t].kind = "adopt" THEN GivenUp(w, t) ELSE Waits(w, t, "owner")

\* The two waits look at every change of the store.
WakeIdle(t) ==
    /\ flows[t].pc = "idle"
    /\ ~Matches(page, flows[t].cap) \/ ~Occupied(page)
    /\ Becomes(IF Matches(page, flows[t].cap) THEN Looped(World, t)
               ELSE Stale(World, t))
    /\ UNCHANGED <<host, wire>>
WakeOwner(t) ==
    /\ flows[t].pc = "owner"
    /\ Given(page) \/ Moved(page, flows[t].cap)
    /\ Becomes(IF Given(page) THEN GivenUp(World, t)
               ELSE Looped([World EXCEPT !.flow[t].cap = Captured(page)], t))
    /\ UNCHANGED <<host, wire>>
TimesOut(t) ==
    /\ flows[t].pc \in {"idle", "owner"} /\ log.timeouts < log.may.timeouts
    /\ LET w == [World EXCEPT !.log.timeouts = @ + 1]
       IN  Becomes(IF flows[t].pc = "idle" THEN Stale(w, t) ELSE GivenUp(w, t))
    /\ UNCHANGED <<host, wire>>

\* A saved session is opened: it is cold, and its first hydration begins.
Init ==
    /\ host = [phase |-> "cold", epoch |-> None, file |-> 1, busy |-> FALSE, branch |-> <<1>>,
               disk |-> [f \in Files |-> IF f = 1 THEN <<1>> ELSE <<>>], entries |-> 1, files |-> 1]
    /\ wire = <<>>
    /\ \E may \in Plans : LET opened == Begun([page |-> FreshPage, flow |-> [t \in Flows |-> NoFlow], log |-> NoLog(may)],
                           "rehydrate", None)
       IN  page = opened.page /\ flows = opened.flow /\ log = opened.log

(***************************************************************************)
(* The page receives.                                                      *)
(***************************************************************************)
Dirtied(w) == [w EXCEPT !.page.dirty = TRUE, !.page.rev = @ + 1]
Following(w, message) == w.page.epoch = message.epoch

\* replaceTranscriptForNavigationPresentation
Navigated(w, branch) ==
    [w EXCEPT !.page = [@ EXCEPT !.shown = branch, !.dirty = FALSE, !.navs = @ + 1,
                                 !.token = None, !.gen = @ + 1, !.rev = @ + 1]]

Received(w, m) ==
    CASE m.kind = "starting" -> [w EXCEPT !.page.status = "starting", !.page.epoch = None,
                                          !.page.asking = TRUE]
      [] m.kind = "failed" -> [w EXCEPT !.page.status = "failed", !.page.epoch = None]
      [] m.kind = "attach" ->
            Rescheduled([w EXCEPT !.page.status = "ready", !.page.epoch = m.epoch,
                                  !.page.busy = m.busy, !.page.owner = m.epoch,
                                  !.page.gen = IF w.page.owner = m.epoch THEN @ ELSE @ + 1,
                                  !.page.adopt = IF @.epoch < m.epoch THEN NoCapture ELSE @])
      [] m.kind = "semantic" ->
            IF Following(w, m) THEN Rescheduled([w EXCEPT !.page.busy = m.busy])
            ELSE [w EXCEPT !.page.epoch = None, !.page.asking = TRUE]
      [] m.kind = "event" ->
            Rescheduled(IF ~Following(w, m) \/ m.bad THEN Dirtied(w)
                        ELSE [w EXCEPT !.page.shown = Append(@, m.entry)])
      [] m.kind = "nav" ->
            IF Following(w, m) THEN Navigated(w, m.branch) ELSE Dirtied(w)
      [] m.kind = "file" ->
            [w EXCEPT !.page.adopt = [NoCapture EXCEPT !.file = m.file, !.epoch = m.epoch],
                      !.page.asking = @ \/ w.page.epoch # m.epoch]
      [] m.kind = "loaded" -> Loaded(w, m.flow)
      [] m.kind = "stale" -> Stale(w, m.flow)
      [] m.kind = "error" -> GivenUp(w, m.flow)
Receive ==
    /\ wire # <<>> /\ wire' = Tail(wire)
    /\ Becomes(Received(World, Head(wire)))
    /\ host' = host

\* The page loses its authority; an attach is asked for.
Fence ==
    /\ page.epoch # None /\ log.fences < log.may.fences
    /\ Becomes([World EXCEPT !.page.epoch = None, !.page.asking = TRUE, !.log.fences = @ + 1])
    /\ UNCHANGED <<host, wire>>

MainStep == Attach \/ \E t \in Flows : Admit(t) \/ ReadFile(t) \/ Answer(t) \/ ReadFails(t)
PageStep ==
    \/ Receive \/ Rehydrate \/ Adopt \/ Fence
    \/ \E t \in Flows : WakeIdle(t) \/ WakeOwner(t) \/ TimesOut(t)
HostStep == Start \/ Stop \/ TurnStarts \/ Entry \/ TurnEnds \/ Navigate \/ SwitchFile
Next == HostStep \/ MainStep \/ PageStep

Spec == Init /\ [][Next]_vars

\* Main and the page get on with their work, turns end, a session that fails is started again.
Handled == Attach \/ Receive \/ Rehydrate \/ Adopt
Advanced(t) == Admit(t) \/ ReadFile(t) \/ Answer(t) \/ WakeIdle(t) \/ WakeOwner(t)
FairSpec ==
    /\ Spec
    /\ WF_vars(Handled) /\ WF_vars(TurnEnds) /\ WF_vars(Start)
    /\ \A t \in Flows : WF_vars(Advanced(t))

(***************************************************************************)
(* Properties.                                                             *)
(***************************************************************************)
Hydrating(t) == flows[t].pc \notin {"none", "done"}
TypeOK ==
    /\ host.phase \in {"cold", "up", "failed", "starting"}
    /\ page.status \in {"cold", "starting", "ready", "failed"}
    /\ page.token \in Flows \cup {None}
    /\ page.token # None => Hydrating(page.token)
    /\ \A t \in Flows : flows[t].pc \in
            {"none", "asked", "reading", "read", "told", "idle", "owner", "done"}

\* Nothing is under way that could change what the page shows.
Quiet ==
    /\ wire = <<>> /\ ~page.scheduled /\ page.adopt = NoCapture
    /\ Ready(page) /\ page.epoch = host.epoch /\ host.phase = "up" /\ ~host.busy
    /\ log.tokens > 0 /\ \A t \in Flows : ~Hydrating(t)

\* When all is quiet and the page does not know better, its transcript is the
\* host's branch: no read overwrote an event, showed one twice, or brought back
\* a file or a leaf that was left.  (A read made after a navigation that no
\* entry followed finds the old leaf; the loader says so.)
TranscriptExact ==
    Quiet /\ page.file = host.file /\ ~page.dirty /\ ~log.limited /\ ~log.gaveUp
        => page.shown = host.branch

\* What a read brings is installed only by the hydration that owns the page's
\* mark, and it ends that hydration: no two reads are ever installed for one
\* generation of the history.
InstalledOnce ==
    [][page'.shown # page.shown /\ page'.gen = page.gen
         => page'.shown = <<>> \/ IsPrefix(page.shown, page'.shown)]_vars

\* Hydration ends, and a transcript that the page knows to be incomplete is
\* read again once the session rests.
HydrationEnds == \A t \in Flows : log.may.fair /\ Hydrating(t) ~> ~Hydrating(t)
DirtyHeals == log.may.fair /\ page.dirty ~> (~page.dirty \/ log.tokens = log.may.flows)

\* The transcript of a session at rest is the host's branch, read once.
HistoryExact == [](TypeOK /\ TranscriptExact) /\ InstalledOnce

\* No hydration and no known gap lasts for ever.
HistoryHeals == HydrationEnds /\ DirtyHeals
=============================================================================
