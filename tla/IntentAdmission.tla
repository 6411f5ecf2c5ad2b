--------------------------- MODULE IntentAdmission ---------------------------
(***************************************************************************)
(* How the authority of the session host admits intents and hands prompts  *)
(* to Pi (resources/pi-session-host/state-authority.mjs): dispatch and the *)
(* one scheduler, prompt admission and its deadline, custody behind        *)
(* compaction, navigation, Escape and an unsettled prompt, the drain of    *)
(* custody, the presentation a navigation leaves behind, Escape, and the   *)
(* transition of a reload.                                                 *)
(*                                                                         *)
(* The host is one JavaScript process that also runs Pi.  Promise          *)
(* continuations run before the next message or timer: an action that      *)
(* stands for a message or a timer waits until no continuation of the      *)
(* authority is pending (Quiet).  Pi's own steps are continuations too and *)
(* may fall between any two of the authority's.  Which queue slot belongs  *)
(* to whom is the subject of QueueOwnership; here an entry of Pi's queue   *)
(* is the prompt that put it there.                                        *)
(***************************************************************************)
EXTENDS Naturals, Sequences, FiniteSets, SequencesExt

CONSTANTS
    None,
    Prompts, Compactions, Navigations, Reloads,  \* intents, by kind
    Plans,          \* what may be asked and go wrong: plans, see below
    MaxDrains       \* bound: drains that wait for the scheduler at once

Intents == Prompts \cup Compactions \cup Navigations \cup Reloads

ASSUME AdmissionAssumption ==
    /\ None \notin Intents
    /\ Prompts \cap (Compactions \cup Navigations \cup Reloads) = {}
    /\ Compactions \cap (Navigations \cup Reloads) = {} /\ Navigations \cap Reloads = {}
    /\ \A p \in Plans : /\ p.asked \subseteq Intents /\ {p.auto, p.escapes} \subseteq Nat
                          /\ {p.rejects, p.compactFails, p.cleanupFails, p.fair} \subseteq BOOLEAN
    /\ MaxDrains \in Nat \ {0}

(***************************************************************************)
(* A behaviour follows one plan: the intents that are asked, whether Pi    *)
(* may reject a prompt or fail one it accepted (rejects), whether a        *)
(* compaction may fail without being aborted, whether Pi's queue may       *)
(* refuse to be cleared (cleanupFails), the bounds on the compactions Pi   *)
(* starts on its own (auto) and on Escapes, and whether its steps are fair.*)
(***************************************************************************)
VARIABLES
    plan,    \* one of Plans
    sched,   \* ingress, drains that wait, the job that runs and the prompt it waits for
    auth,    \* custody, activeIntents, promptFence and who waits for it, transition, fences
    adm,     \* pendingAdmissions
    comp,    \* compaction
    nav,     \* the navigation that runs; presentations that are not acknowledged
    pi,      \* Pi: its turn, its queue, the promise of each prompt
    log      \* history: receipts and outcomes, prompts in the order Pi got them

vars == <<plan, sched, auth, adm, comp, nav, pi, log>>

Init ==
    /\ plan \in Plans
    /\ sched = [ingress |-> <<>>, drains |-> 0, job |-> "none", waits |-> None]
    /\ auth = [custody |-> {}, sequence |-> 0, active |-> [i \in Intents |-> "none"],
               fence |-> None, wakers |-> 0, transition |-> "none", stale |-> {}, fatal |-> FALSE,
               barrier |-> 0, escapes |-> 0]
    /\ adm = [p \in Prompts |-> [open |-> FALSE, cancelled |-> FALSE, crossed |-> FALSE,
                                 late |-> FALSE, seen |-> FALSE]]
    /\ comp = [open |-> FALSE, cmd |-> None, seen |-> FALSE, failed |-> FALSE,
               aborted |-> FALSE, auto |-> 0]
    /\ nav = [now |-> None, barrier |-> 0, shown |-> {}]
    /\ pi = [streaming |-> FALSE, queue |-> <<>>, stage |-> [p \in Prompts |-> "none"]]
    /\ log = [receipt |-> [i \in Intents |-> "none"], outcome |-> [i \in Intents |-> "none"],
              kept |-> <<>>, sent |-> <<>>, idle |-> {}, crossed |-> {}, ran |-> {},
              unsent |-> {}, taken |-> {}]

(***************************************************************************)
(* The whole state as one value w; the helpers are the functions the       *)
(* handlers call, each the value after it.                                 *)
(***************************************************************************)
World == [sched |-> sched, auth |-> auth, adm |-> adm, comp |-> comp, nav |-> nav,
          pi |-> pi, log |-> log]

Becomes(w) ==
    /\ sched' = w.sched /\ auth' = w.auth /\ adm' = w.adm /\ comp' = w.comp
    /\ nav' = w.nav /\ pi' = w.pi /\ log' = w.log
    /\ UNCHANGED plan

\* compactionBarrierOpen, hasCancelledAdmissionFence, navigation with the
\* presentation it leaves behind: what keeps custody where it is.
Compacting(w) == w.comp.open \/ w.comp.cmd # None
Fenced(w) == w.auth.fatal \/ \E p \in Prompts : w.adm[p].open /\ w.adm[p].cancelled
NavigatingNow(w) == w.nav.now # None   \* bug: the presentation holds nothing back
Navigating(w) == w.nav.now # None \/ w.nav.shown # {}
Held(w) == Compacting(w) \/ Navigating(w) \/ Fenced(w)
BehindPrompt(w) == ~w.pi.streaming /\ w.auth.fence # None

\* scheduleCustodyDrain, n times over.
DrainedTimes(w, n) ==
    IF Held(w) \/ w.auth.custody = {} THEN w
    ELSE [w EXCEPT !.sched.drains = IF @ + n > MaxDrains THEN MaxDrains ELSE @ + n]
NotDrained(w) == w   \* bug: nothing asks for the drain
Drained(w) == DrainedTimes(w, 1)

\* settleDispatchedIntent: the first outcome of an intent is its outcome.
SettledAs(w, i, result) ==
    IF w.log.outcome[i] # "none" THEN w ELSE [w EXCEPT !.log.outcome[i] = result]
AllSettledAs(w, ids, result) ==
    [w EXCEPT !.log.outcome = [i \in Intents |->
        IF i \in ids /\ @[i] = "none" THEN result ELSE @[i]]]

\* restoreCustody of the items of ids, with the certainty "not_processed".
Restored(w, ids) ==
    AllSettledAs([w EXCEPT
        !.auth.custody = {item \in @ : item.id \notin ids},
        !.auth.active = [i \in Intents |-> IF i \in ids THEN "unknown" ELSE @[i]],
        !.log.unsent = @ \cup ids], ids, "outcome_unknown")

HeldBy(w, phase) == {item.id : item \in {x \in w.auth.custody : x.phase = phase}}

\* A prompt takes its place in custody: the next ingressSequence.
InCustody(w, p, phase) ==
    [w EXCEPT !.auth.sequence = @ + 1,
              !.auth.custody = @ \cup {[id |-> p, phase |-> phase, barrier |-> w.auth.barrier,
                                        at |-> w.auth.sequence + 1]},
              !.auth.active[p] = "custody", !.log.kept = Append(@, p)]

\* admit from its first await: the prompt is handed to Pi and the job waits.
Handed(w, p, job) ==
    [w EXCEPT !.sched.job = job, !.sched.waits = p,
              !.auth.active[p] = "admitting",
              !.auth.fence = IF w.pi.streaming THEN @ ELSE p,
              !.adm[p] = [open |-> TRUE, cancelled |-> FALSE, crossed |-> FALSE,
                          late |-> FALSE, seen |-> FALSE],
              !.pi.stage[p] = "preflight", !.log.sent = Append(@, p),
              !.log.idle = IF w.pi.streaming THEN @ \ {p} ELSE @ \cup {p}]

ReleasedJob(w) == [w EXCEPT !.sched.job = "none"]   \* bug: the prompt is still awaited
Released(w) == [w EXCEPT !.sched.job = "none", !.sched.waits = None]

(***************************************************************************)
(* The scheduler: one job at a time, drains before ingress.                *)
(***************************************************************************)

\* The race admit waits for: preflight, the promise, the deadline, Escape.
Winner(w, p) ==
    IF w.adm[p].cancelled THEN "escape_cancelled"
    ELSE IF w.pi.stage[p] = "failed" THEN "failed"
    ELSE IF w.adm[p].seen \/ w.pi.stage[p] \in {"queued", "handled", "done"} THEN "consumed"
    ELSE IF w.adm[p].late THEN "deadline"
    ELSE "none"

Waiting == sched.job \in {"submit", "drained"}

\* No continuation of the authority is pending: a message or a timer may come.
Quiet ==
    \/ sched.job = "none" /\ sched.ingress = <<>> /\ sched.drains = 0
    \/ sched.job = "reload"
    \/ Waiting /\ Winner(World, sched.waits) = "none"

Unsettled(w) == {i \in Intents : w.log.receipt[i] = "admitted" /\ w.log.outcome[i] = "none"}

\* lifecyclePermit, for a reload.
PermittedWhileIdle(w) ==   \* bug: what waits in the scheduler does not count
    /\ w.auth.transition = "none" /\ ~w.pi.streaming /\ w.pi.queue = <<>>
    /\ w.auth.custody = {} /\ w.auth.fence = None
Permitted(w) ==
    /\ w.auth.transition = "none"
    /\ ~w.pi.streaming /\ w.pi.queue = <<>> /\ ~w.auth.fatal
    /\ w.auth.custody = {} /\ w.auth.fence = None
    /\ \A i \in Intents : w.auth.active[i] = "none"
    /\ \A p \in Prompts : ~w.adm[p].open
    /\ ~Navigating(w) /\ ~Compacting(w)
    /\ Unsettled(w) \subseteq Reloads

\* admit of a prompt from ingress.
AdmittedPastFence(w, p) ==   \* bug: a prompt that has not settled holds nothing back
    IF Compacting(w) THEN InCustody(w, p, "compaction")
    ELSE IF Navigating(w) THEN InCustody(w, p, "navigation")
    ELSE IF Fenced(w) THEN InCustody(w, p, "admission_fence")
    ELSE Handed(w, p, "submit")
Admitted(w, p) ==
    IF Compacting(w) THEN InCustody(w, p, "compaction")
    ELSE IF Navigating(w) THEN InCustody(w, p, "navigation")
    ELSE IF Fenced(w) THEN InCustody(w, p, "admission_fence")
    ELSE IF BehindPrompt(w)
         THEN [InCustody(w, p, "prompt_fence") EXCEPT
                   !.auth.wakers = IF @ < MaxDrains THEN @ + 1 ELSE @]
    ELSE Handed(w, p, "submit")

\* What the job of an intent other than a prompt does in its slot.
Executed(w, i) ==
    CASE i \in Compactions ->
             [w EXCEPT !.comp.cmd = i, !.comp.seen = FALSE, !.auth.active[i] = "invoking"]
      [] i \in Navigations ->
             IF w.pi.streaming \/ w.comp.open THEN SettledAs(w, i, "rejected")
             ELSE [w EXCEPT !.auth.barrier = @ + 1, !.nav.now = i,
                            !.nav.barrier = w.auth.barrier + 1]
      [] i \in Reloads ->
             IF Permitted(w)
             THEN [w EXCEPT !.auth.transition = "prepare", !.sched.job = "reload",
                            !.sched.waits = i]
             ELSE SettledAs(w, i, "rejected")

RunIngress ==
    /\ sched.job = "none" /\ sched.drains = 0 /\ sched.ingress # <<>>
    /\ LET i == Head(sched.ingress)
           w == [World EXCEPT !.sched.ingress = Tail(@)]
       IN Becomes(IF w.auth.fatal \/ w.auth.transition # "none" \/ i \in w.auth.stale
                  THEN SettledAs(w, i, "outcome_unknown")
                  ELSE IF i \notin Prompts /\ Navigating(w) THEN SettledAs(w, i, "rejected")
                  ELSE IF i \in Prompts THEN Admitted(w, i)
                  ELSE Executed(w, i))

RunDrain ==
    /\ sched.job = "none" /\ sched.drains > 0
    /\ Becomes([World EXCEPT !.sched.drains = @ - 1, !.sched.job = "draining"])

\* The item drainCustody takes next: the first by ingressSequence.
LastItem(w) ==   \* bug: the newest first
    (CHOOSE item \in w.auth.custody : \A other \in w.auth.custody : item.at >= other.at).id
NextItem(w) ==
    (CHOOSE item \in w.auth.custody : \A other \in w.auth.custody : item.at <= other.at).id

\* One turn of the loop of drainCustody.
DrainStep ==
    /\ sched.job = "draining"
    /\ LET w == World
       IN Becomes(IF Held(w) \/ w.auth.custody = {} THEN Released(w)
                  ELSE IF BehindPrompt(w)
                       THEN [Released(w) EXCEPT
                                !.auth.wakers = IF @ < MaxDrains THEN @ + 1 ELSE @]
                  ELSE IF w.auth.transition # "none" THEN Released(w)
                  ELSE Handed(w, NextItem(w), "drained"))

\* What follows the settlement of a prompt's promise once admit has returned.
FenceLifted(w, p) ==
    IF w.auth.fence # p THEN w
    ELSE DrainedTimes([w EXCEPT !.auth.fence = None, !.auth.wakers = 0], w.auth.wakers)
Concluded(w, p) ==
    LET result == IF w.pi.stage[p] = "done" THEN "completed"
                  ELSE IF w.adm[p].crossed THEN "outcome_unknown" ELSE "rejected"
    IN FenceLifted(IF w.adm[p].cancelled THEN w
                   ELSE SettledAs([w EXCEPT !.auth.active[p] = "none"], p, result), p)

\* The promise of session.prompt settles.
PromiseSettled(w, p, stage) ==
    LET closed == [w EXCEPT !.pi.stage[p] = stage, !.adm[p].open = FALSE]
        released == IF ~w.adm[p].cancelled THEN closed
                    ELSE Drained([closed EXCEPT !.auth.active[p] =
                                      IF @ = "unknown" THEN "none" ELSE @])
    IN IF Waiting /\ sched.waits = p THEN released ELSE Concluded(released, p)

\* The value admit returns, and what the waiting job does with it.
Value(w, p) ==
    CASE Winner(w, p) = "escape_cancelled" -> "outcome_unknown"
      [] Winner(w, p) = "failed" ->
             IF w.adm[p].crossed THEN "outcome_unknown" ELSE "rejected"
      [] Winner(w, p) = "deadline" -> "admitting"
      [] OTHER -> "consumed"

ShiftedTwice(items) ==   \* bug: the item after the one that was sent goes too
    {item \in items : \E a, b \in items : a.at < b.at /\ b.at < item.at}
Shifted(items) == {item \in items : \E other \in items : other.at < item.at}   \* Array.shift
ItemKept(w, p, value) ==   \* bug: an uncertain item goes back to the head of custody
    IF value \in {"consumed", "admitting"}
    THEN [w EXCEPT !.auth.custody = Shifted(@), !.sched.job = "draining", !.sched.waits = None]
    ELSE [Released(w) EXCEPT !.auth.active[p] = "custody"]
ItemDone(w, p, value) ==
    CASE value \in {"consumed", "admitting"} ->
             [w EXCEPT !.auth.custody = Shifted(@), !.sched.job = "draining",
                       !.sched.waits = None]
      [] value = "outcome_unknown" ->
             Restored([w EXCEPT !.sched.job = "draining", !.sched.waits = None], {p})
      [] OTHER -> [Released(w) EXCEPT !.auth.active[p] = "custody"]

Resume ==
    /\ Waiting /\ Winner(World, sched.waits) # "none"
    /\ LET p == sched.waits
           value == Value(World, p)
           settled == pi.stage[p] \in {"done", "failed"}
           told == CASE value = "consumed" -> [World EXCEPT !.auth.active[p] = "consumed"]
                     [] Winner(World, p) = "failed" ->
                            [World EXCEPT !.auth.active[p] = "none"]
                     [] OTHER -> World
           done == IF sched.job = "drained" THEN ItemDone(told, p, value)
                   ELSE IF value \in {"rejected", "outcome_unknown"}
                        THEN SettledAs(Released(told), p, value)
                   ELSE Released(told)
       IN Becomes(IF ~settled THEN done
                  ELSE IF value \in {"consumed", "admitting"} THEN Concluded(done, p)
                  ELSE FenceLifted(done, p))

(***************************************************************************)
(* Messages and timers.                                                    *)
(***************************************************************************)

\* dispatchIntent: the receipt, and the job in ingress.
Dispatch(i) ==
    /\ Quiet /\ log.receipt[i] = "none"
    /\ Becomes(IF auth.fatal \/ auth.transition # "none" \/ (i \notin Prompts /\ Navigating(World))
               THEN [World EXCEPT !.log.receipt[i] = "not_admitted"]
               ELSE [World EXCEPT !.log.receipt[i] = "admitted",
                                  !.sched.ingress = Append(@, i)])

\* The two seconds of a prompt's admission are over.
Deadline(p) ==
    /\ Quiet /\ Waiting /\ sched.waits = p
    /\ Becomes([World EXCEPT !.adm[p].late = TRUE])

\* The ten-millisecond poll of a prompt Pi has started sees the turn.
Poll(p) ==
    /\ Quiet /\ Waiting /\ sched.waits = p /\ pi.streaming
    /\ pi.stage[p] \in {"started", "running"}
    /\ Becomes([World EXCEPT !.adm[p].seen = TRUE])

Acknowledge(n) ==
    /\ Quiet /\ n \in nav.shown
    /\ Becomes(Drained([World EXCEPT !.nav.shown = @ \ {n}]))

\* requestEscape: first every admission Pi has not accepted, then one target.
Cancellable(w) ==
    {p \in Prompts : w.adm[p].open /\ ~w.adm[p].crossed /\ ~w.adm[p].cancelled}

Escape ==
    /\ Quiet /\ auth.escapes < plan.escapes
    /\ LET ids == Cancellable(World)
           fenced == [World EXCEPT
               !.auth.escapes = @ + 1,
               !.auth.active = [i \in Intents |-> IF i \in ids THEN "unknown" ELSE @[i]],
               !.adm = [p \in Prompts |-> [adm[p] EXCEPT !.cancelled = @ \/ p \in ids]]]
           aimed == CASE nav.now # None -> fenced
                      [] nav.now = None /\ Compacting(World) ->
                             [fenced EXCEPT !.comp.aborted = comp.open]
                      [] nav.now = None /\ ~Compacting(World) /\ pi.streaming ->
                             [fenced EXCEPT !.pi.queue = <<>>,
                                            !.log.unsent = @ \cup (ToSet(pi.queue) \ ids)]
                      [] OTHER -> fenced
       IN Becomes(AllSettledAs(aimed, ids, "outcome_unknown"))

(***************************************************************************)
(* Pi.                                                                     *)
(***************************************************************************)

\* clearLateQueueForCancelledAdmission: the queue is emptied to take the
\* cancelled entry out of it, and the others are returned; or that fails.
Swept(w) == [w EXCEPT !.pi.queue = <<>>,
                      !.log.unsent = @ \cup {q \in ToSet(w.pi.queue) : ~w.adm[q].cancelled}]
SweepFails(w) == [w EXCEPT !.auth.fatal = TRUE]

\* preflightResult: Pi accepts p.  The callback throws if p was cancelled.
Accepts(w, p, stage) ==
    [w EXCEPT !.adm[p].crossed = TRUE, !.pi.stage[p] = stage,
              !.log.crossed = @ \cup {p}]
AcceptedUnswept(w, p, stage) ==   \* bug: the entry of a cancelled prompt stays
    IF w.adm[p].cancelled THEN {PromiseSettled(w, p, "failed")}
    ELSE {Accepts(w, p, stage)}
Accepted(w, p, stage) ==
    IF w.adm[p].cancelled
    THEN {PromiseSettled(Swept(w), p, "failed")}
             \cup (IF plan.cleanupFails /\ w.pi.queue # <<>>
                   THEN {PromiseSettled(SweepFails(w), p, "failed")} ELSE {})
    ELSE {Accepts(w, p, stage)}

PiQueues(p) ==
    /\ pi.stage[p] = "preflight" /\ pi.streaming
    /\ \E w \in Accepted([World EXCEPT !.pi.queue = Append(@, p)], p, "queued") : Becomes(w)

PiHandles(p) ==
    /\ pi.stage[p] = "preflight"
    /\ \E w \in Accepted(World, p, "handled") : Becomes(w)

PiStarts(p) ==
    /\ pi.stage[p] = "preflight" /\ ~pi.streaming
    /\ \E w \in Accepted(World, p, "started") : Becomes(w)

PiStreams(p) ==
    /\ pi.stage[p] = "started" /\ ~pi.streaming
    /\ Becomes([World EXCEPT !.pi.stage[p] = "running", !.pi.streaming = TRUE,
                             !.log.ran = @ \cup {p}])

PiDelivers ==
    /\ pi.streaming /\ pi.queue # <<>>
    /\ Becomes([World EXCEPT !.pi.queue = Tail(@), !.log.ran = @ \cup {Head(pi.queue)}])

PiTurnEnds ==
    /\ pi.streaming /\ pi.queue = <<>>
    /\ Becomes([World EXCEPT !.pi.streaming = FALSE,
                   !.pi.stage = [p \in Prompts |-> IF @[p] = "running" THEN "ended" ELSE @[p]]])

PiSettles(p) ==
    /\ pi.stage[p] \in {"queued", "handled", "ended"}
    /\ Becomes(PromiseSettled(World, p, "done"))

PiFails(p) ==
    /\ plan.rejects /\ pi.stage[p] \in {"preflight", "started", "ended"}
    /\ Becomes(PromiseSettled(World, p, "failed"))

(***************************************************************************)
(* Compaction: the span Pi reports, and the promise of the command.        *)
(***************************************************************************)

\* Pi compacts on command, once its turn is over, or on its own around a prompt.
CompStarts ==
    /\ ~comp.open
    /\ \/ comp.cmd # None /\ ~comp.seen /\ ~pi.streaming
          /\ Becomes([World EXCEPT !.comp.open = TRUE, !.comp.seen = TRUE,
                                   !.comp.failed = FALSE, !.comp.aborted = FALSE,
                                   !.auth.barrier = @ + 1])
       \/ comp.auto < plan.auto /\ \E p \in Prompts : pi.stage[p] \in {"preflight", "ended"}
          /\ Becomes([World EXCEPT !.comp.open = TRUE, !.comp.auto = @ + 1,
                                   !.comp.failed = FALSE, !.comp.aborted = FALSE,
                                   !.auth.barrier = @ + 1])

\* What either end of the barrier does to custody.  An item that the drain is
\* sending may be among those given back.
CompactionOver(w, failed) ==
    LET ids == HeldBy(w, "compaction")
    IN  IF Compacting(w) THEN w
        ELSE IF failed THEN Restored([w EXCEPT !.log.taken = @ \cup (ids \cap {w.sched.waits})], ids)
        ELSE Drained(w)

CompEnds ==
    /\ comp.open
    /\ \E failed \in {comp.aborted, comp.aborted \/ plan.compactFails} :
           Becomes(CompactionOver([World EXCEPT !.comp.open = FALSE,
                                                !.comp.failed = failed], failed))

CompSettles ==
    /\ comp.cmd # None /\ ~comp.open /\ (comp.seen \/ plan.compactFails)
    /\ LET failed == ~comp.seen \/ comp.failed
           w == [World EXCEPT !.comp.cmd = None, !.auth.active[comp.cmd] = "none"]
       IN Becomes(SettledAs(CompactionOver(w, failed), comp.cmd,
                            IF failed THEN "rejected" ELSE "completed"))

(***************************************************************************)
(* runNavigation, and the transition of a reload.                          *)
(***************************************************************************)
NavEnds ==
    /\ nav.now # None
    /\ \/ Becomes(Drained(SettledAs([World EXCEPT !.nav.now = None,
                                         !.nav.shown = @ \cup {nav.now}], nav.now, "completed")))
       \/ LET kept == {item.id : item \in {x \in auth.custody :
                           x.phase = "navigation" /\ x.barrier = nav.barrier}}
          IN Becomes(Drained(SettledAs(Restored([World EXCEPT !.nav.now = None], kept),
                                       nav.now, "rejected")))

ReloadCrosses ==
    /\ auth.transition = "prepare"
    /\ Becomes([World EXCEPT !.auth.transition = "crossed"])

ReloadEnds ==
    /\ auth.transition \in {"prepare", "crossed"}
    /\ LET w == Released(World)
       IN \/ auth.transition = "crossed"
             /\ Becomes(SettledAs([w EXCEPT !.auth.transition = "none",
                    !.auth.stale = @ \cup ToSet(sched.ingress)], sched.waits, "completed"))
          \/ auth.transition = "crossed"
             /\ Becomes(SettledAs([w EXCEPT !.auth.transition = "failed"], sched.waits,
                                  "outcome_unknown"))
          \/ auth.transition = "prepare"
             /\ Becomes(SettledAs([w EXCEPT !.auth.transition = "none"], sched.waits,
                                  "rejected"))

Scheduler == RunIngress \/ RunDrain \/ DrainStep \/ Resume
PiOf(p) == PiQueues(p) \/ PiHandles(p) \/ PiStarts(p) \/ PiStreams(p) \/ PiSettles(p) \/ PiFails(p)
PiTurn == PiDelivers \/ PiTurnEnds
Barriers == CompStarts \/ CompEnds \/ CompSettles \/ NavEnds \/ ReloadCrosses \/ ReloadEnds

Next ==
    \/ \E i \in plan.asked : Dispatch(i)
    \/ \E p \in Prompts : Deadline(p) \/ Poll(p) \/ PiOf(p)
    \/ \E n \in Navigations : Acknowledge(n)
    \/ Escape \/ Scheduler \/ PiTurn \/ Barriers

Spec == Init /\ [][Next]_vars

\* Fairness: the scheduler and Pi go on, Pi's operations end, the renderer
\* acknowledges what it shows.  Nobody has to dispatch, press Escape, or be
\* late.  Only the plans that are asked for liveness are fair.
FairSpec ==
    /\ Spec
    /\ WF_vars(plan.fair /\ Scheduler) /\ WF_vars(plan.fair /\ PiDelivers) /\ WF_vars(plan.fair /\ PiTurnEnds)
    /\ WF_vars(plan.fair /\ CompStarts) /\ WF_vars(plan.fair /\ CompEnds) /\ WF_vars(plan.fair /\ CompSettles)
    /\ WF_vars(plan.fair /\ NavEnds) /\ WF_vars(plan.fair /\ ReloadCrosses) /\ WF_vars(plan.fair /\ ReloadEnds)
    /\ \A p \in Prompts : WF_vars(plan.fair /\ PiOf(p)) /\ WF_vars(plan.fair /\ Poll(p))
    /\ \A n \in Navigations : WF_vars(plan.fair /\ Acknowledge(n))

-----------------------------------------------------------------------------
Outcomes == {"none", "completed", "rejected", "outcome_unknown"}
Phases == {"compaction", "navigation", "admission_fence", "prompt_fence"}

\* The type of every part of the authority's state.
TypeOK ==
    /\ sched \in [ingress : Seq(Intents), drains : 0..MaxDrains,
                  job : {"none", "submit", "draining", "drained", "reload"},
                  waits : Intents \cup {None}]
    /\ sched.waits # None <=> sched.job \in {"submit", "drained", "reload"}
    /\ auth.custody \subseteq [id : Prompts, phase : Phases, barrier : Nat, at : Nat]
    /\ auth.active \in [Intents -> {"none", "custody", "admitting", "consumed", "invoking",
                                    "unknown"}]
    /\ auth.fence \in Prompts \cup {None} /\ auth.wakers \in 0..MaxDrains
    /\ auth.transition \in {"none", "prepare", "crossed", "failed"}
    /\ adm \in [Prompts -> [open : BOOLEAN, cancelled : BOOLEAN, crossed : BOOLEAN,
                            late : BOOLEAN, seen : BOOLEAN]]
    /\ comp.cmd \in Compactions \cup {None} /\ nav.now \in Navigations \cup {None}
    /\ nav.shown \subseteq Navigations
    /\ pi.queue \in Seq(Prompts)
    /\ log.outcome \in [Intents -> Outcomes]

\* A prompt sent to an idle Pi is alone: the fence of the one before it holds
\* every later idle prompt back until that promise has settled.
OneIdlePrompt ==
    \A p, q \in log.idle : p # q =>
        pi.stage[p] \in {"done", "failed"} \/ pi.stage[q] \in {"done", "failed"}

\* Escape before Pi accepts a prompt is final: whatever Pi's hooks do later,
\* the prompt never becomes part of a turn (unless the queue could not be
\* cleared, in which case the authority is fenced for good).
CancelledNeverRuns ==
    ~auth.fatal => \A p \in Prompts : adm[p].cancelled => p \notin log.ran

\* Custody goes to Pi first in, first out: an item is sent only when each item
\* before it has been sent or given back.
CustodyFifo ==
    \A a, b \in DOMAIN log.kept :
        a < b /\ log.kept[b] \in ToSet(log.sent)
            => log.kept[a] \in ToSet(log.sent) \cup log.unsent

\* No prompt leaves custody unless it was sent to Pi or given back.
CustodyLosesNothing ==
    \A p \in ToSet(log.kept) :
        \/ p \in {item.id : item \in auth.custody}
        \/ p \in ToSet(log.sent) \cup log.unsent

\* While a reload replaces the extensions nothing else is under way in the
\* authority: the permit and the transition are one step of the scheduler.
TransitionIsAlone ==
    auth.transition \in {"prepare", "crossed"} =>
        /\ auth.custody = {} /\ auth.fence = None
        /\ ~Navigating(World) /\ \A p \in Prompts : ~adm[p].open
        /\ Unsettled(World) \subseteq Reloads

\* A prompt Pi has accepted is never sent to Pi again, not from custody either.
AcceptedOnce ==
    [][\A k \in (DOMAIN log'.sent) \ (DOMAIN log.sent) : log'.sent[k] \notin log.crossed]_vars

\* No prompt reaches Pi while a compaction or a navigation is under way, while
\* the renderer has yet to acknowledge the branch a navigation led to, or while
\* a cancelled prompt may still act.
HandedWhenFree ==
    [][log'.sent # log.sent =>
          ~comp.open /\ comp.cmd = None /\ nav.now = None /\ nav.shown = {}
          /\ \A p \in Prompts : ~(adm[p].open /\ adm[p].cancelled)]_vars

\* Every intent the authority admitted gets an outcome.
EveryIntentSettles ==
    \A i \in Intents : plan.fair /\ log.receipt[i] = "admitted" ~> log.outcome[i] # "none"

\* Custody keeps every prompt it takes, and their order, as long as no compaction
\* that fails takes back the prompt being drained: then the drain drops the next
\* one (CustodyLosesNothing alone is not kept).
CustodyKept == TypeOK /\ (log.taken = {} => CustodyFifo /\ CustodyLosesNothing)

\* What excludes everything else is alone: an idle prompt, a transition.
Exclusive == OneIdlePrompt /\ TransitionIsAlone

\* A prompt reaches Pi once, when Pi is free for it, and not after its cancellation.
HandedRightly == []CancelledNeverRuns /\ AcceptedOnce /\ HandedWhenFree
=============================================================================
