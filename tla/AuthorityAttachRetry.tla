------------------------- MODULE AuthorityAttachRetry -------------------------
(***************************************************************************)
(* The renderer's coordinator of authority attaches (authority-attach-     *)
(* retry.ts), for one session: its maps hold one entry per session, and    *)
(* sessions do not meet.                                                   *)
(*                                                                         *)
(* Callers (publications, lifecycle events, focus, remounted terminals)    *)
(* join one cycle.  A cycle makes one attach at a time, each a renderer-   *)
(* Attach followed by an authorityAttach, and retries after a backoff      *)
(* until a baseline is ready, the budget is spent, or the session is gone. *)
(* A forced request wants a baseline even from a page that follows.        *)
(***************************************************************************)
EXTENDS Integers

CONSTANT MaxRetries \* six in the code

ASSUME RetryAssumption == MaxRetries \in Nat

VARIABLES
  exists,   \* the session is in the store; a removed one never comes back
  needs,    \* needsAttach: its projection is not following
  stage,    \* where the latest attempt awaits: "renderer", "authority"; "retiring"
            \* when it has ended but its finally has not run; else "none"
  inFlight, \* the coordinator's entry for that attempt
  timer,    \* the backoff timer is armed
  retries,  \* retries made
  force,    \* retryForces
  cycle,    \* there is a promise that callers wait for
  owed      \* for the record: a forced caller waits for it

vars == <<exists, needs, stage, inFlight, timer, retries, force, cycle, owed>>

-----------------------------------------------------------------------------
(* clearRetry, completeCycle *)
ClearRetry == timer' = FALSE /\ retries' = 0 /\ force' = FALSE

CompleteCycle == cycle' = FALSE /\ owed' = FALSE

StartForgetting(forced) == \* bug: the force does not outlive the attempt
  /\ stage' = "renderer" /\ inFlight' = TRUE /\ cycle' = TRUE
  /\ timer' = FALSE
  /\ UNCHANGED <<retries, force>>

Start(forced) ==
  /\ stage' = "renderer" /\ inFlight' = TRUE /\ cycle' = TRUE
  /\ timer' = FALSE /\ force' = (force \/ forced)
  /\ UNCHANGED retries

DismissQuietly == \* bug: the callers of the cycle are not released
  ClearRetry /\ UNCHANGED <<stage, inFlight, cycle, owed>>

\* Nothing to do: whoever waits for the scheduled retry is released.
Dismiss == ClearRetry /\ CompleteCycle /\ UNCHANGED <<stage, inFlight>>

(***************************************************************************)
(* request(sessionId, force): joins the attempt in flight, or starts one   *)
(* at once, in place of a scheduled retry, unless none is needed.          *)
(***************************************************************************)
Requested(forced) ==
  \/ /\ inFlight
     /\ force' = (force \/ forced) /\ cycle' = TRUE
     /\ UNCHANGED <<stage, inFlight, timer, retries>>
  \/ /\ ~inFlight /\ (forced \/ force \/ needs)
     /\ Start(forced)
  \/ /\ ~inFlight /\ ~(forced \/ force \/ needs)
     /\ Dismiss

Request(forced) ==
  /\ exists
  /\ Requested(forced)
  /\ owed' = (cycle' /\ (owed \/ forced))
  /\ UNCHANGED <<exists, needs>>

\* The timer cannot fire before the attempt that armed it has retired.
TimerFires ==
  /\ timer /\ stage # "retiring"
  /\ Requested(force)
  /\ owed' = (cycle' /\ owed)
  /\ UNCHANGED <<exists, needs>>

(***************************************************************************)
(* What follows an await.  The attempt of a removed session ends there.    *)
(***************************************************************************)
BudgetSpentLate == retries > MaxRetries \* bug: one retry too many

BudgetSpent == retries >= MaxRetries

RetryWithoutBudget == \* bug: retries are not counted
  /\ timer' = TRUE /\ stage' = "retiring"
  /\ UNCHANGED <<retries, needs, inFlight, force, cycle, owed>>

ScheduleRetry ==
  \/ /\ BudgetSpent
     /\ retries' = 0 /\ force' = FALSE
     /\ needs' = TRUE   \* onUnavailable
     /\ stage' = "none" /\ inFlight' = FALSE
     /\ CompleteCycle
     /\ UNCHANGED timer
  \/ /\ ~BudgetSpent
     /\ retries' = retries + 1 /\ timer' = TRUE /\ stage' = "retiring"
     /\ UNCHANGED <<needs, inFlight, force, cycle, owed>>

\* cancel(sessionId), for a session that is gone.
Cancel == ClearRetry /\ CompleteCycle /\ inFlight' = FALSE

AbandonedUnchecked == FALSE \* bug: the attempt goes on for a removed session

Abandoned == ~exists

Abandon ==
  /\ Abandoned
  /\ Cancel /\ stage' = "none"
  /\ UNCHANGED <<exists, needs>>

RendererAnswer ==
  /\ stage = "renderer"
  /\ \/ Abandon
     \/ /\ ~Abandoned /\ stage' = "authority"
        /\ UNCHANGED <<exists, needs, inFlight, timer, retries, force, cycle, owed>>
     \/ ~Abandoned /\ ScheduleRetry /\ UNCHANGED exists

\* onReady applies the baseline, unless the page is already past it.
AuthorityAnswer ==
  /\ stage = "authority"
  /\ \/ Abandon
     \/ /\ ~Abandoned
        /\ ClearRetry /\ CompleteCycle
        /\ needs' \in {FALSE, needs}
        /\ stage' = "none" /\ inFlight' = FALSE
        /\ UNCHANGED exists
     \/ ~Abandoned /\ ScheduleRetry /\ UNCHANGED exists

Retire ==
  /\ stage = "retiring"
  /\ stage' = "none" /\ inFlight' = FALSE
  /\ UNCHANGED <<exists, needs, timer, retries, force, cycle, owed>>

\* A fence, or a baseline that a component installed by itself.
ProjectionChanges ==
  /\ exists
  /\ needs' = ~needs
  /\ UNCHANGED <<exists, stage, inFlight, timer, retries, force, cycle, owed>>

\* The store forgets the session and the coordinator cancels at once.
Remove ==
  /\ exists
  /\ exists' = FALSE
  /\ Cancel
  /\ stage' = IF stage = "retiring" THEN "none" ELSE stage
  /\ UNCHANGED needs

-----------------------------------------------------------------------------
Init ==
  /\ exists = TRUE /\ needs = TRUE
  /\ stage = "none" /\ inFlight = FALSE /\ timer = FALSE
  /\ retries = 0 /\ force = FALSE /\ cycle = FALSE /\ owed = FALSE

Next ==
  \/ \E forced \in BOOLEAN : Request(forced)
  \/ TimerFires \/ RendererAnswer \/ AuthorityAnswer \/ Retire
  \/ ProjectionChanges \/ Remove

Spec == Init /\ [][Next]_vars

\* Main answers every call or the call fails, and timers fire.
Fairness ==
  /\ WF_vars(RendererAnswer) /\ WF_vars(AuthorityAnswer)
  /\ WF_vars(Retire) /\ WF_vars(TimerFires)

FairSpec == Spec /\ Fairness

-----------------------------------------------------------------------------
(* Properties *)

\* The variables have their types.
TypeOK ==
  /\ exists \in BOOLEAN /\ needs \in BOOLEAN
  /\ stage \in {"none", "renderer", "authority", "retiring"}
  /\ inFlight \in BOOLEAN /\ timer \in BOOLEAN
  /\ retries \in 0..MaxRetries
  /\ force \in BOOLEAN /\ cycle \in BOOLEAN /\ owed \in BOOLEAN

\* Somebody waits exactly while something is under way that will answer, and
\* that is one thing: an attempt that awaits or a timer, never both (single
\* flight), whichever way requests, answers, the timer and removal interleave.
CycleServed ==
  /\ cycle <=> (inFlight \/ timer)
  /\ inFlight => stage # "none"
  /\ timer /\ inFlight => stage = "retiring"

\* A cycle that a forced caller has joined ends with an attempt's outcome or the
\* removal of the session: it is not dismissed because the page follows again
\* (the tests at authority-attach-retry.test.ts:105 and :167).
ForceSurvives ==
  [][ owed /\ cycle /\ ~cycle' => RendererAnswer \/ AuthorityAnswer \/ Remove ]_vars

\* Nothing outlives a removed session: no timer, no waiting caller, and its
\* attempt never sends the second call (authority-attach-retry.ts:135).
RemovedStaysDead ==
  [][ ~exists => /\ ~timer' /\ ~cycle' /\ ~inFlight' /\ retries' = 0
                 /\ stage' = "authority" => stage = "authority" ]_vars

\* Every caller is released: a cycle does not go on for ever.
CyclesEnd == cycle ~> ~cycle
=============================================================================
