---------------------- MODULE AuthorityAttachRetryProofs ----------------------
(***************************************************************************)
(* What the attach coordinator promises its callers, for every budget of   *)
(* retries.                                                                *)
(***************************************************************************)
EXTENDS AuthorityAttachRetry, TLAPS

(***************************************************************************)
(* The inductive invariant.  Besides the properties' own states it says    *)
(* what an attempt that awaits or retires still owns, and that a forced    *)
(* caller's wish is in retryForces for as long as it waits.                *)
(***************************************************************************)
Attempts ==
  /\ exists /\ stage \in {"renderer", "authority"} => inFlight
  /\ stage = "retiring" => exists /\ inFlight /\ timer

Gone == ~exists => ~timer /\ ~cycle /\ ~inFlight /\ retries = 0

Forced == owed => force

RetryInv == TypeOK /\ CycleServed /\ Attempts /\ Gone /\ Forced

-----------------------------------------------------------------------------
LEMMA NoRetries == 0 \in 0..MaxRetries
BY RetryAssumption DEF RetryAssumption

LEMMA RetryInit == Init => RetryInv
BY NoRetries DEF Init, RetryInv, TypeOK, CycleServed, Attempts, Gone, Forced

(* A request, or the timer's, joins, starts or dismisses. *)
LEMMA RequestedKeeps ==
  ASSUME RetryInv, exists, NEW forced \in BOOLEAN, Requested(forced),
         timer => stage # "retiring" \/ inFlight,
         owed' = (cycle' /\ owed) \/ owed' = (cycle' /\ (owed \/ forced)),
         UNCHANGED <<exists, needs>>
  PROVE  RetryInv'
<1>1. CASE inFlight /\ force' = (force \/ forced) /\ cycle' = TRUE
           /\ UNCHANGED <<stage, inFlight, timer, retries>>
  BY <1>1 DEF RetryInv, TypeOK, CycleServed, Attempts, Gone, Forced
<1>2. CASE ~inFlight /\ Start(forced)
  BY <1>2 DEF Start, RetryInv, TypeOK, CycleServed, Attempts, Gone, Forced
<1>3. CASE ~inFlight /\ Dismiss
  BY <1>3, NoRetries
  DEF Dismiss, ClearRetry, CompleteCycle, RetryInv, TypeOK, CycleServed, Attempts, Gone, Forced
<1> QED BY <1>1, <1>2, <1>3 DEF Requested

(* An attempt that failed goes on owing its callers a retry, or ends. *)
LEMMA ScheduleKeeps ==
  ASSUME RetryInv, exists, stage \in {"renderer", "authority"}, ScheduleRetry, UNCHANGED exists
  PROVE  RetryInv'
<1>1. inFlight
  BY DEF RetryInv, Attempts
<1>2. CASE BudgetSpent
  <2>1. /\ retries' = 0 /\ force' = FALSE /\ needs' = TRUE
        /\ stage' = "none" /\ inFlight' = FALSE
        /\ cycle' = FALSE /\ owed' = FALSE /\ UNCHANGED timer
    BY <1>2 DEF ScheduleRetry, CompleteCycle
  <2>2. timer = FALSE
    BY <1>1 DEF RetryInv, CycleServed, TypeOK
  <2> QED BY <2>1, <2>2, NoRetries DEF RetryInv, TypeOK, CycleServed, Attempts, Gone, Forced
<1>3. CASE ~BudgetSpent
  <2>1. retries' \in 0..MaxRetries
    BY <1>3, RetryAssumption DEF ScheduleRetry, BudgetSpent, RetryInv, TypeOK, RetryAssumption
  <2>2. /\ timer' = TRUE /\ stage' = "retiring"
        /\ UNCHANGED <<needs, inFlight, force, cycle, owed>>
    BY <1>3 DEF ScheduleRetry
  <2> QED BY <1>1, <2>1, <2>2 DEF RetryInv, TypeOK, CycleServed, Attempts, Gone, Forced
<1> QED BY <1>2, <1>3

LEMMA AbandonKeeps == RetryInv /\ Abandon => RetryInv'
BY NoRetries
DEF Abandon, Abandoned, Cancel, ClearRetry, CompleteCycle, RetryInv, TypeOK, CycleServed,
    Attempts, Gone, Forced

LEMMA RetryStep == RetryInv /\ [Next]_vars => RetryInv'
<1> SUFFICES ASSUME RetryInv, [Next]_vars PROVE RetryInv'
  OBVIOUS
<1>1. ASSUME NEW forced \in BOOLEAN, Request(forced) PROVE RetryInv'
  <2>1. timer => stage # "retiring" \/ inFlight
    BY DEF RetryInv, Attempts
  <2> QED BY <1>1, <2>1, RequestedKeeps DEF Request
<1>2. CASE TimerFires
  <2>1. exists /\ force \in BOOLEAN
    BY <1>2 DEF TimerFires, RetryInv, Gone, TypeOK
  <2> QED BY <1>2, <2>1, RequestedKeeps DEF TimerFires
<1>3. CASE RendererAnswer
  <2>1. CASE Abandon
    BY <2>1, AbandonKeeps
  <2>2. CASE /\ stage = "renderer" /\ ~Abandoned /\ stage' = "authority"
             /\ UNCHANGED <<exists, needs, inFlight, timer, retries, force, cycle, owed>>
    BY <2>2 DEF Abandoned, RetryInv, TypeOK, CycleServed, Attempts, Gone, Forced
  <2>3. CASE ~Abandoned /\ ScheduleRetry /\ UNCHANGED exists
    BY <1>3, <2>3, ScheduleKeeps DEF RendererAnswer, Abandoned
  <2> QED BY <1>3, <2>1, <2>2, <2>3 DEF RendererAnswer
<1>4. CASE AuthorityAnswer
  <2>1. CASE Abandon
    BY <2>1, AbandonKeeps
  <2>2. CASE /\ ClearRetry /\ CompleteCycle /\ needs' \in {FALSE, needs}
             /\ stage' = "none" /\ inFlight' = FALSE /\ UNCHANGED exists
    BY <2>2, NoRetries
    DEF ClearRetry, CompleteCycle, RetryInv, TypeOK, CycleServed, Attempts, Gone, Forced
  <2>3. CASE ~Abandoned /\ ScheduleRetry /\ UNCHANGED exists
    BY <1>4, <2>3, ScheduleKeeps DEF AuthorityAnswer, Abandoned
  <2> QED BY <1>4, <2>1, <2>2, <2>3 DEF AuthorityAnswer
<1>5. CASE Retire
  BY <1>5 DEF Retire, RetryInv, TypeOK, CycleServed, Attempts, Gone, Forced
<1>6. CASE ProjectionChanges
  BY <1>6 DEF ProjectionChanges, RetryInv, TypeOK, CycleServed, Attempts, Gone, Forced
<1>7. CASE Remove
  BY <1>7, NoRetries
  DEF Remove, Cancel, ClearRetry, CompleteCycle, RetryInv, TypeOK, CycleServed, Attempts, Gone,
      Forced
<1>8. CASE UNCHANGED vars
  BY <1>8 DEF vars, RetryInv, TypeOK, CycleServed, Attempts, Gone, Forced
<1> QED BY <1>1, <1>2, <1>3, <1>4, <1>5, <1>6, <1>7, <1>8 DEF Next

(* Whoever waits is served by exactly one attempt or timer, whatever the   *)
(* order of requests, answers, timers and removal.                         *)
THEOREM CallersAreServed == Spec => []CycleServed
<1>1. RetryInv => CycleServed
  BY DEF RetryInv
<1> QED BY RetryInit, RetryStep, <1>1, PTL DEF Spec

(* A forced caller is never dismissed because the page follows by then.    *)
THEOREM ForcedCallersAreAnswered == Spec => ForceSurvives
<1>1. RetryInv /\ [Next]_vars
        => [owed /\ cycle /\ ~cycle' => RendererAnswer \/ AuthorityAnswer \/ Remove]_vars
  <2> SUFFICES ASSUME RetryInv, Next, owed, cycle, ~cycle'
               PROVE  RendererAnswer \/ AuthorityAnswer \/ Remove
    OBVIOUS
  <2>1. force
    BY DEF RetryInv, Forced
  <2>2. ASSUME NEW forced, Requested(forced) PROVE FALSE
    BY <2>1, <2>2 DEF Requested, Start
  <2>3. ~TimerFires /\ \A forced \in BOOLEAN : ~Request(forced)
    BY <2>2 DEF TimerFires, Request
  <2>4. ~Retire /\ ~ProjectionChanges
    BY DEF Retire, ProjectionChanges
  <2> QED BY <2>3, <2>4 DEF Next
<1> QED BY RetryInit, RetryStep, <1>1, PTL DEF Spec, ForceSurvives

(* Nothing of a removed session goes on.                                   *)
THEOREM RemovedSessionsStayDead == Spec => RemovedStaysDead
<1>1. RetryInv /\ RetryInv' /\ [Next]_vars
        => [~exists => /\ ~timer' /\ ~cycle' /\ ~inFlight' /\ retries' = 0
                       /\ stage' = "authority" => stage = "authority"]_vars
  <2> SUFFICES ASSUME RetryInv, RetryInv', Next, ~exists
               PROVE  /\ ~timer' /\ ~cycle' /\ ~inFlight' /\ retries' = 0
                      /\ stage' = "authority" => stage = "authority"
    OBVIOUS
  <2>1. ~timer
    BY DEF RetryInv, Gone
  <2>2. \/ (RendererAnswer \/ AuthorityAnswer) /\ Abandon
        \/ Retire
    BY <2>1 DEF Next, Request, TimerFires, RendererAnswer, AuthorityAnswer, Abandoned,
                ProjectionChanges, Remove
  <2>3. exists' = exists /\ stage' = "none"
    BY <2>2 DEF Abandon, Retire
  <2> QED BY <2>3 DEF RetryInv, Gone
<1> QED BY RetryInit, RetryStep, <1>1, PTL DEF Spec, RemovedStaysDead
=============================================================================
