-------------------------- MODULE RuntimeLifecycle --------------------------
(***************************************************************************)
(* The life of the host processes of one session record                    *)
(* (src/main/sessions/session-registry.ts): activation, readiness, runtime *)
(* failure, retirement, automatic restarts and their crash budget, the     *)
(* move of a session to another worktree, the release of an unused         *)
(* activation visit, and closing.                                          *)
(*                                                                         *)
(* Every one of these is an async function of the main process that waits  *)
(* for a host, a lock or another activation and re-reads the record after  *)
(* each wait.  An action is one turn: from a resumption to the next wait.  *)
(* The continuations of one promise run in the order they were registered, *)
(* before anything else does, and are part of the action that settles it.  *)
(* Lock files are the subject of SessionLocks; here a lock is held or not. *)
(***************************************************************************)
EXTENDS Naturals, Sequences, SequencesExt

CONSTANTS
    None,
    Plans,          \* what may be asked of the session: plans, see below
    MaxAttempts,    \* MAX_AUTOMATIC_RESTART_ATTEMPTS
    MaxHosts        \* bound: processes forked in a run

ASSUME LifecycleAssumption ==
    /\ \A p \in Plans : /\ None \notin p.visits /\ p.hosts \in 0 .. MaxHosts
                          /\ {p.retained, p.moves, p.closes} \subseteq BOOLEAN
    /\ MaxAttempts \in Nat \ {0} /\ MaxHosts \in Nat

Hosts == 1 .. MaxHosts

VARIABLES
    plan,       \* one of Plans: [visits, retained, moves, closes, hosts]
    s,          \* the SessionRecord
    act,        \* the activation that is running (_activating)
    waiting,    \* activations that wait for a retirement, in order
    joined,     \* activations that wait for the running one (_activationDone)
    move,       \* setWorktreeAndRespawn: [phase, host]
    release,    \* releaseActivationVisit: [phase, visit, host]
    close,      \* "no", "graceful", "retire", "unlock", "closed"
    host,       \* the processes
    log         \* history: what each process was for, what it was charged

(***************************************************************************)
(* A behaviour follows one plan: the activation visits the renderer makes, *)
(* whether a failure may leave work to reconcile with the session file     *)
(* (retained), whether the session may be moved to another worktree or     *)
(* closed, and the bound on the processes forked.                          *)
(***************************************************************************)
Visits == plan.visits

vars == <<plan, s, act, waiting, joined, move, release, close, host, log>>

NoAct == [phase |-> "none", host |-> 0, caller |-> None, visit |-> None]
Resting == [phase |-> "none", host |-> 0]
NoRelease == [phase |-> "none", visit |-> None, host |-> 0]

Init ==
    /\ plan \in Plans
    /\ s = [proc |-> 0, ready |-> FALSE, status |-> "cold", avail |-> "unavailable",
            retiring |-> 0, chain |-> FALSE, timer |-> FALSE, attempt |-> "none",
            rapid |-> 0, dead |-> FALSE, closing |-> FALSE, lock |-> FALSE, recon |-> FALSE,
            checkout |-> "old", fence |-> FALSE, visit |-> None, touched |-> FALSE,
            returned |-> FALSE, tombs |-> {}]
    /\ act = NoAct /\ waiting = <<>> /\ joined = {}
    /\ move = Resting /\ release = NoRelease /\ close = "no"
    /\ host = [h \in Hosts |-> "unborn"]
    /\ log = [charged |-> [h \in Hosts |-> 0], cwd |-> [h \in Hosts |-> None],
              visit |-> [h \in Hosts |-> None], used |-> [h \in Hosts |-> FALSE],
              restarts |-> 0, owed |-> FALSE]

Alive(h) == h \in Hosts /\ host[h] \in {"booting", "up", "stopping"}
Spawned == {h \in Hosts : host[h] # "unborn"}

(***************************************************************************)
(* The registry as one value w: everything but the processes.  The helpers *)
(* below are the functions the handlers call, each the value after it.     *)
(***************************************************************************)
World == [s |-> s, act |-> act, waiting |-> waiting, joined |-> joined, move |-> move,
          release |-> release, close |-> close, log |-> log]

Becomes(w) ==
    /\ s' = w.s /\ act' = w.act /\ waiting' = w.waiting /\ joined' = w.joined
    /\ move' = w.move /\ release' = w.release /\ close' = w.close /\ log' = w.log
    /\ UNCHANGED plan

\* accountRapidFailure for a failure of host h (0: it had none).  rapid tells
\* whether the previous failure is within the crash window.
AccountedForever(w, h, rapid) ==   \* bug: the count outgrows the budget
    [w EXCEPT !.s.rapid = @ + 1, !.log.charged = IF h = 0 THEN @ ELSE [w.log.charged EXCEPT ![h] = @ + 1]]
Accounted(w, h, rapid) ==
    LET n == IF rapid THEN w.s.rapid + 1 ELSE 1
    IN  [w EXCEPT !.s.rapid = IF n > MaxAttempts THEN MaxAttempts + 1 ELSE n,
                  !.log.charged = IF h = 0 THEN @ ELSE [w.log.charged EXCEPT ![h] = @ + 1],
                  !.log.restarts = IF rapid THEN @ ELSE 0,
                  !.log.owed = ~w.s.dead /\ n <= MaxAttempts]

\* scheduleAutomaticRestart
ScheduledEarly(w) ==   \* bug: does not wait for the retirement
    IF w.s.dead \/ w.s.rapid > MaxAttempts THEN [w EXCEPT !.s.lock = FALSE]
    ELSE [w EXCEPT !.s.timer = TRUE]
Scheduled(w) ==
    IF w.close = "closed" THEN w
    ELSE IF w.s.retiring # 0 THEN [w EXCEPT !.s.chain = TRUE]
    ELSE IF w.s.rapid > MaxAttempts \/ w.s.dead THEN [w EXCEPT !.s.lock = FALSE]
    ELSE [w EXCEPT !.s.timer = TRUE]

\* The admitted half of activateSession, up to its first wait.
BegunKeepingVisit(w, c, v) ==   \* bug: a restart inherits the visit of its predecessor
    [w EXCEPT !.act = [phase |-> "prepare", host |-> 0, caller |-> c, visit |-> v],
              !.s.visit = IF v = None THEN @ ELSE v,
              !.s.touched = FALSE, !.s.returned = FALSE,
              !.s.status = "starting", !.s.avail = "transitioning", !.log.owed = FALSE]
Begun(w, c, v) ==
    [w EXCEPT !.act = [phase |-> "prepare", host |-> 0, caller |-> c, visit |-> v],
              !.s.visit = v, !.s.touched = FALSE, !.s.returned = FALSE,
              !.s.status = "starting", !.s.avail = "transitioning", !.log.owed = FALSE]

Running(w) == w.s.proc # 0 /\ w.s.status \in {"starting", "ready"}

\* activateSession for caller c where it does not return at once.
EnterAtOnce(w, c, v) ==   \* bug: does not wait for the predecessor to exit
    IF w.act # NoAct THEN [w EXCEPT !.joined = @ \cup {c}]
    ELSE Begun([w EXCEPT !.s.timer = FALSE], c, v)
Enter(w, c, v) ==
    IF w.act # NoAct THEN [w EXCEPT !.joined = @ \cup {c}]
    ELSE IF w.s.retiring # 0
      THEN [w EXCEPT !.s.timer = FALSE, !.waiting = Append(@, [caller |-> c, visit |-> v])]
      ELSE Begun([w EXCEPT !.s.timer = FALSE], c, v)

\* The move restores the previous checkout and activates again; its failure or
\* success ends the move.
RolledBack(w) ==
    LET x == [w EXCEPT !.s.checkout = "old", !.move.phase = "rollback"]
    IN  IF Running(w) /\ w.act = NoAct THEN [x EXCEPT !.move = Resting]
        ELSE Enter(x, "rollback", None)

MoveEnded(w) == [w EXCEPT !.move = Resting]

\* What the caller c of activateSession does with its outcome; h is the
\* process of that activation, rapid as for Accounted.
AutoSettledTwice(w, ok, h, rapid) ==   \* bug: charges a failure the handler charged
    IF w.s.attempt = "none" THEN w
    ELSE IF ok THEN [w EXCEPT !.s.attempt = "none"]
    ELSE Scheduled(Accounted([w EXCEPT !.s.attempt = "none"], h, rapid))
AutoSettledUncharged(w, ok, h, rapid) ==   \* bug: a pre-ready failure is free
    IF w.s.attempt = "none" THEN w
    ELSE IF ok /\ w.s.attempt # "accounted" THEN [w EXCEPT !.s.attempt = "none"]
    ELSE Scheduled([w EXCEPT !.s.attempt = "none", !.log.owed = ~w.s.dead])
AutoSettledForgets(w, ok, h, rapid) ==   \* bug: forgets a failure accounted while ready
    LET x == [w EXCEPT !.s.attempt = "none"]
    IN  IF w.s.attempt = "none" \/ ok \/ w.s.dead \/ w.s.proc # 0 \/ w.act # NoAct THEN x
        ELSE Scheduled(IF w.s.attempt = "accounted" THEN x ELSE Accounted(x, h, rapid))
AutoSettled(w, ok, h, rapid) ==
    LET x == [w EXCEPT !.s.attempt = "none"]
    IN  IF w.s.attempt = "none" THEN w
        ELSE IF ok THEN IF w.s.attempt = "accounted" THEN Scheduled(x) ELSE x
        ELSE IF w.s.dead \/ w.s.proc # 0 \/ w.act # NoAct THEN x
        ELSE Scheduled(IF w.s.attempt = "accounted" THEN x ELSE Accounted(x, h, rapid))
DestinationSettled(w, ok) ==
    IF \/ ok /\ ~w.s.closing /\ ~w.s.dead /\ w.s.avail = "available"
       \/ w.s.closing \/ w.s.dead
      THEN MoveEnded(w)
      ELSE RolledBack(w)

Settled(w, c, ok, h, rapid) ==
    CASE c = "auto" -> AutoSettled(w, ok, h, rapid)
      [] c = "destination" -> DestinationSettled(w, ok)
      [] c = "rollback" -> MoveEnded(w)
      [] OTHER -> w

\* The finally of activateSession: those that joined resolve, then the caller.
Finished(w, ok, rapid) ==
    LET x == [w EXCEPT !.act = NoAct, !.joined = {}]
        J(y, c) == IF c \in w.joined THEN Settled(y, c, TRUE, 0, rapid) ELSE y
    IN  Settled(J(J(J(x, "auto"), "destination"), "rollback"), w.act.caller, ok, w.act.host, rapid)

(***************************************************************************)
(* Activation                                                              *)
(***************************************************************************)

\* A renderer activates the session, with a visit of its own or without one.
\* A visit released before this point is consumed.
Activate(v) ==
    /\ close # "closed" /\ ~s.dead
    /\ v \in Visits => v \notin {log.visit[h] : h \in Spawned} \cup {s.visit}
    /\ \A i \in 1 .. Len(waiting) : waiting[i].caller # "user"
    /\ IF v \in s.tombs THEN Becomes([World EXCEPT !.s.tombs = @ \ {v}])
       ELSE /\ act # NoAct \/ ~Running(World)
            /\ Becomes(Enter([World EXCEPT !.log.restarts = 0], "user", v))
    /\ UNCHANGED host

\* The restart timer fires.
TimerFires ==
    /\ s.timer
    /\ LET w == [World EXCEPT !.s.timer = FALSE]
       IN  IF s.dead \/ s.proc # 0 \/ act # NoAct THEN Becomes(w)
           ELSE Becomes(Enter([w EXCEPT !.s.attempt = "live", !.log.restarts = @ + 1],
                              "auto", None))
    /\ UNCHANGED host

\* The environment, the lock and the executable are there: the host is forked.
\* An unlock that still runs holds the lock directory (see SessionLocks).
Spawn ==
    /\ act.phase = "prepare" /\ ~s.dead
    /\ release.phase # "unlock" /\ close # "unlock"
    /\ \E h \in 1 .. plan.hosts :
         /\ Spawned = 1 .. (h - 1)
         /\ host' = [host EXCEPT ![h] = "booting"]
         /\ Becomes([World EXCEPT !.act.phase = "boot", !.act.host = h, !.s.proc = h,
                                  !.s.lock = TRUE, !.log.cwd[h] = s.checkout,
                                  !.log.visit[h] = act.visit])

\* The record died while the activation waited: it returns without a process.
Withdraw ==
    /\ act.phase = "prepare" /\ s.dead
    /\ Becomes(Finished(World, TRUE, FALSE))
    /\ UNCHANGED host

\* The catch of activateSession once no process is left to wait for: the lock
\* is released, and the activation rejects when that is done.
FailingLocked(w) ==   \* bug: a failed activation keeps the lock
    [w EXCEPT !.act.phase = "unlock", !.s.ready = FALSE, !.s.status = "failed", !.s.visit = None]
Failing(w) ==
    [w EXCEPT !.act.phase = "unlock", !.s.ready = FALSE, !.s.status = "failed",
              !.s.lock = FALSE, !.s.visit = None]

PrepareFails ==
    /\ act.phase = "prepare" /\ ~s.dead
    /\ Becomes(Failing(World))
    /\ UNCHANGED host

\* waitForReady resolves.  With retained work recoverEditorAfterRestart waits for
\* its reconciliation with the session file and patches the new host's editor;
\* then, or at once, the first snapshot is requested.
Readied(w) == [w EXCEPT !.act.phase = "resync", !.s.ready = TRUE, !.s.status = "ready"]
BootReady ==
    /\ act.phase = "boot" /\ host[act.host] = "booting"
    /\ host' = [host EXCEPT ![act.host] = "up"]
    /\ Becomes(IF s.recon THEN [World EXCEPT !.act.phase = "recover"] ELSE Readied(World))

\* waitForReady rejects (an error message, the startup deadline) with the
\* process alive: it is detached and retired first.
BootFails ==
    /\ act.phase = "boot" /\ host[act.host] = "booting" /\ ~s.dead
    /\ host' = [host EXCEPT ![act.host] = "stopping"]
    /\ Becomes([World EXCEPT !.act.phase = "fail", !.s.proc = 0, !.s.retiring = act.host])

\* A process superseded while its activation waited is retired again; the
\* activation resolves when it has exited.
Superseded(w, rapid) ==
    IF w.s.retiring = 0 THEN Finished(w, TRUE, rapid) ELSE [w EXCEPT !.act.phase = "drop"]

Recovered ==
    /\ act.phase = "recover"
    /\ \E rapid \in BOOLEAN :
         Becomes(LET w == [World EXCEPT !.s.recon = FALSE]
                 IN  IF s.dead \/ s.proc # act.host THEN Superseded(w, rapid) ELSE Readied(w))
    /\ UNCHANGED host

\* A patch or a snapshot of the recovery is refused or rejected: the catch of
\* activateSession retires the process if it is still installed, else it waits
\* for whatever is retiring.
RecoveryFails ==
    /\ act.phase = "recover"
    /\ LET stops == s.proc = act.host /\ Alive(act.host) /\ ~s.dead
           w == [World EXCEPT !.s.proc = 0, !.s.retiring = IF stops THEN act.host ELSE @]
       IN  /\ host' = IF stops THEN [host EXCEPT ![act.host] = "stopping"] ELSE host
           /\ \E rapid \in BOOLEAN :
                Becomes(IF s.dead THEN Finished(World, TRUE, rapid)
                        ELSE IF w.s.retiring # 0 THEN [w EXCEPT !.act.phase = "fail"]
                        ELSE Failing(w))

\* The availability a snapshot installs.
SnapshotAvailability(w) == IF w.s.fence THEN "transitioning" ELSE "available"

\* The first resync answers, or fails within its deadline; neither rejects.
Resynced(ok) ==
    /\ act.phase = "resync"
    /\ LET w == [World EXCEPT !.s.avail = IF ok /\ ~s.closing /\ ~s.dead /\ s.proc = act.host
                                            THEN SnapshotAvailability(World) ELSE "unavailable"]
       IN  \E rapid \in BOOLEAN :
             Becomes(IF s.dead \/ s.proc # act.host THEN Superseded(w, rapid)
                     ELSE Finished(w, TRUE, rapid))
    /\ UNCHANGED host

\* The lock is released: the activation rejects.
UnlockedAfterFailure ==
    /\ act.phase = "unlock"
    /\ \E rapid \in BOOLEAN :
         Becomes(Finished([World EXCEPT !.s.avail = "unavailable"], FALSE, rapid))
    /\ UNCHANGED host

(***************************************************************************)
(* Failure and exit                                                        *)
(***************************************************************************)

\* handleRuntimeFailure of the current process h; gone: it has already exited.
DetachLate(w, h, gone, recon) ==   \* bug: the failed process stays installed
    [w EXCEPT !.s.ready = FALSE, !.s.status = "failed", !.s.avail = "unavailable",
              !.s.retiring = IF gone THEN 0 ELSE h, !.s.recon = @ \/ recon]
Detach(w, h, gone, recon) ==
    [w EXCEPT !.s.proc = 0, !.s.ready = FALSE, !.s.status = "failed", !.s.avail = "unavailable",
              !.s.retiring = IF gone THEN 0 ELSE h, !.s.recon = @ \/ recon]
RuntimeFailed(w, h, gone, recon, rapid) ==
    LET x == Accounted(Detach(w, h, gone, recon), h, rapid)
    IN  IF w.s.attempt = "none" THEN Scheduled(x) ELSE [x EXCEPT !.s.attempt = "accounted"]

\* The control channel is silent, or the host reports an error while it runs.
Unresponsive ==
    /\ s.proc # 0 /\ host[s.proc] = "up"
    /\ host' = [host EXCEPT ![s.proc] = "stopping"]
    /\ \E rapid \in BOOLEAN, recon \in {FALSE, plan.retained} :
         Becomes(RuntimeFailed(World, s.proc, FALSE, recon, rapid))

\* The current process disappears.  While it boots its activation fails; while
\* the activation is not past readiness the exit handler does nothing; an
\* activation in its resync sees the request rejected in the same turn.
ExitHandled(w, h, recon, rapid) ==
    CASE w.act.phase = "boot" -> Failing([w EXCEPT !.s.proc = 0])
      [] w.act.phase = "recover" -> w
      [] w.act.phase = "resync" -> Finished(RuntimeFailed(w, h, TRUE, recon, rapid), TRUE, rapid)
      [] OTHER -> RuntimeFailed(w, h, TRUE, recon, rapid)

Crash ==
    /\ s.proc # 0 /\ host[s.proc] \in {"booting", "up"}
    /\ host' = [host EXCEPT ![s.proc] = "gone"]
    /\ \E rapid \in BOOLEAN, recon \in {FALSE, plan.retained} :
         Becomes(ExitHandled(World, s.proc, recon, rapid))

\* The continuations of a retirement, in the order they were registered.  A
\* process stopped while it boots belongs to a dead record: its activation only
\* returns.
AfterChain(w) == IF w.s.chain THEN Scheduled([w EXCEPT !.s.chain = FALSE]) ELSE w
AfterMove(w) ==
    IF w.move.phase # "retire" THEN w
    ELSE LET x == [w EXCEPT !.s.checkout = "new", !.move.phase = "destination"]
         IN  IF w.s.dead THEN MoveEnded(x) ELSE Enter(x, "destination", None)
AfterRelease(w) ==
    IF w.release.phase # "retire" THEN w
    ELSE [w EXCEPT !.release.phase = "unlock", !.s.lock = FALSE]
AfterActivation(w, rapid) ==
    CASE w.act.phase = "fail" -> Failing(w)
      [] w.act.phase \in {"boot", "drop"} -> Finished(w, TRUE, rapid)
      [] w.act.phase = "resync" -> Finished([w EXCEPT !.s.avail = "unavailable"], TRUE, rapid)
      [] OTHER -> w
\* The first waiting activation begins, the rest join it; a dead record's return.
AfterWaiting(w) ==
    IF w.waiting = <<>> \/ w.s.retiring # 0 THEN w
    ELSE IF w.s.dead THEN [w EXCEPT !.waiting = <<>>]
    ELSE LET later == {w.waiting[i].caller : i \in 1 .. Len(w.waiting)}
             first == w.waiting[1]
         IN  IF w.act # NoAct THEN [w EXCEPT !.waiting = <<>>, !.joined = @ \cup later]
             ELSE [Begun(w, first.caller, first.visit)
                     EXCEPT !.waiting = <<>>, !.joined = later \ {first.caller}]
AfterClose(w) ==
    IF w.close # "retire" THEN w ELSE [w EXCEPT !.close = "unlock", !.s.lock = FALSE]

Retired(w, rapid) ==
    AfterClose(AfterWaiting(AfterActivation(AfterRelease(AfterMove(
        AfterChain([w EXCEPT !.s.retiring = 0]))), rapid)))

Exit ==
    \E h \in Hosts :
      /\ host[h] = "stopping" /\ s.retiring = h
      /\ host' = [host EXCEPT ![h] = "gone"]
      /\ \E rapid \in BOOLEAN : Becomes(Retired(World, rapid))

\* A snapshot of the current process, or the loss of its lease, moves availability.
Availability(a) ==
    /\ s.proc # 0 /\ s.ready /\ host[s.proc] = "up" /\ ~s.dead
    /\ Becomes([World EXCEPT !.s.avail = IF a = "lost" THEN "unavailable"
                                         ELSE SnapshotAvailability(World)])
    /\ UNCHANGED host

(***************************************************************************)
(* Moving to another worktree                                              *)
(***************************************************************************)
MoveStart ==
    /\ plan.moves /\ move = Resting /\ s.checkout = "old" /\ close # "closed"
    /\ ~s.closing /\ ~s.dead /\ s.avail = "available" /\ s.ready
    /\ Becomes([World EXCEPT !.move = [phase |-> "admit", host |-> s.proc], !.s.fence = TRUE,
                             !.s.avail = "transitioning",
                             !.s.touched = s.visit # None])
    /\ UNCHANGED host

\* A permit, a probe or a source check refuses before the detachment.
MoveRefused ==
    /\ move.phase = "admit"
    /\ IF s.proc = move.host /\ ~s.dead
         THEN Becomes([World EXCEPT !.move = Resting, !.s.fence = FALSE,
                         !.s.avail = IF ~s.closing /\ s.ready /\ @ = "transitioning"
                                       THEN "available" ELSE @])
         ELSE Becomes(MoveEnded(World))
    /\ UNCHANGED host

MoveDetach ==
    /\ move.phase = "admit" /\ s.proc = move.host /\ s.ready
    /\ ~s.closing /\ ~s.dead /\ s.avail \in {"available", "transitioning"}
    /\ host' = [host EXCEPT ![s.proc] = IF @ = "gone" THEN @ ELSE "stopping"]
    /\ LET w == [World EXCEPT !.s.fence = FALSE, !.s.proc = 0, !.s.ready = FALSE,
                              !.s.retiring = s.proc, !.move.phase = "retire"]
       IN  \E rapid \in BOOLEAN :
             Becomes(IF host[s.proc] = "gone" THEN Retired(w, rapid) ELSE w)

(***************************************************************************)
(* Releasing an unused visit                                               *)
(***************************************************************************)

\* Anything the user does with the session marks its visit and its process.
Interact ==
    /\ s.proc # 0 \/ act # NoAct
    /\ Becomes([World EXCEPT !.s.touched = s.visit # None,
                             !.log.used = IF s.proc = 0 THEN @ ELSE [log.used EXCEPT ![s.proc] = TRUE]])
    /\ UNCHANGED host

\* cancelActivationVisitRelease: the user came back.
Return ==
    /\ s.visit # None /\ ~s.returned
    /\ Becomes([World EXCEPT !.s.returned = TRUE])
    /\ UNCHANGED host

Abandoned(w) ==
    IF w.s.visit = w.release.visit
      THEN [w EXCEPT !.release = NoRelease, !.s.visit = None, !.s.touched = FALSE,
                     !.s.returned = FALSE]
      ELSE [w EXCEPT !.release = NoRelease]

\* The switch away asks for the release; before the activation it leaves a mark.
Release(v) ==
    /\ release = NoRelease /\ close # "closed"
    /\ IF s.visit = v
         THEN LET w == [World EXCEPT !.release = [phase |-> "wait", visit |-> v, host |-> 0]]
              IN  Becomes(w) \/ Becomes(Abandoned(w))   \* too late: the window has passed
         ELSE /\ s.proc = 0 /\ act = NoAct /\ s.status = "cold"
              /\ v \notin {log.visit[h] : h \in Spawned}
              /\ Becomes([World EXCEPT !.s.tombs = @ \cup {v}])
    /\ UNCHANGED host

TombExpires(v) ==
    /\ v \in s.tombs
    /\ Becomes([World EXCEPT !.s.tombs = @ \ {v}])
    /\ UNCHANGED host

StillUnused(w) == w.s.visit = w.release.visit /\ ~w.s.returned /\ ~w.s.touched

\* No activation runs (any more): is there a ready, available process to probe?
ReleaseProbes ==
    /\ release.phase = "wait" /\ act = NoAct
    /\ IF /\ close # "closed" /\ StillUnused(World)
          /\ s.proc # 0 /\ s.ready /\ s.status = "ready" /\ s.avail = "available"
         THEN Becomes([World EXCEPT !.release.phase = "probe", !.release.host = s.proc])
         ELSE Becomes(Abandoned(World))
    /\ UNCHANGED host

\* The probe answers; the child is asked for its permit.
ReleaseAdmits ==
    /\ release.phase = "probe" /\ host[release.host] = "up"
    /\ IF close # "closed" /\ s.proc = release.host /\ StillUnused(World)
         THEN Becomes([World EXCEPT !.release.phase = "permit",
                                    !.s.avail = SnapshotAvailability(World)])
         ELSE Becomes(Abandoned(World))
    /\ UNCHANGED host

\* A probe, a permit or a deadline refuses.
ReleaseRefused ==
    /\ release.phase \in {"probe", "permit"}
    /\ Becomes(Abandoned(World))
    /\ UNCHANGED host

\* The permit allows: the process is detached, unless the visit was touched.
ReleasableOnceIdle(w) ==   \* bug: trusts the look taken before the permit
    ~w.s.closing /\ ~w.s.dead /\ w.move = Resting
Releasable(w) == ~w.s.closing /\ ~w.s.dead /\ w.move = Resting
                 /\ ~w.s.returned /\ ~w.s.touched
ReleaseDetach ==
    /\ release.phase = "permit" /\ host[release.host] = "up"
    /\ IF Releasable(World)
         THEN /\ host' = [host EXCEPT ![release.host] = "stopping"]
              /\ Becomes([World EXCEPT !.release.phase = "retire", !.s.visit = None,
                                       !.s.proc = 0, !.s.ready = FALSE,
                                       !.s.retiring = release.host])
         ELSE Becomes(Abandoned(World)) /\ UNCHANGED host

\* The lock is released: the record is cold again.
ReleaseDone ==
    /\ release.phase = "unlock"
    /\ Becomes([World EXCEPT !.release = NoRelease, !.s.status = "cold", !.s.avail = "unavailable"])
    /\ UNCHANGED host

(***************************************************************************)
(* Closing                                                                 *)
(***************************************************************************)

\* closeSessionGracefully fences the record, then tries a polite shutdown.
CloseStart ==
    /\ plan.closes /\ close = "no"
    /\ Becomes([World EXCEPT !.s.closing = TRUE, !.close = "graceful"])
    /\ UNCHANGED host

\* closeSession: nothing may start any more; what runs is retired.
CloseForgets(w) ==   \* bug: the restart timer and its attempt survive
    [w EXCEPT !.s.proc = 0]
CloseFences(w) ==
    [w EXCEPT !.s.dead = TRUE, !.s.timer = FALSE, !.s.attempt = "none", !.s.proc = 0,
              !.log.owed = FALSE]
CloseSession ==
    /\ close = "graceful"
    /\ LET running == s.proc # 0 /\ Alive(s.proc)
           w == [CloseFences(World) EXCEPT !.s.retiring = IF running THEN s.proc ELSE @]
       IN  /\ host' = IF running THEN [host EXCEPT ![s.proc] = "stopping"] ELSE host
           /\ Becomes(IF w.s.retiring # 0 THEN [w EXCEPT !.close = "retire"]
                      ELSE [w EXCEPT !.close = "unlock", !.s.lock = FALSE])

\* The lock is released: the record is forgotten.
CloseDone ==
    /\ close = "unlock"
    /\ Becomes([World EXCEPT !.close = "closed"])
    /\ UNCHANGED host

Finish ==
    /\ close = "closed" /\ act = NoAct
    /\ UNCHANGED vars

Settle ==
    \/ Spawn \/ Withdraw \/ PrepareFails \/ BootReady \/ BootFails \/ Recovered \/ RecoveryFails
    \/ \E ok \in BOOLEAN : Resynced(ok)
    \/ UnlockedAfterFailure

Next ==
    \/ \E v \in Visits \cup {None} : Activate(v)
    \/ TimerFires \/ Settle \/ Unresponsive \/ Crash \/ Exit
    \/ \E a \in {"snapshot", "lost"} : Availability(a)
    \/ MoveStart \/ MoveRefused \/ MoveDetach
    \/ Interact \/ Return
    \/ \E v \in Visits : Release(v) \/ TombExpires(v)
    \/ ReleaseProbes \/ ReleaseAdmits \/ ReleaseRefused \/ ReleaseDetach \/ ReleaseDone
    \/ CloseStart \/ CloseSession \/ CloseDone \/ Finish

(***************************************************************************)
(* Every wait of an activation is bounded (env and lock calls return, the  *)
(* startup and request deadlines fire), a stopped process is killed in the *)
(* end, timers fire, and every request of a move, a release or a close has *)
(* a deadline.  Only plans without visits or work to reconcile are asked   *)
(* for liveness, and only their steps need be fair.                        *)
(***************************************************************************)
Plain == ~plan.retained /\ Visits = {}

Fairness ==
    /\ WF_vars(Plain /\ Settle) /\ WF_vars(Plain /\ Exit) /\ WF_vars(Plain /\ TimerFires)
    /\ WF_vars(Plain /\ MoveRefused)
    /\ WF_vars(Plain /\ CloseSession) /\ WF_vars(Plain /\ CloseDone)

Spec == Init /\ [][Next]_vars /\ Fairness

(***************************************************************************)
(* Properties                                                              *)
(***************************************************************************)
Callers == {"user", "auto", "destination", "rollback"}

\* Types of the record, the running activation and the processes.
TypeOK ==
    /\ s.proc \in 0 .. MaxHosts /\ s.retiring \in 0 .. MaxHosts
    /\ s.status \in {"cold", "starting", "ready", "failed"}
    /\ s.avail \in {"unavailable", "transitioning", "available"}
    /\ s.attempt \in {"none", "live", "accounted"} /\ s.rapid \in 0 .. MaxAttempts + 1
    /\ {s.ready, s.chain, s.timer, s.dead, s.closing, s.lock, s.recon, s.fence} \subseteq BOOLEAN
    /\ s.checkout \in {"old", "new"} /\ s.visit \in Visits \cup {None} /\ s.tombs \subseteq Visits
    /\ act.phase \in {"none", "prepare", "boot", "recover", "resync", "drop", "fail", "unlock"}
    /\ joined \subseteq Callers
    /\ move.phase \in {"none", "admit", "retire", "destination", "rollback"}
    /\ release.phase \in {"none", "wait", "probe", "permit", "retire", "unlock"}
    /\ close \in {"no", "graceful", "retire", "unlock", "closed"}
    /\ host \in [Hosts -> {"unborn", "booting", "up", "stopping", "gone"}]

\* Two processes never own one session: a successor is forked only when every
\* predecessor has exited, whoever asked for it.
NoOverlap == \A g, h \in Hosts : Alive(g) /\ Alive(h) => g = h

\* As long as a process of the session runs, retiring ones included, the
\* session holds its lock.
LockOutlivesHost == \A h \in Hosts : Alive(h) => s.lock

\* A session that runs nothing, will start nothing on its own and is not being
\* closed holds no lock another window would have to wait for.  (After a reconciliation a retry may
\* be lost, and the lock kept for it: see RetryServed.)
NoIdleLock ==
    s.lock /\ ~plan.retained =>
        \/ s.proc # 0 \/ s.retiring # 0 \/ act # NoAct \/ s.timer \/ s.attempt # "none"
        \/ waiting # <<>> \/ release.phase # "none" \/ close \in {"graceful", "retire"}

\* One physical failure is charged to the crash budget at most once.
ChargedOnce == \A h \in Hosts : log.charged[h] <= 1

\* Left alone, a session that keeps failing rapidly is restarted MaxAttempts
\* times; a timer armed before the last failure can add one.
CrashLoopBounded == log.restarts <= MaxAttempts + 1

\* Outside an activation an installed process is alive, ready and shown ready,
\* unless its activation had to wait for a reconciliation: the exit of the
\* process is ignored in that wait.
NoDeadAuthority ==
    ~plan.retained /\ s.proc # 0 /\ act = NoAct => host[s.proc] = "up" /\ s.ready /\ s.status = "ready"

\* A visit owns only the process its own activation forked.
VisitOwnsItsHost == s.visit # None /\ s.proc # 0 => log.visit[s.proc] = s.visit

\* A release stops only the process of its own visit, and never one the user
\* has touched since it was forked.
ReleaseSparesUsed ==
    [][release.phase = "permit" /\ release'.phase = "retire" =>
         /\ release.host = s.proc /\ log.visit[s.proc] = release.visit
         /\ ~log.used[s.proc]]_vars

\* A closed session has no process, no lock and no timer, and none comes back.
ClosedStaysEmpty ==
    close = "closed" => /\ \A h \in Hosts : ~Alive(h)
                        /\ ~s.lock /\ ~s.timer /\ act.phase # "boot"

\* A failure that left budget is followed by another activation, unless the
\* session closes: no retry is lost between the timer and the activations.  (After a
\* reconciliation the timer may find the old activation still at work.)
RetryServed == log.owed /\ Plain ~> ~log.owed

\* One live process under one lock, shown for what it is, and nothing of either
\* after the close, whichever way activations, failures, moves, releases and
\* the close interleave.
OneLockedHost ==
    /\ TypeOK /\ NoOverlap /\ LockOutlivesHost /\ NoIdleLock
    /\ NoDeadAuthority /\ ClosedStaysEmpty

\* Failures are counted once each, and a session that keeps failing is given up.
CrashBudget == ChargedOnce /\ CrashLoopBounded

\* The release of a visit touches only what the visit brought up and nobody used.
VisitsSpareOthers == []VisitOwnsItsHost /\ ReleaseSparesUsed
=============================================================================
