---------------------------- MODULE SessionLocks ----------------------------
(***************************************************************************)
(* Who owns a session file.  The registry of src/main/sessions/            *)
(* session-registry.ts gives every live session record a primary advisory  *)
(* lock on its file; a replacement (new, fork, clone, switch, reload)      *)
(* reserves the successor's file first and moves ownership in one commit.  *)
(* Every lock and unlock is asynchronous: a permit can be lost, a host can *)
(* fail, a record can close or be dropped while the file system works.     *)
(*                                                                         *)
(* proper-lockfile is external.  It is modelled from how the registry uses *)
(* it: dir[f] is the lock directory on disk, watched[f] the entry of the   *)
(* library's own table (who acquired it, in what role), which it consults  *)
(* on unlock BY PATH ALONE, and leaving[f] an unlock whose directory is    *)
(* not yet removed.                                                        *)
(***************************************************************************)
EXTENDS Naturals, FiniteSets

CONSTANTS
    Records,        \* session records of this main process
    Files,          \* resolved session file paths
    None,           \* undefined
    Openings,       \* Openings[r]: the files record r may be opened with; None: a new session
    Targets,        \* Targets[r]: the files r's host may be replaced onto
    KnownTarget,    \* TRUE: some replacements name their file at prepare (switch)
    ReopenFailed,   \* TRUE: a failed record's file may be opened again
    Rivals,         \* TRUE: another Pi-Vis instance competes for the files
    MaxTokens, MaxHosts, MaxTransitions   \* bounds of the counters

Roles == {"primary", "initial", "successor"}

\* Who acquired a lock, and a reservation for a transition (_transitionLock).
Identities == [r : Records, role : Roles, tid : 0..MaxTransitions, token : 1..MaxTokens]
Reservations ==
    [tid : 0..MaxTransitions, old : Files \cup {None}, target : Files \cup {None},
     locked : BOOLEAN, token : 0..MaxTokens]

ASSUME LocksAssumption ==
    /\ None \notin Files \cup Records \cup Identities \cup Reservations
    /\ Openings \in [Records -> SUBSET (Files \cup {None})]
    /\ Targets \in [Records -> SUBSET Files]
    /\ {KnownTarget, ReopenFailed, Rivals} \subseteq BOOLEAN
    /\ {MaxTokens, MaxHosts, MaxTransitions} \subseteq Nat

VARIABLES
    rec,        \* the fields of each SessionRecord this protocol reads
    byFile,     \* the routing map: file -> record
    ops,        \* lock acquisitions in flight (_lockSettlements)
    dir,        \* disk: "free", "ours", or "rival"
    watched,    \* proper-lockfile's table: file -> [r, role, tid, token]
    leaving,    \* file -> the record whose unlock awaits the removal
    late,       \* file -> the last identity released for it
    tokens      \* callback tokens issued so far

vars == <<rec, byFile, ops, dir, watched, leaving, late, tokens>>

NewRecord(f) ==
    [known |-> "open", status |-> "cold", file |-> f, hasLock |-> FALSE, lockPath |-> None,
     token |-> 0, tlock |-> None, trans |-> 0, tid |-> 0, dead |-> FALSE, comp |-> FALSE,
     proc |-> 0, hosts |-> 0, ready |-> FALSE, phase |-> "idle", retiring |-> FALSE,
     restart |-> FALSE, close |-> "no", reserved |-> FALSE, step |-> "idle", target |-> None]

Init ==
    /\ rec = [r \in Records |-> [NewRecord(None) EXCEPT !.known = "unopened"]]
    /\ byFile = [f \in Files |-> None]
    /\ ops = {}
    /\ dir = [f \in Files |-> "free"]
    /\ watched = [f \in Files |-> None]
    /\ leaving = [f \in Files |-> None]
    /\ late = [f \in Files |-> None]
    /\ tokens = 0

(***************************************************************************)
(* proper-lockfile                                                         *)
(***************************************************************************)

\* unlockPath of the paths U by record r: the library forgets each path it
\* watches and starts to remove its directory; a path it does not watch is a
\* swallowed error.  Nothing asks whose acquisition is being undone.
UnlockListed(r, U, listed) ==
    LET V == {f \in U \cap Files : listed[f] # None}
    IN  /\ watched' = [f \in Files |-> IF f \in V THEN None ELSE listed[f]]
        /\ leaving' = [f \in Files |-> IF f \in V THEN r ELSE leaving[f]]
        /\ late' = [f \in Files |-> IF f \in V THEN listed[f] ELSE late[f]]
UnlockPaths(r, U) == UnlockListed(r, U, watched)

DiskUnchanged == UNCHANGED <<dir, watched, leaving, late, tokens>>

DirRemoved(f) ==
    /\ leaving[f] # None
    /\ leaving' = [leaving EXCEPT ![f] = None]
    /\ dir' = [dir EXCEPT ![f] = "free"]
    /\ UNCHANGED <<rec, byFile, ops, watched, late, tokens>>

\* lockPath issues the mkdir; the acquisition then waits for the disk.
Acquisition(r, role, f, tid) ==
    [r |-> r, role |-> role, path |-> f, tid |-> tid, host |-> rec[r].proc, stage |-> "mkdir"]

\* Bound: acquisitions that may still be started.
MayAcquire == tokens + Cardinality(ops) < MaxTokens

\* The mkdir succeeded: the directory exists, the library does not list it yet.
MkdirDone(o) ==
    /\ o \in ops /\ o.stage = "mkdir"
    /\ dir[o.path] = "free"
    /\ dir' = [dir EXCEPT ![o.path] = "ours"]
    /\ ops' = (ops \ {o}) \cup {[o EXCEPT !.stage = "probe"]}
    /\ UNCHANGED <<rec, byFile, watched, leaving, late, tokens>>

Identity(o) == [r |-> o.r, role |-> o.role, tid |-> o.tid, token |-> tokens + 1]

\* The library lists the lock and the registry's re-check passes.
Listed(o) ==
    /\ tokens' = tokens + 1
    /\ watched' = [watched EXCEPT ![o.path] = Identity(o)]
    /\ UNCHANGED <<dir, leaving, late>>

\* The re-check fails: the compensating unlock starts in the same turn.
ListedThenUnlocked(o) ==
    /\ tokens' = tokens + 1
    /\ late' = [late EXCEPT ![o.path] = Identity(o)]
    /\ leaving' = [leaving EXCEPT ![o.path] = o.r]
    /\ UNCHANGED <<dir, watched>>

(***************************************************************************)
(* Fragments of the registry                                               *)
(***************************************************************************)

\* What releaseLock forgets synchronously, and the paths it then unlocks.
ReleasedFlag(x) == [x EXCEPT !.hasLock = FALSE]   \* bug: clears the boolean alone
Released(x) ==
    [x EXCEPT !.hasLock = FALSE, !.lockPath = None, !.token = 0, !.tlock = None,
              !.reserved = FALSE]
ReleasedPaths(x) == {x.lockPath} \cup (IF x.tlock = None THEN {} ELSE {x.tlock.target})

\* What abortTransitionLock unlocks for transition tid, and the record after it.
AbortedAny(x, tid) ==   \* bug: does not spare the lock the transition started from
    IF x.tlock # None /\ x.tlock.tid = tid THEN {x.tlock.target} ELSE {}
AbortedPaths(x, tid) ==
    IF x.tlock # None /\ x.tlock.tid = tid /\ x.tlock.target # x.tlock.old
      THEN {x.tlock.target} ELSE {}
Aborted(x, tid) ==
    IF x.tlock # None /\ x.tlock.tid = tid THEN [x EXCEPT !.tlock = None] ELSE x

\* The detach every failure performs before the host is stopped
\* (handleRuntimeFailure); its restart is considered once the host has exited.
DetachedLate(x) ==   \* bug: leaves the host installed
    [x EXCEPT !.ready = FALSE, !.retiring = TRUE, !.status = "failed", !.restart = TRUE]
Detached(x) ==
    [x EXCEPT !.proc = 0, !.ready = FALSE, !.retiring = TRUE, !.status = "failed",
              !.restart = TRUE, !.step = "idle", !.target = None]

Live(r) == rec[r].known = "open"

(***************************************************************************)
(* Records                                                                 *)
(***************************************************************************)

\* openSession.  A file routed to a failed record is taken from it: the old
\* record leaves the maps, whatever it holds.
OpenSession(r) == \E f \in Openings[r] :
    LET prior == IF f = None THEN None ELSE byFile[f]
    IN  /\ rec[r].known = "unopened"
        /\ prior # None => ReopenFailed /\ rec[prior].status = "failed"
        /\ rec' = [x \in Records |->
                     IF x = r THEN NewRecord(f)
                     ELSE IF x = prior THEN [rec[x] EXCEPT !.known = "dropped"]
                     ELSE rec[x]]
        /\ byFile' = IF f = None THEN byFile ELSE [byFile EXCEPT ![f] = r]
        /\ UNCHANGED ops /\ DiskUnchanged

\* activateSession up to its first lock: waits for a retiring host, disarms
\* the restart timer, locks the known file or goes on to spawn.
Activate(r) ==
    LET x == rec[r]
        started == [x EXCEPT !.status = "starting", !.restart = FALSE]
    IN  /\ Live(r) /\ ~x.dead /\ ~x.comp /\ x.phase = "idle" /\ x.proc = 0
        /\ ~x.retiring /\ x.hosts < MaxHosts
        /\ IF x.file # None /\ ~x.hasLock
             THEN /\ MayAcquire
                  /\ rec' = [rec EXCEPT ![r] = [started EXCEPT !.phase = "locking"]]
                  /\ ops' = ops \cup {Acquisition(r, "primary", x.file, 0)}
             ELSE /\ rec' = [rec EXCEPT ![r] = [started EXCEPT !.phase = "starting",
                                                  !.hosts = @ + 1, !.proc = x.hosts + 1]]
                  /\ UNCHANGED ops
        /\ UNCHANGED byFile /\ DiskUnchanged

\* The rest of acquireLock: record the identity and spawn, or undo.
PrimaryLocked(o) ==
    LET r == o.r
    IN  /\ o \in ops /\ o.stage = "probe" /\ o.role = "primary"
        /\ ops' = ops \ {o}
        /\ IF rec[r].dead \/ rec[r].comp
             THEN /\ ListedThenUnlocked(o)
                  /\ rec' = [rec EXCEPT ![r].phase = "idle"]
             ELSE /\ Listed(o)
                  /\ rec' = [rec EXCEPT ![r] =
                       [rec[r] EXCEPT !.hasLock = TRUE, !.lockPath = o.path,
                                      !.token = tokens + 1, !.phase = "starting",
                                      !.hosts = @ + 1, !.proc = rec[r].hosts + 1]]
        /\ UNCHANGED byFile

\* Contention: mkdir found the directory.  The activation fails and, unless the
\* record is dead, releases whatever it still owns.
PrimaryDenied(o) ==
    LET r == o.r
        x == rec[r]
    IN  /\ o \in ops /\ o.stage = "mkdir" /\ o.role = "primary"
        /\ dir[o.path] # "free"
        /\ ops' = ops \ {o}
        /\ rec' = [rec EXCEPT ![r] =
             IF x.dead THEN [x EXCEPT !.phase = "idle", !.hasLock = FALSE]
             ELSE [Released(x) EXCEPT !.phase = "idle", !.status = "failed"]]
        /\ UnlockPaths(r, IF x.dead THEN {} ELSE ReleasedPaths(x))
        /\ UNCHANGED <<byFile, dir, tokens>>

\* permitInitialSessionFile, requested by a pathless session's starting host.
InitialSessionFile(r, f) ==
    LET x == rec[r]
    IN  /\ Live(r) /\ ~x.dead /\ x.proc # 0 /\ ~x.ready /\ x.phase = "starting"
        /\ x.file = None /\ ~x.reserved
        /\ f \in Targets[r] /\ MayAcquire
        /\ rec' = [rec EXCEPT ![r].reserved = TRUE]
        /\ ops' = IF byFile[f] \in {None, r}
                    THEN ops \cup {Acquisition(r, "initial", f, 0)} ELSE ops
        /\ UNCHANGED byFile /\ DiskUnchanged

InitialLocked(o) ==
    LET r == o.r
        x == rec[r]
        current == Live(r) /\ x.proc = o.host /\ ~x.dead
    IN  /\ o \in ops /\ o.stage = "probe" /\ o.role = "initial"
        /\ ops' = ops \ {o}
        /\ IF current
             THEN /\ Listed(o)
                  /\ rec' = [rec EXCEPT ![r] = [x EXCEPT !.hasLock = TRUE, !.lockPath = o.path,
                                                  !.token = tokens + 1, !.file = o.path]]
                  /\ byFile' = [byFile EXCEPT ![o.path] = r]
             ELSE ListedThenUnlocked(o) /\ UNCHANGED <<rec, byFile>>

InitialDenied(o) ==
    /\ o \in ops /\ o.stage = "mkdir" /\ o.role = "initial"
    /\ dir[o.path] # "free"
    /\ ops' = ops \ {o}
    /\ UNCHANGED <<rec, byFile>> /\ DiskUnchanged

\* activateSession's happy end.
HostReady(r) ==
    /\ rec[r].phase = "starting" /\ rec[r].proc # 0 /\ ~rec[r].dead
    /\ rec[r].reserved => rec[r].hasLock
    /\ rec' = [rec EXCEPT ![r].phase = "idle", ![r].ready = TRUE, ![r].status = "ready"]
    /\ UNCHANGED <<byFile, ops>> /\ DiskUnchanged

\* A host that dies before ready: activateSession's catch detaches it, waits
\* for its exit (phase "failing") and only then releases the lock.
StartFails(r) ==
    /\ rec[r].phase = "starting" /\ rec[r].proc # 0 /\ ~rec[r].dead
    /\ rec' = [rec EXCEPT ![r].phase = "failing", ![r].proc = 0, ![r].retiring = TRUE]
    /\ UNCHANGED <<byFile, ops>> /\ DiskUnchanged

\* A ready host fails, or is retired by an explicit failure
\* (handleRuntimeFailure): the transition's reservation is aborted first.
RuntimeFailure(r) ==
    LET x == rec[r]
    IN  /\ Live(r) /\ ~x.dead /\ x.proc # 0 /\ x.ready
        /\ UnlockPaths(r, AbortedPaths(x, x.trans))
        /\ rec' = [rec EXCEPT ![r] = Detached(Aborted(x, x.trans))]
        /\ UNCHANGED <<byFile, ops, dir, tokens>>

\* The host has exited.  A failed activation releases its lock; a failed runtime
\* arms its restart timer or, over budget or dead, releases its lock
\* (scheduleAutomaticRestart, which first asks whether the record is routed).
HostExited(r) ==
    LET x == [rec[r] EXCEPT !.retiring = FALSE]
    IN  /\ rec[r].retiring
        /\ \E giveUp \in BOOLEAN :
             LET releases == \/ x.phase = "failing"
                             \/ x.restart /\ Live(r) /\ (giveUp \/ x.dead)
                 y == IF releases THEN Released(x) ELSE x
             IN  /\ UnlockPaths(r, IF releases THEN ReleasedPaths(x) ELSE {})
                 /\ rec' = [rec EXCEPT ![r] =
                      [y EXCEPT !.status = IF x.phase = "failing" THEN "failed" ELSE @,
                                !.phase = IF @ = "failing" THEN "idle" ELSE @,
                                !.restart = @ /\ Live(r) /\ ~releases]]
        /\ UNCHANGED <<byFile, ops, dir, tokens>>

\* closeSession: dead at once; the maps and the lock wait for the host's exit
\* and for every lock operation already in flight.
CloseSession(r) ==
    LET x == rec[r]
    IN  /\ Live(r) /\ x.close = "no"
        /\ rec' = [rec EXCEPT ![r] =
             [x EXCEPT !.dead = TRUE, !.close = "waiting", !.proc = 0, !.retiring = @ \/ x.proc # 0,
                       !.step = "idle", !.target = None, !.ready = FALSE,
                       !.phase = IF @ = "starting" THEN "idle" ELSE @]]
        /\ UNCHANGED <<byFile, ops>> /\ DiskUnchanged

SettledHost(r) == ~rec[r].retiring   \* bug: does not join the acquisitions
SettledLock(r) ==   \* bug: waits for the lock it is itself to release
    /\ ~rec[r].retiring /\ ~rec[r].hasLock
    /\ \A o \in ops : o.r # r
Settled(r) ==
    /\ ~rec[r].retiring
    /\ \A o \in ops : o.r # r
    /\ \A f \in Files : leaving[f] # r

CloseReleases(r) ==
    /\ rec[r].close = "waiting" /\ Settled(r)
    /\ UnlockPaths(r, ReleasedPaths(rec[r]))
    /\ rec' = [rec EXCEPT ![r] = [Released(rec[r]) EXCEPT !.close = "released"]]
    /\ UNCHANGED <<byFile, ops, dir, tokens>>

CloseDone(r) ==
    /\ Live(r) /\ rec[r].close = "released" /\ Settled(r)
    /\ rec' = [rec EXCEPT ![r].known = "closed"]
    /\ byFile' = [f \in Files |->
                    IF f = rec[r].file /\ byFile[f] = r THEN None ELSE byFile[f]]
    /\ UNCHANGED ops /\ DiskUnchanged

(***************************************************************************)
(* Replacement: the child's runReplacement against the registry's permits. *)
(* rec[r].step is where the child stands: "prepare" and "successor" await  *)
(* a permit, "run" is the SDK's own work, "denied" must roll back,         *)
(* "refused" and "lost" can only retire the host, "commit" publishes.      *)
(***************************************************************************)
Permitted(r, tid) ==
    LET x == rec[r]
    IN  Live(r) /\ ~x.dead /\ ~x.comp /\ x.proc # 0 /\ x.ready /\ x.trans = tid

Answered(step, allowed) ==
    IF step = "prepare" THEN (IF allowed THEN "run" ELSE "denied")
                        ELSE (IF allowed THEN "commit" ELSE "refused")

\* One permitTransition for target f (None: prepare without a file) at step s.
PermitTransition(r, s, f) ==
    LET x == rec[r]
        lock == IF x.tlock # None THEN x.tlock
                ELSE [tid |-> x.tid, old |-> x.lockPath, target |-> None,
                      locked |-> FALSE, token |-> 0]
        named == [lock EXCEPT !.target = f]
        occupied == f # None /\ byFile[f] \notin {None, r}
        moved == lock.target # None /\ lock.target # f
        own == f # None /\ f = x.lockPath /\ x.hasLock
        Reply(l, allowed) == [rec EXCEPT ![r] =
             [x EXCEPT !.tlock = l, !.step = Answered(s, allowed), !.target = f]]
    IN  /\ Permitted(r, x.tid)
        /\ IF f = None THEN /\ rec' = Reply(lock, s = "prepare")
                            /\ UNCHANGED ops
           ELSE IF occupied \/ moved THEN rec' = Reply(lock, FALSE) /\ UNCHANGED ops
           ELSE IF own THEN rec' = Reply([named EXCEPT !.locked = TRUE], TRUE)
                            /\ UNCHANGED ops
           ELSE /\ MayAcquire
                /\ rec' = [rec EXCEPT ![r] =
                             [x EXCEPT !.tlock = named, !.step = s, !.target = f]]
                /\ ops' = ops \cup {Acquisition(r, "successor", f, x.tid)}

\* beginTransition announces the transition, then the child asks for its
\* prepare permit; only a switch can name its file by then.
BeginTransition(r) ==
    LET x == rec[r]
    IN  /\ Live(r) /\ ~x.dead /\ x.ready /\ x.step = "idle"
        /\ x.tid < MaxTransitions
        /\ rec' = [rec EXCEPT ![r] = [x EXCEPT !.tid = @ + 1, !.trans = x.tid + 1,
                                               !.step = "asks"]]
        /\ UNCHANGED <<byFile, ops>> /\ DiskUnchanged

Prepare(r) ==
    /\ rec[r].step = "asks"
    /\ \E f \in {None} \cup (IF KnownTarget THEN Targets[r] ELSE {}) :
         PermitTransition(r, "prepare", f)
    /\ UNCHANGED byFile /\ DiskUnchanged

\* The SDK has replaced the session and its file is known: the second permit.
Successor(r) ==
    LET x == rec[r]
    IN  /\ x.step = "run"
        /\ \E f \in IF x.target # None THEN {x.target}
                    ELSE Targets[r] \cup ({x.lockPath} \ {None}) :
             PermitTransition(r, "successor", f)
        /\ UNCHANGED byFile /\ DiskUnchanged

\* The identity check after the lock library answered: this reservation must
\* still be the record's transition lock.
StillAlive(o) == ~rec[o.r].dead /\ ~rec[o.r].comp   \* bug: any transition will do
                 /\ rec[o.r].tlock # None
StillReserved(o) ==
    LET x == rec[o.r]
    IN  ~x.dead /\ ~x.comp /\ x.tlock # None /\ x.tlock.tid = o.tid

AnswerChild(o, x, allowed) ==
    IF x.tid = o.tid /\ x.step \in {"prepare", "successor"}
      THEN [x EXCEPT !.step = Answered(x.step, allowed)] ELSE x

SuccessorLocked(o) ==
    LET r == o.r
        x == rec[r]
    IN  /\ o \in ops /\ o.stage = "probe" /\ o.role = "successor"
        /\ ops' = ops \ {o}
        /\ IF StillReserved(o)
             THEN /\ Listed(o)
                  /\ rec' = [rec EXCEPT ![r] = AnswerChild(o,
                       [x EXCEPT !.tlock.locked = TRUE, !.tlock.token = tokens + 1], TRUE)]
             ELSE /\ ListedThenUnlocked(o)
                  /\ rec' = [rec EXCEPT ![r] = AnswerChild(o, x, FALSE)]
        /\ UNCHANGED byFile

SuccessorDenied(o) ==
    /\ o \in ops /\ o.stage = "mkdir" /\ o.role = "successor"
    /\ dir[o.path] # "free"
    /\ ops' = ops \ {o}
    /\ rec' = [rec EXCEPT ![o.r] = AnswerChild(o, rec[o.r], FALSE)]
    /\ UNCHANGED byFile /\ DiskUnchanged

\* The child gives up waiting for a permit ("transition permit lost", 5 s).
PermitLost(r) ==
    /\ rec[r].step \in {"prepare", "successor"}
    /\ rec' = [rec EXCEPT ![r].step = IF @ = "prepare" THEN "denied" ELSE "lost"]
    /\ UNCHANGED <<byFile, ops>> /\ DiskUnchanged

\* transition_cancelled: a denied prepare, or the SDK declining the operation.
TransitionCancelled(r) ==
    LET x == rec[r]
    IN  /\ x.step \in {"denied", "run"}
        /\ UnlockPaths(r, AbortedPaths(x, x.trans))
        /\ rec' = [rec EXCEPT ![r] =
             [Aborted(x, x.trans) EXCEPT !.trans = 0, !.step = "idle", !.target = None]]
        /\ UNCHANGED <<byFile, ops, dir, tokens>>

\* fatal_transition_error: the host reports the error and is stopped.
FatalTransition(r) == rec[r].step \in {"refused", "lost"} /\ RuntimeFailure(r)

ReroutedOnly(r, old, new) == [byFile EXCEPT ![new] = r]   \* bug: the prior route stays
Rerouted(r, old, new) ==
    [f \in Files |-> IF f = new THEN r
                     ELSE IF f = old /\ byFile[f] = r THEN None ELSE byFile[f]]

\* The terminal batch (installTransitionBatch, commitTransitionLock): routing
\* and ownership move together, and the predecessor's lock is released.
CommitTransition(r) ==
    LET x == rec[r]
        lock == x.tlock
    IN  /\ x.step = "commit" /\ Permitted(r, x.tid)
        /\ lock # None /\ lock.tid = x.tid /\ lock.locked /\ lock.target # None
        /\ lock.target # lock.old => lock.token # 0
        /\ rec' = [rec EXCEPT ![r] =
             [x EXCEPT !.hasLock = TRUE, !.lockPath = lock.target, !.file = lock.target,
                       !.token = IF lock.target # lock.old THEN lock.token ELSE @,
                       !.tlock = None, !.trans = 0, !.step = "idle", !.target = None]]
        /\ byFile' = Rerouted(r, x.file, lock.target)
        /\ UnlockPaths(r, IF lock.old # lock.target THEN {lock.old} ELSE {})
        /\ UNCHANGED <<ops, dir, tokens>>

(***************************************************************************)
(* Compromise: another process took the directory, or the library could    *)
(* not refresh it.  The callback names the identity it was created with;   *)
(* it may still arrive while that identity's release unwinds (late[f]).    *)
(***************************************************************************)
PrimaryPath(who, f) ==   \* bug: compares the path, not the token
    rec[who.r].hasLock /\ rec[who.r].lockPath = f
PrimaryCurrent(who, f) ==
    LET x == rec[who.r]
    IN  x.hasLock /\ x.lockPath = f /\ x.token = who.token
SuccessorCurrent(who, f) ==
    LET x == rec[who.r]
    IN  /\ who.role = "successor" /\ x.tlock # None
        /\ x.tlock.tid = who.tid /\ x.tlock.target = f
        /\ x.tlock.locked /\ x.tlock.token = who.token

\* handleLockCompromise for identity who of f; nothing if it is not current.
\* listed is the library's table when the callback runs.
LockCompromise(who, f, listed) ==
    LET r == who.r
        x == rec[r]
        fenced == [x EXCEPT !.dead = TRUE, !.comp = TRUE, !.ready = FALSE,
                            !.status = "failed", !.step = "idle", !.target = None,
                            !.phase = IF @ = "starting" THEN "idle" ELSE @]
        paths == (IF x.trans # 0 THEN AbortedPaths(x, x.trans) ELSE {})
                 \cup (IF x.proc = 0 THEN ReleasedPaths(x) ELSE {})
        y == [(IF x.trans # 0 THEN Aborted(fenced, x.trans) ELSE fenced) EXCEPT !.trans = 0]
    IN  IF Live(r) /\ ~x.comp /\ (PrimaryCurrent(who, f) \/ SuccessorCurrent(who, f))
          THEN /\ UnlockListed(r, paths, listed)
               /\ rec' = [rec EXCEPT ![r] = IF x.proc # 0 THEN Detached(y) ELSE Released(y)]
          ELSE watched' = listed /\ UNCHANGED <<rec, leaving, late>>

\* The watched directory of f is lost to a rival: the library drops its entry
\* and calls back.
Compromised(f) ==
    /\ Rivals /\ watched[f] # None
    /\ LET who == watched[f]
           r == who.r
       IN  /\ dir' = [dir EXCEPT ![f] = "rival"]
           /\ LockCompromise(who, f, [watched EXCEPT ![f] = None])
    /\ UNCHANGED <<byFile, ops, tokens>>

StaleCompromise(f) ==
    /\ late[f] # None
    /\ LockCompromise(late[f], f, watched)
    /\ UNCHANGED <<byFile, ops, dir, tokens>>

RivalLocks(f) ==
    /\ Rivals /\ dir[f] = "free" /\ dir' = [dir EXCEPT ![f] = "rival"]
    /\ UNCHANGED <<rec, byFile, ops, watched, leaving, late, tokens>>

RivalUnlocks(f) ==
    /\ dir[f] = "rival" /\ dir' = [dir EXCEPT ![f] = "free"]
    /\ UNCHANGED <<rec, byFile, ops, watched, leaving, late, tokens>>

Settle(o) ==
    \/ MkdirDone(o)
    \/ PrimaryLocked(o) \/ PrimaryDenied(o)
    \/ InitialLocked(o) \/ InitialDenied(o)
    \/ SuccessorLocked(o) \/ SuccessorDenied(o)

Finish(r) == HostExited(r) \/ CloseReleases(r) \/ CloseDone(r)

Next ==
    \/ \E r \in Records :
         \/ OpenSession(r) \/ Activate(r) \/ HostReady(r) \/ StartFails(r)
         \/ RuntimeFailure(r) \/ CloseSession(r) \/ Finish(r)
         \/ BeginTransition(r) \/ Prepare(r) \/ Successor(r) \/ PermitLost(r)
         \/ TransitionCancelled(r) \/ FatalTransition(r) \/ CommitTransition(r)
         \/ \E f \in Files : InitialSessionFile(r, f)
    \/ \E o \in ops : Settle(o)
    \/ \E f \in Files : DirRemoved(f) \/ Compromised(f) \/ StaleCompromise(f)
                        \/ RivalLocks(f) \/ RivalUnlocks(f)

\* The disk answers every request, a stopped host exits, and closing goes on.
Fairness ==
    /\ \A f \in Files : WF_vars(DirRemoved(f))
    /\ WF_vars(\E o \in ops : Settle(o))
    /\ \A r \in Records : WF_vars(Finish(r))

Spec == Init /\ [][Next]_vars /\ Fairness

(***************************************************************************)
(* Properties                                                              *)
(***************************************************************************)
\* Types of the routing map, the acquisitions and the lock library's tables.
TypeOK ==
    /\ byFile \in [Files -> Records \cup {None}]
    /\ dir \in [Files -> {"free", "ours", "rival"}]
    /\ watched \in [Files -> Identities \cup {None}] /\ late \in [Files -> Identities \cup {None}]
    /\ leaving \in [Files -> Records \cup {None}]
    /\ tokens \in 0..MaxTokens
    /\ \A o \in ops : o.r \in Records /\ o.path \in Files /\ o.stage \in {"mkdir", "probe"}
    /\ \A r \in Records : /\ rec[r].file \in Files \cup {None}
                          /\ rec[r].lockPath \in Files \cup {None}
                          /\ rec[r].hasLock <=> rec[r].lockPath # None

\* A lock a record believes it holds, primary or reserved, is the very lock the
\* library still refreshes for it: no abort, retry or release of anyone's took
\* it away behind the record's back (acquireLock, abortTransitionLock,
\* releaseLock, which all unlock by path).
HeldLockIsWatched ==
    \A r \in Records :
      LET x == rec[r]
          Ours(f, token) == /\ watched[f] # None
                            /\ watched[f].r = r /\ watched[f].token = token
      IN  ~x.comp =>
            /\ x.hasLock => Ours(x.lockPath, x.token)
            /\ (x.tlock # None /\ x.tlock.token # 0) => Ours(x.tlock.target, x.tlock.token)

\* No lock is stranded: a lock directory of ours is being created or removed, or
\* a routed record still holds it as its primary or its successor lock.
NoStrandedLock ==
    \A f \in Files :
      dir[f] = "ours" =>
        \/ leaving[f] # None
        \/ \E o \in ops : o.path = f /\ o.stage = "probe"
        \/ \E r \in Records :
             /\ Live(r)
             /\ \/ rec[r].lockPath = f
                \/ rec[r].tlock # None /\ rec[r].tlock.target = f

\* The routing map follows the lock: the file a routed record holds is its own
\* session file and routes to it and to nobody else (commitTransitionLock).
RoutingFollowsLock ==
    \A r \in Records :
      (Live(r) /\ rec[r].hasLock) =>
        /\ rec[r].file = rec[r].lockPath
        /\ \A f \in Files : byFile[f] = r <=> f = rec[r].lockPath

\* A closed record leaves neither a route, nor an acquisition, nor a lock
\* (closeSession joins the lock operations that were in flight).
ClosedLeavesNothing ==
    \A r \in Records :
      rec[r].known = "closed" =>
        /\ \A f \in Files : byFile[f] # r /\ (watched[f] # None => watched[f].r # r)
        /\ \A o \in ops : o.r # r

\* Compromise is terminal: the record never gets a host or a lock again.
CompromisedStaysFenced ==
    [][\A r \in Records :
         rec[r].comp => /\ rec'[r].comp /\ rec'[r].proc = 0 /\ ~rec'[r].ready
                        /\ rec'[r].hasLock => rec[r].hasLock]_vars

\* A record is fenced only by the loss of a lock it really holds: a callback of a
\* lock released or replaced earlier does nothing (_primaryLockToken).
OnlyRealLossFences ==
    [][\A r \in Records :
         (rec'[r].comp /\ ~rec[r].comp) =>
           \E f \in Files : watched[f] # None /\ watched[f].r = r /\ dir'[f] = "rival"]_vars

\* A tab that is being closed is eventually gone, whatever was in flight.
CloseCompletes ==
    \A r \in Records : rec[r].close = "waiting" ~> rec[r].known = "closed"

\* Whoever aborts, retries or releases: a record's lock stays its own, and the
\* routing map says so.
LocksAreTheirOwners == TypeOK /\ HeldLockIsWatched /\ RoutingFollowsLock

\* No lock outlives its use: not on a lost permit, a failure or a close.  (A failed
\* record that openSession forgets does leave its lock behind: OpenSession with
\* ReopenFailed, which the runs leave out.)
NothingStranded == NoStrandedLock /\ ClosedLeavesNothing

\* A lock lost to another process, and only that, fences a record, for good.
LossIsTerminal == CompromisedStaysFenced /\ OnlyRealLossFences
=============================================================================
