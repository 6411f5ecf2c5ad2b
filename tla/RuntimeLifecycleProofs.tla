------------------------ MODULE RuntimeLifecycleProofs ------------------------
(***************************************************************************)
(* One locked host per session, the crash budget and what a released visit *)
(* may touch, for every set of plans, every budget and every number of     *)
(* processes.                                                              *)
(***************************************************************************)
EXTENDS RuntimeLifecycle, TLAPS, SequenceTheorems

(***************************************************************************)
(* The inductive invariant, over a registry w and the processes p, so that *)
(* it can be asked of the values between two helpers of one turn as well.  *)
(* Core holds of all of them; Rested holds between turns, when nothing is  *)
(* left of a retirement that has ended.                                    *)
(***************************************************************************)
Records ==
    [proc : 0 .. MaxHosts, ready : BOOLEAN, status : {"cold", "starting", "ready", "failed"},
     avail : {"unavailable", "transitioning", "available"}, retiring : 0 .. MaxHosts,
     chain : BOOLEAN, timer : BOOLEAN, attempt : {"none", "live", "accounted"},
     rapid : 0 .. MaxAttempts + 1, dead : BOOLEAN, closing : BOOLEAN, lock : BOOLEAN,
     recon : BOOLEAN, checkout : {"old", "new"}, fence : BOOLEAN, visit : Visits \cup {None},
     touched : BOOLEAN, returned : BOOLEAN, tombs : SUBSET Visits]

Acts ==
    [phase : {"none", "prepare", "boot", "recover", "resync", "drop", "fail", "unlock"},
     host : 0 .. MaxHosts, caller : Callers \cup {None}, visit : Visits \cup {None}]

Waiters == [caller : Callers, visit : Visits \cup {None}]

Moves == [phase : {"none", "admit", "retire", "destination", "rollback"}, host : 0 .. MaxHosts]

Releases ==
    [phase : {"none", "wait", "probe", "permit", "retire", "unlock"},
     visit : Visits \cup {None}, host : 0 .. MaxHosts]

Logs ==
    [charged : [Hosts -> Nat], cwd : [Hosts -> {"old", "new", None}],
     visit : [Hosts -> Visits \cup {None}], used : [Hosts -> BOOLEAN], restarts : Nat,
     owed : BOOLEAN]

Worlds ==
    [s : Records, act : Acts, waiting : Seq(Waiters), joined : SUBSET Callers, move : Moves,
     release : Releases, close : {"no", "graceful", "retire", "unlock", "closed"}, log : Logs]

Processes == [Hosts -> {"unborn", "booting", "up", "stopping", "gone"}]

Lives(p, h) == p[h] \in {"booting", "up", "stopping"}

\* A living process is the installed one or the retiring one, never both kinds.
Placed(w, p) ==
    /\ \A h \in Hosts : Lives(p, h) => h = w.s.proc \/ h = w.s.retiring
    /\ w.s.retiring # 0 =>
         /\ w.s.proc = 0 /\ p[w.s.retiring] = "stopping" /\ w.act.phase # "prepare"

\* An installed process is where its activation is, or at work.
Installed(w, p) ==
    w.s.proc # 0 =>
        /\ ~w.s.dead
        /\ \/ w.act.phase = "boot" /\ p[w.s.proc] = "booting"
           \/ w.act.phase = "recover" /\ p[w.s.proc] \in {"up", "gone"}
           \/ /\ w.act.phase \in {"resync", "none"} /\ w.s.ready /\ w.s.status = "ready"
              /\ p[w.s.proc] = "up" \/ (plan.retained /\ p[w.s.proc] = "gone")
        /\ w.act.phase # "none" => w.act.host = w.s.proc

\* A process is awaited only by an activation that has forked one.
Forked(w, p) ==
    /\ w.act.phase \in {"boot", "recover", "resync"} => w.act.host # 0
    /\ w.act.host # 0 => p[w.act.host] # "unborn"

\* The lock outlives the processes, and is gone where it was let go of.
Locked(w, p) ==
    /\ w.s.retiring # 0 \/ (w.s.proc # 0 /\ p[w.s.proc] # "gone") => w.s.lock
    /\ w.act.phase = "unlock" => ~w.s.lock
    /\ w.release.phase = "unlock" => ~w.s.lock /\ w.s.proc = 0
    /\ w.close \in {"unlock", "closed"} => ~w.s.lock

\* The flags of the close, and what a dead record has given up.
Ended(w) ==
    /\ w.s.dead <=> w.close \in {"retire", "unlock", "closed"}
    /\ w.s.closing <=> w.close # "no"
    /\ w.s.dead => w.s.attempt = "none" /\ ~w.s.timer

\* An activation that has ended leaves nothing behind, and a failure that is
\* already accounted for left no process and no other restart to come.
Idle(w) ==
    /\ w.act.phase = "none" => w.act = NoAct /\ w.joined = {}
    /\ w.s.attempt = "accounted" => w.s.proc = 0 /\ ~w.s.chain

\* Availability is shown of an installed process only, and never under the
\* fence of a move.
Shown(w) ==
    /\ w.s.ready /\ ~w.s.dead => w.s.proc # 0 /\ w.act.phase \in {"none", "resync"}
    /\ w.move.phase = "admit" => w.s.fence /\ w.move.host # 0
    /\ w.s.fence => w.s.avail # "available"
    /\ w.release.phase \in {"retire", "unlock"} => w.move = Resting
    /\ w.release.phase \in {"probe", "permit"} => w.release.host # 0
    /\ ~plan.retained /\ w.s.avail = "available" /\ ~w.s.dead
         => w.s.ready \/ w.release.phase \in {"retire", "unlock"}
    /\ ~plan.retained => ~w.s.recon /\ w.act.phase # "recover"

\* A process is charged once, when it leaves its place.
Charged(w, p) ==
    /\ \A h \in Hosts : w.log.charged[h] <= 1 /\ (p[h] = "unborn" => w.log.charged[h] = 0)
    /\ w.s.proc # 0 => w.log.charged[w.s.proc] = 0
    /\ w.s.attempt = "live" /\ w.act.phase # "none" /\ w.act.host # 0
         => w.log.charged[w.act.host] = 0

\* Every restart, and every one still to come, has its own failure in the
\* count; one more may come from a timer armed before the count began anew.
Pays(b) == IF b THEN 1 ELSE 0
Capped(n) == IF n > MaxAttempts THEN MaxAttempts ELSE n
Paid(w) ==
    w.log.restarts + Pays(w.s.timer)
      + Pays(w.s.rapid <= MaxAttempts /\ (w.s.chain \/ w.s.attempt = "accounted"))
    <= Capped(w.s.rapid) + 1

Core(w, p) ==
    /\ w \in Worlds /\ p \in Processes
    /\ Placed(w, p) /\ Installed(w, p) /\ Forked(w, p) /\ Locked(w, p) /\ Ended(w) /\ Idle(w)
    /\ Shown(w) /\ Charged(w, p) /\ Paid(w)

\* Whoever waits for an activation is known to it, or will be the next one.
Awaits(w, c) ==
    \/ w.act.phase # "none" /\ (c \in w.joined \/ w.act.caller = c)
    \/ \E i \in 1 .. Len(w.waiting) : w.waiting[i].caller = c

Known(w) ==
    /\ w.s.attempt # "none" => Awaits(w, "auto")
    /\ w.s.attempt = "accounted" => w.act.phase \in {"recover", "resync", "drop", "fail", "unlock"}
    /\ \A c \in {"destination", "rollback"} : Awaits(w, c) => w.move.phase = c

\* What a retirement has to do when it ends, in a session that keeps nothing.
Owing(w) ==
    \/ w.s.chain \/ w.s.attempt = "accounted" \/ w.move.phase = "retire"
    \/ w.release.phase = "retire" \/ w.act.phase = "fail" \/ w.s.dead

Tidy(w) ==
    /\ w.waiting # <<>> => w.s.retiring # 0 /\ w.act.phase = "none"
    /\ w.release.phase = "retire" => w.s.retiring # 0
    /\ w.s.chain => w.s.retiring # 0
    /\ w.close = "retire" => w.s.retiring # 0
    /\ w.act.phase = "boot" /\ w.s.proc = 0 => w.s.dead /\ w.s.retiring # 0
    /\ w.act.phase = "drop" => w.s.retiring # 0
    /\ ~plan.retained /\ w.s.retiring # 0 => Owing(w)
    /\ ~plan.retained /\ w.act.phase = "resync" /\ ~w.s.dead => w.s.proc # 0 \/ w.s.retiring # 0

\* Why the lock is held.
Justified(w) ==
    ~plan.retained /\ w.s.lock =>
        \/ w.s.proc # 0 \/ w.s.retiring # 0 \/ w.act.phase # "none" \/ w.s.timer
        \/ w.close \in {"graceful", "retire"}

Rested(w) == Tidy(w) /\ Justified(w)

Good(w, p) == Core(w, p) /\ Known(w) /\ Rested(w)

LifeInv == plan \in Plans /\ Good(World, host)
-----------------------------------------------------------------------------
(***************************************************************************)
(* What the helpers keep.  Room is what a failure that has been counted    *)
(* leaves for the restart that follows it; Follows and Excuse are what an  *)
(* activation that settles leaves alone, and why the lock may be kept.     *)
(***************************************************************************)
Room(w) ==
    w.log.restarts + Pays(w.s.timer) + Pays(w.s.rapid <= MaxAttempts) <= Capped(w.s.rapid) + 1

Follows(x, w) ==
    /\ x.s.proc = w.s.proc /\ x.s.retiring = w.s.retiring /\ x.s.dead = w.s.dead
    /\ x.s.closing = w.s.closing /\ x.release = w.release /\ x.close = w.close
    /\ x.s.lock => w.s.lock
    /\ x.s.chain => w.s.chain \/ w.s.retiring # 0
    /\ w.s.chain => x.s.chain

Excuse(w) ==
    \/ ~w.s.lock \/ w.s.proc # 0 \/ w.s.retiring # 0 \/ w.s.timer \/ w.s.closing
    \/ w.act.phase = "prepare"

\* Processes are numbered from 1; 0 is no process.
LEMMA HostFacts ==
    /\ 0 \notin Hosts /\ Hosts \subseteq 0 .. MaxHosts /\ 0 \in 0 .. MaxHosts
    /\ \A h \in 0 .. MaxHosts : h # 0 => h \in Hosts
BY LifecycleAssumption DEF Hosts

\* scheduleAutomaticRestart keeps Core, where the count leaves room for a restart.
LEMMA ScheduledKeeps ==
    ASSUME NEW w, NEW p, Core(w, p), w.s.attempt # "accounted", w.s.proc = 0, Room(w),
           w.s.chain => w.s.retiring # 0
    PROVE  LET x == Scheduled(w)
           IN  /\ Core(x, p) /\ Follows(x, w)
               /\ x.act = w.act /\ x.waiting = w.waiting /\ x.joined = w.joined
               /\ x.move = w.move /\ x.log = w.log /\ x.s.attempt = w.s.attempt
               /\ x.s.ready = w.s.ready /\ x.s.avail = w.s.avail
               /\ w.s.timer => x.s.timer
               /\ w.s.chain => x.s.chain
               /\ w.close # "closed" => Excuse(x) /\ (w.s.retiring # 0 => x.s.chain)
<1>0. w \in Worlds /\ p \in Processes
  BY DEF Core
<1> DEFINE x == Scheduled(w)
<1>a. CASE w.close = "closed"
  BY <1>a DEF Scheduled, Follows
<1>b. CASE w.close # "closed" /\ w.s.retiring # 0
  <2> DEFINE y == [w EXCEPT !.s.chain = TRUE]
  <2>0. x = y
    BY <1>b DEF Scheduled
  <2>1. y \in Worlds
    <3>1. [w.s EXCEPT !.chain = TRUE] \in Records
      BY <1>0 DEF Worlds, Records
    <3> QED
      BY <1>0, <3>1 DEF Worlds
  <2>2. Placed(y, p) /\ Installed(y, p) /\ Forked(y, p) /\ Locked(y, p) /\ Ended(y)
    BY <1>0 DEF Core, Placed, Installed, Forked, Locked, Ended, Worlds, Records
  <2>3. Idle(y) /\ Shown(y) /\ Charged(y, p)
    BY <1>0 DEF Core, Idle, Shown, Charged, Worlds, Records
  <2>4. Paid(y)
    BY <1>0 DEF Paid, Room, Pays, Capped, Worlds, Records
  <2>5. Core(y, p)
    BY <1>0, <2>1, <2>2, <2>3, <2>4 DEF Core
  <2>6. Follows(y, w) /\ Excuse(y) /\ y.s.chain /\ (w.s.timer => y.s.timer)
    BY <1>0, <1>b DEF Follows, Excuse, Worlds, Records
  <2>7. /\ y.act = w.act /\ y.waiting = w.waiting /\ y.joined = w.joined
        /\ y.move = w.move /\ y.log = w.log /\ y.s.attempt = w.s.attempt
        /\ y.s.ready = w.s.ready /\ y.s.avail = w.s.avail
    BY <1>0 DEF Worlds, Records
  <2> HIDE DEF y
  <2> QED
    BY <2>0, <2>5, <2>6, <2>7
<1>c. CASE w.close # "closed" /\ w.s.retiring = 0 /\ (w.s.rapid > MaxAttempts \/ w.s.dead)
  <2> DEFINE y == [w EXCEPT !.s.lock = FALSE]
  <2>0. x = y
    BY <1>c DEF Scheduled
  <2>1. y \in Worlds
    <3>1. [w.s EXCEPT !.lock = FALSE] \in Records
      BY <1>0 DEF Worlds, Records
    <3> QED
      BY <1>0, <3>1 DEF Worlds
  <2>2. Placed(y, p) /\ Installed(y, p) /\ Forked(y, p) /\ Locked(y, p) /\ Ended(y)
    BY <1>0, <1>c DEF Core, Placed, Installed, Forked, Locked, Ended, Worlds, Records
  <2>3. Idle(y) /\ Shown(y) /\ Charged(y, p)
    BY <1>0 DEF Core, Idle, Shown, Charged, Worlds, Records
  <2>4. Paid(y)
    BY <1>0 DEF Core, Paid, Worlds, Records
  <2>5. Core(y, p)
    BY <1>0, <2>1, <2>2, <2>3, <2>4 DEF Core
  <2>6. /\ Follows(y, w) /\ Excuse(y) /\ (w.s.timer => y.s.timer) /\ (w.s.chain => y.s.chain)
        /\ (w.s.retiring # 0 => y.s.chain)
    BY <1>0, <1>c DEF Follows, Excuse, Worlds, Records
  <2>7. /\ y.act = w.act /\ y.waiting = w.waiting /\ y.joined = w.joined
        /\ y.move = w.move /\ y.log = w.log /\ y.s.attempt = w.s.attempt
        /\ y.s.ready = w.s.ready /\ y.s.avail = w.s.avail
    BY <1>0 DEF Worlds, Records
  <2> HIDE DEF y
  <2> QED
    BY <2>0, <2>5, <2>6, <2>7
<1>d. CASE w.close # "closed" /\ w.s.retiring = 0 /\ ~(w.s.rapid > MaxAttempts \/ w.s.dead)
  <2> DEFINE y == [w EXCEPT !.s.timer = TRUE]
  <2>0. x = y
    BY <1>d DEF Scheduled
  <2>1. y \in Worlds
    <3>1. [w.s EXCEPT !.timer = TRUE] \in Records
      BY <1>0 DEF Worlds, Records
    <3> QED
      BY <1>0, <3>1 DEF Worlds
  <2>2. Placed(y, p) /\ Installed(y, p) /\ Forked(y, p) /\ Locked(y, p) /\ Ended(y)
    BY <1>0, <1>d DEF Core, Placed, Installed, Forked, Locked, Ended, Worlds, Records
  <2>3. Idle(y) /\ Shown(y) /\ Charged(y, p)
    BY <1>0 DEF Core, Idle, Shown, Charged, Worlds, Records
  <2>4. Paid(y)
    BY <1>0, <1>d, LifecycleAssumption DEF Paid, Room, Pays, Capped, Worlds, Records, Logs
  <2>5. Core(y, p)
    BY <1>0, <2>1, <2>2, <2>3, <2>4 DEF Core
  <2>6. /\ Follows(y, w) /\ Excuse(y) /\ (w.s.timer => y.s.timer) /\ (w.s.chain => y.s.chain)
        /\ (w.s.retiring # 0 => y.s.chain)
    BY <1>0, <1>d DEF Follows, Excuse, Worlds, Records
  <2>7. /\ y.act = w.act /\ y.waiting = w.waiting /\ y.joined = w.joined
        /\ y.move = w.move /\ y.log = w.log /\ y.s.attempt = w.s.attempt
        /\ y.s.ready = w.s.ready /\ y.s.avail = w.s.avail
    BY <1>0 DEF Worlds, Records
  <2> HIDE DEF y
  <2> QED
    BY <2>0, <2>5, <2>6, <2>7
<1> QED
  BY <1>a, <1>b, <1>c, <1>d

\* A failure is counted once, and the count leaves room for one restart: the
\* one that is scheduled, or that of the attempt it is left to.
Marked(w, h, rapid, t) == [Accounted(w, h, rapid) EXCEPT !.s.attempt = t]

\* accountRapidFailure keeps Core and makes the room the restart needs.
LEMMA AccountedKeeps ==
    ASSUME NEW w, NEW p, Core(w, p), w.s.attempt # "accounted", ~w.s.chain, w.s.proc = 0,
           NEW h \in 0 .. MaxHosts, h # 0 => w.log.charged[h] = 0 /\ p[h] # "unborn",
           NEW rapid \in BOOLEAN,
           NEW t \in {"none", "accounted"}, t = "accounted" => ~w.s.dead
    PROVE  LET x == Marked(w, h, rapid, t)
           IN  /\ Core(x, p) /\ Room(x) /\ Follows(x, w)
               /\ x.act = w.act /\ x.waiting = w.waiting /\ x.joined = w.joined
               /\ x.move = w.move /\ x.s.attempt = t /\ ~x.s.chain
               /\ x.s.ready = w.s.ready /\ x.s.avail = w.s.avail
               /\ x.s.timer = w.s.timer /\ x.s.lock = w.s.lock
               /\ w.s.attempt = t => x = Accounted(w, h, rapid)
<1>0. w \in Worlds /\ p \in Processes
  BY DEF Core
<1>1. w.s \in Records /\ w.log \in Logs /\ w.s.rapid \in 0 .. MaxAttempts + 1
  BY <1>0 DEF Worlds, Records
<1>2. PICK n : n = IF rapid THEN w.s.rapid + 1 ELSE 1
  OBVIOUS
<1>3. n \in 1 .. MaxAttempts + 2
  BY <1>1, <1>2, LifecycleAssumption
<1> DEFINE r == IF n > MaxAttempts THEN MaxAttempts + 1 ELSE n
           b == Accounted(w, h, rapid)
           x == Marked(w, h, rapid, t)
<1>4. r \in 0 .. MaxAttempts + 1
  BY <1>3, LifecycleAssumption
<1>a. PICK o \in BOOLEAN : o = (~w.s.dead /\ n <= MaxAttempts)
  OBVIOUS
<1>b. PICK g : g = IF h = 0 THEN w.log.charged
                   ELSE [w.log.charged EXCEPT ![h] = w.log.charged[h] + 1]
  OBVIOUS
<1>c. PICK m : m = IF rapid THEN w.log.restarts ELSE 0
  OBVIOUS
<1>5. b = [w EXCEPT !.s.rapid = r, !.log.charged = g, !.log.restarts = m, !.log.owed = o]
  <2>1. b = [w EXCEPT !.s.rapid = r, !.log.charged = g, !.log.restarts = m,
                      !.log.owed = ~w.s.dead /\ n <= MaxAttempts]
    BY <1>2, <1>b, <1>c DEF Accounted
  <2> HIDE DEF r, b, x
  <2> QED
    BY <1>a, <2>1
<1>x. x = [b EXCEPT !.s.attempt = t]
  BY DEF Marked
<1> HIDE DEF b, r, x
<1>6. /\ b.s = [w.s EXCEPT !.rapid = r]
      /\ b.log = [w.log EXCEPT !.charged = g, !.restarts = m, !.owed = o]
  BY <1>0, <1>5 DEF Worlds
<1>7. x.s = [w.s EXCEPT !.rapid = r, !.attempt = t]
  BY <1>0, <1>5, <1>6, <1>x DEF Worlds
<1>8. /\ x.log = [w.log EXCEPT !.charged = g, !.restarts = m, !.owed = o]
      /\ x.log.charged = g /\ x.log.restarts = m
  BY <1>0, <1>1, <1>5, <1>6, <1>x DEF Worlds, Logs
<1>e. g \in [Hosts -> Nat] /\ m \in Nat
  BY <1>1, <1>b, <1>c, HostFacts DEF Logs
<1>10. /\ x.act = w.act /\ x.waiting = w.waiting /\ x.joined = w.joined /\ x.move = w.move
       /\ x.release = w.release /\ x.close = w.close
  BY <1>0, <1>5, <1>x DEF Worlds
<1>11. x \in Worlds
  <2>1. [w.s EXCEPT !.rapid = r, !.attempt = t] \in Records
    BY <1>1, <1>4 DEF Records
  <2>2. [w.log EXCEPT !.charged = g, !.restarts = m, !.owed = o] \in Logs
    BY <1>1, <1>a, <1>e DEF Logs
  <2>3. x = [w EXCEPT !.s = x.s, !.log = x.log]
    BY <1>0, <1>5, <1>x DEF Worlds
  <2> QED
    BY <1>0, <1>7, <1>8, <2>1, <2>2, <2>3 DEF Worlds
<1>12. Placed(x, p) /\ Installed(x, p) /\ Forked(x, p) /\ Locked(x, p) /\ Ended(x)
  BY <1>1, <1>7, <1>10 DEF Core, Placed, Installed, Forked, Locked, Ended, Records
<1>13. Idle(x) /\ Shown(x)
  BY <1>1, <1>7, <1>10 DEF Core, Idle, Shown, Records
<1>14. Charged(x, p)
  BY <1>0, <1>1, <1>7, <1>8, <1>10, <1>b DEF Core, Charged, Records, Logs
<1>15. Room(x)
  BY <1>1, <1>2, <1>3, <1>7, <1>8, <1>c, LifecycleAssumption
     DEF r, Core, Paid, Room, Pays, Capped, Records, Logs
<1>16. Paid(x)
  <2>1. ~x.s.chain
    BY <1>1, <1>7 DEF Records
  <2>2. x.log.restarts \in Nat /\ x.s.rapid \in Nat
    BY <1>1, <1>4, <1>7, <1>8, <1>e, LifecycleAssumption DEF Records
  <2> QED
    BY <2>1, <2>2, <1>15, LifecycleAssumption DEF Paid, Room, Pays, Capped
<1>17. Core(x, p)
  BY <1>0, <1>11, <1>12, <1>13, <1>14, <1>16 DEF Core
<1>18. Follows(x, w)
  BY <1>1, <1>7, <1>10 DEF Follows, Records
<1>19. /\ x.s.attempt = t /\ ~x.s.chain /\ x.s.ready = w.s.ready /\ x.s.avail = w.s.avail
       /\ x.s.timer = w.s.timer /\ x.s.lock = w.s.lock
  BY <1>1, <1>7 DEF Records
<1>20. ASSUME w.s.attempt = t PROVE x = b
  <2>1. [w.s EXCEPT !.rapid = r, !.attempt = t] = [w.s EXCEPT !.rapid = r]
    BY <1>1, <1>20 DEF Records
  <2>2. x.s = b.s
    BY <1>6, <1>7, <2>1
  <2>3. x = [b EXCEPT !.s = x.s]
    BY <1>0, <1>5, <1>x DEF Worlds
  <2>4. [b EXCEPT !.s = b.s] = b
    BY <1>0, <1>5 DEF Worlds
  <2> QED
    BY <2>2, <2>3, <2>4
<1> QED
  BY <1>10, <1>15, <1>17, <1>18, <1>19, <1>20 DEF x, b

\* The failed process leaves its place, to be stopped unless it is gone.
Leaves(p, h, gone) == [p EXCEPT ![h] = IF gone THEN "gone" ELSE "stopping"]

LEMMA DetachKeeps ==
    ASSUME NEW w, NEW p, Core(w, p), NEW h \in Hosts, w.s.proc = h,
           NEW gone \in BOOLEAN, ~gone => p[h] = "up",
           NEW recon \in BOOLEAN, recon => plan.retained
    PROVE  LET x == Detach(w, h, gone, recon)
           IN  /\ Core(x, Leaves(p, h, gone))
               /\ x.act = w.act /\ x.waiting = w.waiting /\ x.joined = w.joined
               /\ x.move = w.move /\ x.release = w.release /\ x.close = w.close
               /\ x.log = w.log /\ x.s.dead = w.s.dead /\ x.s.closing = w.s.closing
               /\ x.s.attempt = w.s.attempt /\ x.s.chain = w.s.chain /\ x.s.proc = 0
               /\ x.s.retiring = IF gone THEN 0 ELSE h
<1>0. w \in Worlds /\ p \in Processes
  BY DEF Core
<1>1. w.s \in Records
  BY <1>0 DEF Worlds
<1> DEFINE x == Detach(w, h, gone, recon)
           q == Leaves(p, h, gone)
<1>2. PICK k : k = IF gone THEN 0 ELSE h
  OBVIOUS
<1>3. PICK o \in BOOLEAN : o = (w.s.recon \/ recon)
  OBVIOUS
<1>4. x = [w EXCEPT !.s.proc = 0, !.s.ready = FALSE, !.s.status = "failed",
                    !.s.avail = "unavailable", !.s.retiring = k, !.s.recon = o]
  BY <1>2, <1>3 DEF Detach
<1>5. x.s = [w.s EXCEPT !.proc = 0, !.ready = FALSE, !.status = "failed",
                        !.avail = "unavailable", !.retiring = k, !.recon = o]
  BY <1>0, <1>4 DEF Worlds
<1>6. /\ x.act = w.act /\ x.waiting = w.waiting /\ x.joined = w.joined /\ x.move = w.move
      /\ x.release = w.release /\ x.close = w.close /\ x.log = w.log
  BY <1>0, <1>4 DEF Worlds
<1>7. x \in Worlds
  <2>1. k \in 0 .. MaxHosts
    BY <1>2, LifecycleAssumption DEF Hosts
  <2>2. [w.s EXCEPT !.proc = 0, !.ready = FALSE, !.status = "failed", !.avail = "unavailable",
                    !.retiring = k, !.recon = o] \in Records
    <3> HIDE DEF x, q
    <3>1. 0 \in 0 .. MaxHosts
      BY LifecycleAssumption
    <3> QED
      BY <1>1, <2>1, <3>1 DEF Records
  <2> QED
    BY <1>0, <1>4, <1>5, <2>2 DEF Worlds
<1>8. q \in Processes /\ q[h] = (IF gone THEN "gone" ELSE "stopping")
      /\ \A g \in Hosts : g # h => q[g] = p[g]
  BY <1>0 DEF Leaves, Processes
<1>9. /\ x.s.proc = 0 /\ x.s.ready = FALSE /\ x.s.avail = "unavailable" /\ x.s.retiring = k
      /\ x.s.recon = o
      /\ x.s.dead = w.s.dead /\ x.s.closing = w.s.closing /\ x.s.attempt = w.s.attempt
      /\ x.s.chain = w.s.chain /\ x.s.timer = w.s.timer /\ x.s.lock = w.s.lock
      /\ x.s.fence = w.s.fence /\ x.s.rapid = w.s.rapid
  BY <1>1, <1>5 DEF Records
<1>a. h # 0 /\ ~w.s.dead /\ w.s.retiring = 0 /\ (p[h] # "gone" => w.s.lock)
      /\ w.act.phase # "prepare" /\ w.release.phase # "unlock"
  BY <1>0, <1>1, LifecycleAssumption DEF Core, Placed, Installed, Locked, Hosts
<1> HIDE DEF x, q
<1>10. Placed(x, q) /\ Installed(x, q) /\ Forked(x, q)
  <2>1. Placed(x, q)
    BY <1>2, <1>6, <1>8, <1>9, <1>a, HostFacts DEF Core, Placed, Lives
  <2>2. Installed(x, q)
    BY <1>9 DEF Installed
  <2>3. w.act.host \in 0 .. MaxHosts
    BY <1>0 DEF Worlds, Acts
  <2>4. Forked(x, q)
    BY <1>6, <1>8, <2>3, HostFacts DEF Core, Forked
  <2> QED
    BY <2>1, <2>2, <2>4
<1>11. Locked(x, q) /\ Ended(x) /\ Idle(x)
  <2>1. Locked(x, q)
    BY <1>2, <1>6, <1>8, <1>9, <1>a DEF Core, Locked
  <2>2. Ended(x)
    BY <1>6, <1>9 DEF Core, Ended
  <2>3. Idle(x)
    BY <1>6, <1>9, <1>a DEF Core, Idle
  <2> QED
    BY <2>1, <2>2, <2>3
<1>12. Shown(x)
  <2>1. ~plan.retained => ~w.s.recon /\ ~recon
    BY DEF Core, Shown
  <2>2. ~plan.retained => ~x.s.recon
    BY <1>3, <1>9, <2>1
  <2>3. ~x.s.ready /\ x.s.avail # "available"
    BY <1>9
  <2> QED
    BY <1>6, <1>9, <2>2, <2>3 DEF Core, Shown
<1>13. Charged(x, q)
  BY <1>6, <1>8, <1>9 DEF Core, Charged
<1>14. Paid(x)
  BY <1>6, <1>9 DEF Core, Paid
<1>15. Core(x, q)
  BY <1>7, <1>8, <1>10, <1>11, <1>12, <1>13, <1>14 DEF Core
<1> QED
  BY <1>2, <1>6, <1>9, <1>15 DEF x, q

\* handleRuntimeFailure: the failure is counted, and its restart is either
\* scheduled or left to the attempt that is still at work.
LEMMA RuntimeFailedKeeps ==
    ASSUME NEW w, NEW p, Core(w, p), Known(w), w.waiting = <<>>, ~w.s.chain,
           NEW h \in Hosts, w.s.proc = h, p[h] # "unborn",
           NEW gone \in BOOLEAN, ~gone => p[h] = "up",
           NEW recon \in BOOLEAN, recon => plan.retained, NEW rapid \in BOOLEAN
    PROVE  LET x == RuntimeFailed(w, h, gone, recon, rapid)
           IN  /\ Core(x, Leaves(p, h, gone))
               /\ x.act = w.act /\ x.waiting = w.waiting /\ x.joined = w.joined
               /\ x.move = w.move /\ x.release = w.release /\ x.close = w.close
               /\ x.s.dead = w.s.dead /\ x.s.closing = w.s.closing /\ x.s.proc = 0
               /\ x.s.retiring = IF gone THEN 0 ELSE h
               /\ x.s.attempt = IF w.s.attempt = "none" THEN "none" ELSE "accounted"
               /\ x.s.attempt = "none" => Excuse(x) /\ (~gone => x.s.chain)
               /\ gone => ~x.s.chain
<1>0. w \in Worlds /\ p \in Processes /\ w.s \in Records
  BY DEF Core, Worlds
<1>1. h # 0 /\ h \in 0 .. MaxHosts /\ ~w.s.dead /\ w.close # "closed" /\ w.log.charged[h] = 0
  BY HostFacts DEF Core, Installed, Ended, Charged
<1> DEFINE q == Leaves(p, h, gone)
           d == Detach(w, h, gone, recon)
<1>2. /\ Core(d, q)
      /\ d.act = w.act /\ d.waiting = w.waiting /\ d.joined = w.joined
      /\ d.move = w.move /\ d.release = w.release /\ d.close = w.close
      /\ d.log = w.log /\ d.s.dead = w.s.dead /\ d.s.closing = w.s.closing
      /\ d.s.attempt = w.s.attempt /\ d.s.chain = w.s.chain /\ d.s.proc = 0
      /\ d.s.retiring = IF gone THEN 0 ELSE h
  BY DetachKeeps
<1>3. q[h] # "unborn"
  BY <1>0 DEF Leaves, Processes
<1>4. w.s.attempt # "accounted"
  BY <1>1 DEF Core, Idle
<1> HIDE DEF d, q
<1>t. PICK t \in {"none", "accounted"} : t = IF w.s.attempt = "none" THEN "none" ELSE "accounted"
  OBVIOUS
<1> DEFINE y == Marked(d, h, rapid, t)
<1>5. /\ Core(y, q) /\ Room(y) /\ Follows(y, d)
      /\ y.act = d.act /\ y.waiting = d.waiting /\ y.joined = d.joined
      /\ y.move = d.move /\ y.s.attempt = t /\ ~y.s.chain
      /\ d.s.attempt = t => y = Accounted(d, h, rapid)
  BY <1>1, <1>2, <1>3, <1>4, <1>t, AccountedKeeps
<1>6. CASE w.s.attempt = "none"
  <2>1. Accounted(d, h, rapid) = y
    BY <1>2, <1>5, <1>6, <1>t
  <2> HIDE DEF y
  <2>2. RuntimeFailed(w, h, gone, recon, rapid) = Scheduled(y)
    BY <1>6, <2>1 DEF RuntimeFailed, d
  <2>3. y.s.proc = 0 /\ ~y.s.dead /\ y.s.attempt = "none"
    BY <1>1, <1>2, <1>5, <1>6, <1>t DEF Follows
  <2>4. LET x == Scheduled(y)
        IN  /\ Core(x, q) /\ Follows(x, y)
            /\ x.act = y.act /\ x.waiting = y.waiting /\ x.joined = y.joined
            /\ x.move = y.move /\ x.s.attempt = "none"
            /\ y.close # "closed" => Excuse(x) /\ (y.s.retiring # 0 => x.s.chain)
    BY <1>5, <2>3, ScheduledKeeps
  <2> QED
    BY <1>1, <1>2, <1>5, <1>6, <1>t, <2>2, <2>4 DEF Follows, q
<1>7. CASE w.s.attempt # "none"
  <2>1. RuntimeFailed(w, h, gone, recon, rapid) = y
    BY <1>7, <1>t DEF Marked, RuntimeFailed, d
  <2> QED
    BY <1>1, <1>2, <1>5, <1>7, <1>t, <2>1 DEF Follows, q
<1> QED
  BY <1>6, <1>7

\* An activation that fails leaves neither process nor lock.
LEMMA FailingKeeps ==
    ASSUME NEW w, NEW p, Core(w, p), w.s.proc = 0, w.s.retiring = 0, w.act.phase # "none"
    PROVE  LET x == Failing(w)
           IN  /\ Core(x, p)
               /\ x.act = [w.act EXCEPT !.phase = "unlock"]
               /\ x.waiting = w.waiting /\ x.joined = w.joined /\ x.move = w.move
               /\ x.release = w.release /\ x.close = w.close
               /\ x.s.proc = 0 /\ x.s.retiring = 0 /\ x.s.chain = w.s.chain
               /\ x.s.attempt = w.s.attempt /\ x.s.dead = w.s.dead /\ ~x.s.lock
<1>0. w \in Worlds /\ w.s \in Records /\ w.act \in Acts /\ p \in Processes
  BY DEF Core, Worlds
<1> DEFINE x == Failing(w)
<1>1. /\ x.s = [w.s EXCEPT !.ready = FALSE, !.status = "failed", !.lock = FALSE, !.visit = None]
      /\ x.act = [w.act EXCEPT !.phase = "unlock"]
      /\ x.waiting = w.waiting /\ x.joined = w.joined /\ x.move = w.move
      /\ x.release = w.release /\ x.close = w.close /\ x.log = w.log
  BY <1>0 DEF Failing, Worlds
<1>2. x \in Worlds
  <2>1. [w.s EXCEPT !.ready = FALSE, !.status = "failed", !.lock = FALSE, !.visit = None]
           \in Records
    BY <1>0 DEF Records
  <2>2. [w.act EXCEPT !.phase = "unlock"] \in Acts
    BY <1>0 DEF Acts
  <2> QED
    BY <1>0, <2>1, <2>2 DEF Failing, Worlds
<1> HIDE DEF x
<1>3. /\ x.s.proc = w.s.proc /\ x.s.retiring = w.s.retiring /\ x.s.chain = w.s.chain
      /\ x.s.attempt = w.s.attempt /\ x.s.dead = w.s.dead /\ ~x.s.lock /\ ~x.s.ready
      /\ x.s.closing = w.s.closing /\ x.s.timer = w.s.timer /\ x.s.avail = w.s.avail
      /\ x.s.fence = w.s.fence /\ x.s.recon = w.s.recon /\ x.s.rapid = w.s.rapid
      /\ x.act.phase = "unlock" /\ x.act.host = w.act.host
  BY <1>0, <1>1 DEF Records, Acts
<1>4. Placed(x, p) /\ Installed(x, p) /\ Forked(x, p) /\ Locked(x, p)
  BY <1>1, <1>3 DEF Core, Placed, Installed, Forked, Locked
<1>5. Ended(x) /\ Idle(x) /\ Paid(x)
  BY <1>1, <1>3 DEF Core, Ended, Idle, Paid
<1>6. Shown(x)
  BY <1>1, <1>3 DEF Core, Shown
<1>7. Charged(x, p)
  BY <1>1, <1>3 DEF Core, Charged
<1>8. Core(x, p)
  BY <1>0, <1>2, <1>4, <1>5, <1>6, <1>7 DEF Core
<1> QED
  BY <1>1, <1>3, <1>8 DEF x

\* An activation begins where nothing runs and nothing is stopping.
LEMMA BegunKeeps ==
    ASSUME NEW w, NEW p, Core(w, p), w.s.proc = 0, w.s.retiring = 0, w.act.phase = "none",
           NEW c \in Callers, NEW v \in Visits \cup {None}
    PROVE  LET x == Begun(w, c, v)
           IN  /\ Core(x, p) /\ Follows(x, w)
               /\ x.act = [phase |-> "prepare", host |-> 0, caller |-> c, visit |-> v]
               /\ x.waiting = w.waiting /\ x.joined = w.joined /\ x.move = w.move
               /\ x.s.attempt = w.s.attempt /\ x.s.avail = "transitioning"
               /\ x.log.charged = w.log.charged
<1>0. w \in Worlds /\ w.s \in Records /\ w.log \in Logs /\ p \in Processes
  BY DEF Core, Worlds
<1> DEFINE x == Begun(w, c, v)
           a == [phase |-> "prepare", host |-> 0, caller |-> c, visit |-> v]
<1>1. /\ x.s = [w.s EXCEPT !.visit = v, !.touched = FALSE, !.returned = FALSE,
                           !.status = "starting", !.avail = "transitioning"]
      /\ x.act = a /\ x.log = [w.log EXCEPT !.owed = FALSE]
      /\ x.waiting = w.waiting /\ x.joined = w.joined /\ x.move = w.move
      /\ x.release = w.release /\ x.close = w.close
  BY <1>0 DEF Begun, Worlds
<1>2. x \in Worlds
  <2>1. [w.s EXCEPT !.visit = v, !.touched = FALSE, !.returned = FALSE,
                    !.status = "starting", !.avail = "transitioning"] \in Records
    BY <1>0 DEF Records
  <2>2. a \in Acts
    BY HostFacts DEF Acts
  <2>3. [w.log EXCEPT !.owed = FALSE] \in Logs
    BY <1>0 DEF Logs
  <2> QED
    BY <1>0, <2>1, <2>2, <2>3 DEF Begun, Worlds
<1> HIDE DEF x
<1>3. /\ x.s.proc = w.s.proc /\ x.s.retiring = w.s.retiring /\ x.s.chain = w.s.chain
      /\ x.s.attempt = w.s.attempt /\ x.s.dead = w.s.dead /\ x.s.lock = w.s.lock
      /\ x.s.ready = w.s.ready /\ x.s.closing = w.s.closing /\ x.s.timer = w.s.timer
      /\ x.s.avail = "transitioning" /\ x.s.fence = w.s.fence /\ x.s.recon = w.s.recon
      /\ x.s.rapid = w.s.rapid /\ x.act.phase = "prepare" /\ x.act.host = 0
  BY <1>0, <1>1 DEF Records
<1>4. x.log.charged = w.log.charged /\ x.log.restarts = w.log.restarts
  BY <1>0, <1>1 DEF Logs
<1>5. Placed(x, p) /\ Installed(x, p) /\ Forked(x, p) /\ Locked(x, p)
  BY <1>1, <1>3 DEF Core, Placed, Installed, Forked, Locked
<1>6. Ended(x) /\ Idle(x) /\ Paid(x)
  BY <1>1, <1>3, <1>4 DEF Core, Ended, Idle, Paid
<1>7. Shown(x)
  BY <1>1, <1>3 DEF Core, Shown
<1>8. Charged(x, p)
  BY <1>1, <1>3, <1>4 DEF Core, Charged
<1>9. Core(x, p)
  BY <1>0, <1>2, <1>5, <1>6, <1>7, <1>8 DEF Core
<1> QED
  BY <1>1, <1>3, <1>4, <1>9 DEF Follows, x

\* activateSession for a caller: it joins, waits or begins, and is known.
LEMMA EnterKeeps ==
    ASSUME NEW w, NEW p, Core(w, p), w.s.proc = 0 \/ w.act.phase # "none",
           NEW c \in Callers, NEW v \in Visits \cup {None}
    PROVE  LET x == Enter(w, c, v)
           IN  /\ Core(x, p) /\ Follows(x, w)
               /\ x.move = w.move /\ x.s.attempt = w.s.attempt
               /\ x.log.charged = w.log.charged
               /\ x.s.avail \in {w.s.avail, "transitioning"}
               /\ Awaits(x, c)
               /\ \A d : Awaits(w, d) => Awaits(x, d)
               /\ \A d : Awaits(x, d) => Awaits(w, d) \/ d = c
               /\ w.act.phase # "none" => /\ x.act = w.act /\ x.waiting = w.waiting
                                          /\ x.s.timer = w.s.timer /\ x.s.chain = w.s.chain
               /\ w.act.phase = "none" /\ w.s.retiring = 0 =>
                     x.act.phase = "prepare" /\ x.waiting = w.waiting
               /\ w.act.phase = "none" /\ w.s.retiring # 0 => x.act = w.act /\ x.act.phase = "none"
<1>0. w \in Worlds /\ w.s \in Records /\ p \in Processes /\ w.waiting \in Seq(Waiters)
  BY DEF Core, Worlds
<1>1. w.act # NoAct <=> w.act.phase # "none"
  BY DEF Core, Idle, NoAct
<1>2. CASE w.act.phase # "none"
  <2> DEFINE x == [w EXCEPT !.joined = @ \cup {c}]
  <2>1. Enter(w, c, v) = x
    BY <1>1, <1>2 DEF Enter
  <2>2. /\ x.s = w.s /\ x.act = w.act /\ x.waiting = w.waiting /\ x.joined = w.joined \cup {c}
        /\ x.move = w.move /\ x.release = w.release /\ x.close = w.close /\ x.log = w.log
    BY <1>0 DEF Worlds
  <2>3. x \in Worlds
    BY <1>0 DEF Worlds
  <2> HIDE DEF x
  <2>4. Placed(x, p) /\ Installed(x, p) /\ Forked(x, p) /\ Locked(x, p)
    BY <2>2 DEF Core, Placed, Installed, Forked, Locked
  <2>5. Ended(x) /\ Paid(x) /\ Charged(x, p) /\ Shown(x)
    BY <2>2 DEF Core, Ended, Paid, Charged, Shown
  <2>6. Idle(x)
    BY <1>2, <2>2 DEF Core, Idle
  <2>7. Core(x, p)
    BY <1>0, <2>3, <2>4, <2>5, <2>6 DEF Core
  <2>8. Awaits(x, c) /\ (\A d : Awaits(w, d) => Awaits(x, d))
        /\ (\A d : Awaits(x, d) => Awaits(w, d) \/ d = c)
    BY <1>2, <2>2 DEF Awaits
  <2> QED
    BY <1>2, <2>1, <2>2, <2>7, <2>8 DEF Follows
<1>3. CASE w.act.phase = "none"
  <2> DEFINE y == [w EXCEPT !.s.timer = FALSE]
  <2>1. y.s = [w.s EXCEPT !.timer = FALSE]
        /\ y.act = w.act /\ y.waiting = w.waiting /\ y.joined = w.joined /\ y.move = w.move
        /\ y.release = w.release /\ y.close = w.close /\ y.log = w.log
    BY <1>0 DEF Worlds
  <2>2. [w.s EXCEPT !.timer = FALSE] \in Records
    BY <1>0 DEF Records
  <2>3. y \in Worlds
    BY <1>0, <2>2 DEF Worlds
  <2>4. Placed(y, p) /\ Installed(y, p) /\ Forked(y, p) /\ Locked(y, p) /\ Ended(y)
    BY <1>0 DEF Core, Placed, Installed, Forked, Locked, Ended, Worlds, Records
  <2>5. Idle(y) /\ Shown(y) /\ Charged(y, p)
    BY <1>0 DEF Core, Idle, Shown, Charged, Worlds, Records
  <2>6. Paid(y)
    <3>1. /\ y.s.timer = FALSE /\ y.s.rapid = w.s.rapid /\ y.s.chain = w.s.chain
          /\ y.s.attempt = w.s.attempt
      BY <1>0, <2>1 DEF Records
    <3>2. w.log.restarts \in Nat /\ w.s.rapid \in Nat /\ MaxAttempts \in Nat
      BY <1>0, LifecycleAssumption DEF Worlds, Logs, Records
    <3> QED
      BY <2>1, <3>1, <3>2 DEF Core, Paid, Pays, Capped
  <2>7. Core(y, p) /\ Follows(y, w) /\ y.s.attempt = w.s.attempt /\ y.s.avail = w.s.avail
    BY <1>0, <2>1, <2>3, <2>4, <2>5, <2>6 DEF Core, Follows, Records
  <2>8. CASE w.s.retiring # 0
    <3> DEFINE k == [caller |-> c, visit |-> v]
               x == [y EXCEPT !.waiting = Append(@, k)]
    <3>1. Enter(w, c, v) = x
      BY <1>0, <1>1, <1>3, <2>8 DEF Enter, Worlds
    <3>2. /\ x.s = y.s /\ x.act = y.act /\ x.waiting = Append(w.waiting, k)
          /\ x.joined = y.joined
          /\ x.move = y.move /\ x.release = y.release /\ x.close = y.close /\ x.log = y.log
      BY <2>1, <2>3 DEF Worlds
    <3>3. k \in Waiters
      BY DEF Waiters
    <3>4. Append(w.waiting, k) \in Seq(Waiters)
      BY <1>0, <3>3
    <3>5. x \in Worlds
      BY <2>1, <2>3, <3>4 DEF Worlds
    <3>6. Len(x.waiting) = Len(w.waiting) + 1 /\ x.waiting[Len(x.waiting)] = k
          /\ \A i \in 1 .. Len(w.waiting) : x.waiting[i] = w.waiting[i]
      BY <1>0, <3>2, <3>3
    <3>7. Len(w.waiting) \in Nat
      BY <1>0
    <3> HIDE DEF x, y
    <3>8. Placed(x, p) /\ Installed(x, p) /\ Forked(x, p) /\ Locked(x, p)
      BY <2>7, <3>2 DEF Core, Placed, Installed, Forked, Locked
    <3>9. Ended(x) /\ Paid(x) /\ Charged(x, p) /\ Shown(x) /\ Idle(x)
      BY <2>7, <3>2 DEF Core, Ended, Paid, Charged, Shown, Idle
    <3>10. Core(x, p)
      BY <1>0, <3>5, <3>8, <3>9 DEF Core
    <3>11. Awaits(x, c)
      BY <3>6, <3>7 DEF Awaits
    <3>12. \A d : Awaits(w, d) => Awaits(x, d)
      BY <1>3, <3>6, <3>7 DEF Awaits
    <3>13. \A d : Awaits(x, d) => Awaits(w, d) \/ d = c
      <4> SUFFICES ASSUME NEW d, Awaits(x, d), d # c
                   PROVE  Awaits(w, d)
        OBVIOUS
      <4>1. PICK i \in 1 .. Len(x.waiting) : x.waiting[i].caller = d
        BY <1>3, <2>1, <3>2 DEF Awaits
      <4>2. i # Len(x.waiting)
        BY <3>6, <4>1
      <4>3. i \in 1 .. Len(w.waiting)
        BY <3>6, <3>7, <4>1, <4>2
      <4> QED
        BY <3>6, <4>1, <4>3 DEF Awaits
    <3> QED
      BY <1>3, <2>1, <2>7, <2>8, <3>1, <3>2, <3>10, <3>11, <3>12, <3>13 DEF Follows
  <2>9. CASE w.s.retiring = 0
    <3>1. Enter(w, c, v) = Begun(y, c, v)
      BY <1>1, <1>3, <2>9 DEF Enter
    <3>2. y.s.proc = 0 /\ y.s.retiring = 0 /\ y.act.phase = "none"
      BY <1>3, <2>1, <2>7, <2>9 DEF Follows
    <3> HIDE DEF y
    <3> DEFINE x == Begun(y, c, v)
    <3>3. /\ Core(x, p) /\ Follows(x, y)
          /\ x.act = [phase |-> "prepare", host |-> 0, caller |-> c, visit |-> v]
          /\ x.waiting = y.waiting /\ x.joined = y.joined /\ x.move = y.move
          /\ x.s.attempt = y.s.attempt /\ x.s.avail = "transitioning"
          /\ x.log.charged = y.log.charged
      BY <2>7, <3>2, BegunKeeps
    <3> HIDE DEF x
    <3>4. x.joined = {}
      BY <1>3, <2>1, <3>3 DEF Core, Idle
    <3>5. /\ Awaits(x, c) /\ \A d : Awaits(w, d) => Awaits(x, d)
          /\ \A d : Awaits(x, d) => Awaits(w, d) \/ d = c
      BY <1>3, <2>1, <3>3, <3>4 DEF Awaits
    <3> QED
      BY <1>3, <2>1, <2>7, <2>9, <3>1, <3>3, <3>5 DEF Follows, x
  <2> QED
    BY <2>8, <2>9
<1> QED
  BY <1>2, <1>3

\* The move ends, and keeps no fence it could still lift.
LEMMA MoveEndedKeeps ==
    ASSUME NEW w, NEW p, Core(w, p)
    PROVE  LET x == MoveEnded(w)
           IN  /\ Core(x, p) /\ Follows(x, w)
               /\ x.s = w.s /\ x.act = w.act /\ x.waiting = w.waiting /\ x.joined = w.joined
               /\ x.move = Resting /\ x.log = w.log
<1>0. w \in Worlds /\ p \in Processes
  BY DEF Core
<1> DEFINE x == MoveEnded(w)
<1>1. /\ x.s = w.s /\ x.act = w.act /\ x.waiting = w.waiting /\ x.joined = w.joined
      /\ x.move = Resting /\ x.release = w.release /\ x.close = w.close /\ x.log = w.log
  BY <1>0 DEF MoveEnded, Worlds
<1>2. x \in Worlds
  <2>1. Resting \in Moves
    BY HostFacts DEF Resting, Moves
  <2> QED
    BY <1>0, <2>1 DEF MoveEnded, Worlds
<1> HIDE DEF x
<1>3. Placed(x, p) /\ Installed(x, p) /\ Forked(x, p) /\ Locked(x, p)
  BY <1>1 DEF Core, Placed, Installed, Forked, Locked
<1>4. Ended(x) /\ Paid(x) /\ Charged(x, p) /\ Idle(x)
  BY <1>1 DEF Core, Ended, Paid, Charged, Idle
<1>5. Shown(x)
  BY <1>1 DEF Core, Shown, Resting
<1> QED
  BY <1>0, <1>1, <1>2, <1>3, <1>4, <1>5 DEF Core, Follows, x

\* The destination cannot be activated: the previous checkout has to be.
Returns(w) == ~w.s.closing /\ ~w.s.dead /\ w.s.avail # "available" /\ w.s.proc = 0

\* What becomes of a move whose activation has settled.
LEMMA DestinationSettledKeeps ==
    ASSUME NEW w, NEW p, Core(w, p), NEW ok \in BOOLEAN, ok \/ w.s.avail # "available",
           w.release.phase \notin {"retire", "unlock"},
           w.act.phase \in {"none", "prepare"}
    PROVE  LET x == DestinationSettled(w, ok)
           IN  /\ Core(x, p) /\ Follows(x, w)
               /\ x.s.attempt = w.s.attempt /\ x.log.charged = w.log.charged
               /\ x.act.phase \in {"none", "prepare"}
               /\ Excuse(w) \/ ~plan.retained => Excuse(x)
               /\ Returns(w) <=> Returns(x)
               /\ Returns(w) => x.move.phase = "rollback"
               /\ ~Returns(w) => /\ x.move = Resting /\ x.act = w.act
                                 /\ x.joined = w.joined /\ x.waiting = w.waiting
               /\ \A d : Awaits(x, d) => Awaits(w, d) \/ d = "rollback"
               /\ x.waiting = w.waiting \/ (w.s.retiring # 0 /\ x.act.phase = "none")
               /\ x.s.avail = "available" => w.s.avail = "available"
<1>0. w \in Worlds /\ w.s \in Records /\ w.move \in Moves /\ p \in Processes
  BY DEF Core, Worlds
<1>1. w.act = NoAct <=> w.act.phase = "none"
  BY DEF Core, Idle, NoAct
<1>2. w.act.phase = "prepare" => w.s.proc = 0
  BY DEF Core, Installed
<1> DEFINE x == [w EXCEPT !.s.checkout = "old", !.move.phase = "rollback"]
<1>3. /\ x.s = [w.s EXCEPT !.checkout = "old"] /\ x.move = [w.move EXCEPT !.phase = "rollback"]
      /\ x.act = w.act /\ x.waiting = w.waiting /\ x.joined = w.joined
      /\ x.release = w.release /\ x.close = w.close /\ x.log = w.log
  BY <1>0 DEF Worlds
<1>4. x \in Worlds
  <2>1. /\ [w.s EXCEPT !.checkout = "old"] \in Records
        /\ [w.move EXCEPT !.phase = "rollback"] \in Moves
    BY <1>0 DEF Records, Moves
  <2> QED
    BY <1>0, <2>1 DEF Worlds
<1>5. /\ x.s.proc = w.s.proc /\ x.s.retiring = w.s.retiring /\ x.s.chain = w.s.chain
      /\ x.s.attempt = w.s.attempt /\ x.s.dead = w.s.dead /\ x.s.lock = w.s.lock
      /\ x.s.ready = w.s.ready /\ x.s.closing = w.s.closing /\ x.s.timer = w.s.timer
      /\ x.s.avail = w.s.avail /\ x.s.fence = w.s.fence /\ x.s.recon = w.s.recon
      /\ x.s.rapid = w.s.rapid /\ x.s.status = w.s.status
      /\ x.move.phase = "rollback"
  BY <1>0, <1>3 DEF Records, Moves
<1> HIDE DEF x
<1>6. Core(x, p)
  <2>1. Placed(x, p) /\ Installed(x, p) /\ Forked(x, p) /\ Locked(x, p)
    BY <1>3, <1>5 DEF Core, Placed, Installed, Forked, Locked
  <2>2. Ended(x) /\ Paid(x) /\ Charged(x, p) /\ Idle(x)
    BY <1>3, <1>5 DEF Core, Ended, Paid, Charged, Idle
  <2>3. Shown(x)
    BY <1>3, <1>5 DEF Core, Shown
  <2> QED
    BY <1>0, <1>4, <2>1, <2>2, <2>3 DEF Core
<1>7. (\A d : Awaits(x, d) <=> Awaits(w, d)) /\ Follows(x, w) /\ (Excuse(x) <=> Excuse(w))
  BY <1>3, <1>5 DEF Awaits, Follows, Excuse
<1>8. w.s.proc # 0 => ~w.s.dead /\ (w.act.phase = "none" => w.s.status = "ready")
  BY DEF Core, Installed
<1>9. ~plan.retained /\ w.s.avail = "available" /\ ~w.s.dead => w.s.proc # 0
  BY DEF Core, Shown
<1>10. CASE Returns(w)
  <2>1. DestinationSettled(w, ok) = Enter(x, "rollback", None)
    <3>1. DestinationSettled(w, ok) = RolledBack(w)
      BY <1>10 DEF DestinationSettled, Returns
    <3>2. ~Running(w)
      BY <1>10 DEF Returns, Running
    <3> QED
      BY <3>1, <3>2 DEF RolledBack, x
  <2> DEFINE y == Enter(x, "rollback", None)
  <2>2. /\ Core(y, p) /\ Follows(y, x)
        /\ y.move = x.move /\ y.s.attempt = x.s.attempt
        /\ y.log.charged = x.log.charged
        /\ y.s.avail \in {x.s.avail, "transitioning"}
        /\ \A d : Awaits(y, d) => Awaits(x, d) \/ d = "rollback"
        /\ x.act.phase # "none" => y.act = x.act /\ y.waiting = x.waiting
        /\ x.act.phase = "none" /\ x.s.retiring = 0 =>
                     y.act.phase = "prepare" /\ y.waiting = x.waiting
        /\ x.act.phase = "none" /\ x.s.retiring # 0 => y.act.phase = "none"
    <3>1. x.s.proc = 0 /\ "rollback" \in Callers /\ None \in Visits \cup {None}
      BY <1>5, <1>10 DEF Returns, Callers
    <3> QED
      BY <1>6, <3>1, EnterKeeps
  <2> HIDE DEF y
  <2>3. Excuse(y)
    BY <1>3, <1>5, <2>2 DEF Excuse, Follows
  <2>4. Returns(y)
    BY <1>5, <1>10, <2>2 DEF Returns, Follows
  <2>5. y.act.phase \in {"none", "prepare"}
    BY <1>3, <2>2
  <2>6. Follows(y, w)
    BY <1>7, <2>2 DEF Follows
  <2>7. \A d : Awaits(y, d) => Awaits(w, d) \/ d = "rollback"
    BY <1>7, <2>2
  <2>8. y.waiting = w.waiting \/ (w.s.retiring # 0 /\ y.act.phase = "none")
    BY <1>3, <1>5, <2>2
  <2>9. y.s.attempt = w.s.attempt /\ y.log.charged = w.log.charged /\ y.move.phase = "rollback"
        /\ y.s.avail \in {w.s.avail, "transitioning"}
    BY <1>3, <1>5, <2>2
  <2> QED
    BY <1>10, <2>1, <2>2, <2>3, <2>4, <2>5, <2>6, <2>7, <2>8, <2>9 DEF y
<1>11. CASE ~Returns(w)
  <2>1. PICK z \in {w, x} : DestinationSettled(w, ok) = MoveEnded(z)
    <3>1. CASE w.s.closing \/ w.s.dead \/ (ok /\ w.s.avail = "available")
      BY <3>1 DEF DestinationSettled
    <3>2. CASE ~(w.s.closing \/ w.s.dead \/ (ok /\ w.s.avail = "available"))
      <4>1. w.s.proc # 0 /\ w.s.status = "ready" /\ w.act = NoAct
        BY <1>1, <1>2, <1>8, <1>11, <3>2 DEF Returns
      <4>2. Running(w) /\ w.act = NoAct
        BY <4>1 DEF Running
      <4>3. DestinationSettled(w, ok) = [x EXCEPT !.move = Resting]
        BY <3>2, <4>2 DEF DestinationSettled, RolledBack, x
      <4> QED
        BY <4>3 DEF MoveEnded
    <3> QED
      BY <3>1, <3>2
  <2> DEFINE y == MoveEnded(z)
  <2>2. Core(z, p) /\ Follows(z, w) /\ (Excuse(z) <=> Excuse(w))
        /\ z.s.attempt = w.s.attempt /\ z.log = w.log /\ z.act = w.act
        /\ z.joined = w.joined /\ z.waiting = w.waiting /\ z.s.avail = w.s.avail
        /\ z.s.proc = w.s.proc /\ z.s.dead = w.s.dead /\ z.s.closing = w.s.closing
        /\ z.s.timer = w.s.timer /\ z.s.lock = w.s.lock /\ z.s.retiring = w.s.retiring
    BY <1>3, <1>5, <1>6, <1>7 DEF Follows
  <2>3. /\ Core(y, p) /\ Follows(y, z)
        /\ y.s = z.s /\ y.act = z.act /\ y.waiting = z.waiting /\ y.joined = z.joined
        /\ y.move = Resting /\ y.log = z.log
    BY <2>2, MoveEndedKeeps
  <2> HIDE DEF y
  <2>4. Excuse(w) \/ ~plan.retained => Excuse(y)
    <3>1. w.s.dead => w.s.closing
      BY DEF Core, Ended
    <3> QED
      BY <1>9, <1>11, <2>2, <2>3, <3>1 DEF Excuse, Returns
  <2>5. ~Returns(y) /\ Follows(y, w)
    BY <1>11, <2>2, <2>3 DEF Returns, Follows
  <2>6. \A d : Awaits(y, d) => Awaits(w, d)
    BY <2>2, <2>3 DEF Awaits
  <2> QED
    BY <1>11, <2>1, <2>2, <2>3, <2>4, <2>5, <2>6 DEF y
<1> QED
  BY <1>10, <1>11

\* What becomes of a restart attempt whose activation has settled.
LEMMA AutoSettledKeeps ==
    ASSUME NEW w, NEW p, Core(w, p), NEW ok \in BOOLEAN, NEW rapid \in BOOLEAN,
           NEW h \in 0 .. MaxHosts,
           ~ok /\ w.s.attempt = "live" /\ h # 0 => w.log.charged[h] = 0 /\ p[h] # "unborn",
           w.s.chain => w.s.retiring # 0 /\ ok
    PROVE  LET x == AutoSettled(w, ok, h, rapid)
           IN  /\ Core(x, p) /\ Follows(x, w) /\ x.s.attempt = "none"
               /\ x.act = w.act /\ x.waiting = w.waiting /\ x.joined = w.joined
               /\ x.move = w.move /\ x.s.avail = w.s.avail
               /\ w.s.chain => x.s.chain
               /\ Excuse(w) => Excuse(x)
               /\ w.s.attempt = "accounted" /\ ok => Excuse(x) /\ (w.s.retiring # 0 => x.s.chain)
               /\ w.s.attempt = "accounted" /\ w.act.phase \in {"none", "prepare"} => Excuse(x)
<1>0. w \in Worlds /\ w.s \in Records /\ p \in Processes
  BY DEF Core, Worlds
<1>a. CASE w.s.attempt = "none"
  BY <1>a DEF AutoSettled, Follows
<1>b. CASE w.s.attempt # "none"
  <2> DEFINE x == [w EXCEPT !.s.attempt = "none"]
  <2>1. /\ x.s = [w.s EXCEPT !.attempt = "none"]
        /\ x.act = w.act /\ x.waiting = w.waiting /\ x.joined = w.joined /\ x.move = w.move
        /\ x.release = w.release /\ x.close = w.close /\ x.log = w.log
    BY <1>0 DEF Worlds
  <2>2. x \in Worlds
    <3>1. [w.s EXCEPT !.attempt = "none"] \in Records
      BY <1>0 DEF Records
    <3> QED
      BY <1>0, <3>1 DEF Worlds
  <2>3. /\ x.s.proc = w.s.proc /\ x.s.retiring = w.s.retiring /\ x.s.chain = w.s.chain
        /\ x.s.attempt = "none" /\ x.s.dead = w.s.dead /\ x.s.lock = w.s.lock
        /\ x.s.ready = w.s.ready /\ x.s.closing = w.s.closing /\ x.s.timer = w.s.timer
        /\ x.s.avail = w.s.avail /\ x.s.fence = w.s.fence /\ x.s.recon = w.s.recon
        /\ x.s.rapid = w.s.rapid /\ x.s.status = w.s.status
    BY <1>0, <2>1 DEF Records
  <2>4. w.log.restarts \in Nat /\ w.s.rapid \in Nat /\ MaxAttempts \in Nat
    BY <1>0, LifecycleAssumption DEF Worlds, Logs, Records
  <2> HIDE DEF x
  <2>5. Core(x, p)
    <3>1. Placed(x, p) /\ Installed(x, p) /\ Forked(x, p) /\ Locked(x, p)
      BY <2>1, <2>3 DEF Core, Placed, Installed, Forked, Locked
    <3>2. Ended(x) /\ Charged(x, p) /\ Idle(x) /\ Shown(x)
      BY <2>1, <2>3 DEF Core, Ended, Charged, Idle, Shown
    <3>3. Paid(x)
      BY <2>1, <2>3, <2>4 DEF Core, Paid, Pays, Capped
    <3> QED
      BY <1>0, <2>2, <3>1, <3>2, <3>3 DEF Core
  <2>6. Follows(x, w) /\ (Excuse(x) <=> Excuse(w)) /\ ~w.s.dead /\ w.close # "closed"
    BY <1>b, <2>1, <2>3 DEF Core, Ended, Follows, Excuse
  <2>7. w.s.attempt = "accounted" => w.s.proc = 0 /\ ~w.s.chain /\ Room(x)
    BY <2>1, <2>3, <2>4 DEF Core, Idle, Paid, Room, Pays, Capped
  <2>8. CASE w.s.attempt = "accounted" /\ (ok \/ (w.s.proc = 0 /\ w.act = NoAct))
    <3>1. AutoSettled(w, ok, h, rapid) = Scheduled(x)
      BY <2>6, <2>8 DEF AutoSettled, x
    <3> DEFINE y == Scheduled(x)
    <3>2. /\ Core(y, p) /\ Follows(y, x)
          /\ y.act = x.act /\ y.waiting = x.waiting /\ y.joined = x.joined
          /\ y.move = x.move /\ y.s.attempt = "none" /\ y.s.avail = x.s.avail
          /\ x.close # "closed" => Excuse(y) /\ (x.s.retiring # 0 => y.s.chain)
      BY <2>3, <2>5, <2>7, <2>8, ScheduledKeeps
    <3> HIDE DEF y
    <3> QED
      BY <2>1, <2>3, <2>6, <2>7, <2>8, <3>1, <3>2 DEF Follows, y
  <2>9. CASE w.s.attempt = "live" /\ ~ok /\ w.s.proc = 0 /\ w.act = NoAct
    <3>t. PICK t \in {"none", "accounted"} : t = "none"
      OBVIOUS
    <3>0. /\ x.s.attempt # "accounted" /\ ~x.s.chain /\ x.s.proc = 0
          /\ h # 0 => x.log.charged[h] = 0 /\ p[h] # "unborn"
      BY <2>1, <2>3, <2>9
    <3> DEFINE a == Marked(x, h, rapid, t)
               y == Scheduled(a)
    <3>1. /\ Core(a, p) /\ Room(a) /\ Follows(a, x)
          /\ a.act = x.act /\ a.waiting = x.waiting /\ a.joined = x.joined
          /\ a.move = x.move /\ a.s.attempt = "none" /\ ~a.s.chain
          /\ a.s.avail = x.s.avail
          /\ a = Accounted(x, h, rapid)
      <4> HIDE DEF y
      <4>1. t = "accounted" => ~x.s.dead
        BY <3>t
      <4> QED
        BY <2>3, <2>5, <3>0, <3>t, <4>1, AccountedKeeps
    <3>2. AutoSettled(w, ok, h, rapid) = y
      BY <2>6, <2>9, <3>1 DEF AutoSettled, x
    <3> HIDE DEF a
    <3>3. a.s.proc = 0 /\ a.close # "closed"
      BY <2>1, <2>3, <2>6, <2>9, <3>1 DEF Follows
    <3>4. /\ Core(y, p) /\ Follows(y, a)
          /\ y.act = a.act /\ y.waiting = a.waiting /\ y.joined = a.joined
          /\ y.move = a.move /\ y.s.attempt = "none" /\ y.s.avail = a.s.avail
          /\ a.close # "closed" => Excuse(y) /\ (a.s.retiring # 0 => y.s.chain)
      BY <3>1, <3>3, ScheduledKeeps
    <3> HIDE DEF y
    <3> QED
      BY <2>1, <2>3, <2>6, <2>9, <3>1, <3>2, <3>3, <3>4 DEF Follows
  <2>10. CASE ~(w.s.attempt = "accounted" /\ (ok \/ (w.s.proc = 0 /\ w.act = NoAct)))
              /\ ~(w.s.attempt = "live" /\ ~ok /\ w.s.proc = 0 /\ w.act = NoAct)
    <3>1. w.s.attempt \in {"live", "accounted"}
      BY <1>0, <1>b DEF Records
    <3>2. AutoSettled(w, ok, h, rapid) = x
      BY <1>b, <2>6, <2>10, <3>1 DEF AutoSettled, x
    <3>3. w.s.attempt = "accounted" /\ w.act.phase \in {"none", "prepare"} => Excuse(x)
      <4>1. w.s.attempt = "accounted" => ~ok /\ w.act # NoAct
        BY <2>7, <2>10
      <4>2. w.act # NoAct => w.act.phase # "none"
        BY DEF Core, Idle
      <4> QED
        BY <2>1, <4>1, <4>2 DEF Excuse
    <3> QED
      BY <2>1, <2>3, <2>5, <2>6, <2>7, <2>10, <3>1, <3>2, <3>3 DEF Follows
  <2> QED
    BY <1>0, <1>b, <2>8, <2>9, <2>10
<1> QED
  BY <1>a, <1>b

\* Those that joined a running activation are answered as if it had succeeded.
LEMMA AutoAnswered ==
    ASSUME NEW w, NEW p, Core(w, p), NEW rapid \in BOOLEAN, w.s.chain => w.s.retiring # 0
    PROVE  LET x == AutoSettled(w, TRUE, 0, rapid)
           IN  /\ Core(x, p) /\ Follows(x, w) /\ x.s.attempt = "none"
               /\ x.act = w.act /\ x.waiting = w.waiting /\ x.joined = w.joined
               /\ x.move = w.move /\ x.s.avail = w.s.avail
               /\ w.s.chain => x.s.chain
               /\ Excuse(w) => Excuse(x)
               /\ w.s.attempt = "accounted" => Excuse(x) /\ (w.s.retiring # 0 => x.s.chain)
<1>1. PICK yes \in BOOLEAN, nil \in 0 .. MaxHosts : yes = TRUE /\ nil = 0
  BY HostFacts
<1>2. ~yes /\ w.s.attempt = "live" /\ nil # 0 => w.log.charged[nil] = 0 /\ p[nil] # "unborn"
  BY <1>1
<1>3. w.s.chain => w.s.retiring # 0 /\ yes
  BY <1>1
<1> DEFINE z == AutoSettled(w, yes, nil, rapid)
<1>4. /\ Core(z, p) /\ Follows(z, w) /\ z.s.attempt = "none"
      /\ z.act = w.act /\ z.waiting = w.waiting /\ z.joined = w.joined
      /\ z.move = w.move /\ z.s.avail = w.s.avail
      /\ w.s.chain => z.s.chain
      /\ Excuse(w) => Excuse(z)
      /\ w.s.attempt = "accounted" /\ yes => Excuse(z) /\ (w.s.retiring # 0 => z.s.chain)
  BY <1>2, <1>3, AutoSettledKeeps
<1>5. z = AutoSettled(w, TRUE, 0, rapid)
  BY <1>1
<1> HIDE DEF z
<1> QED
  BY <1>1, <1>4, <1>5

\* The finally of activateSession: whoever joined is answered, then the caller;
\* a restart that is owed is scheduled, and a move ends or goes back.
Reasons(w) ==
    \/ ~w.s.lock \/ w.s.proc # 0 \/ w.s.retiring # 0 \/ w.s.timer \/ w.s.closing
    \/ w.s.attempt = "accounted" \/ (~plan.retained /\ Awaits(w, "destination"))

\* The finally of activateSession: those that joined, then the caller.
LEMMA FinishedKeeps ==
    ASSUME NEW w, NEW p, Core(w, p), Known(w), w.waiting = <<>>, w.act.phase # "none",
           w.s.proc = 0 \/ w.act.phase = "resync",
           w.s.chain => w.s.retiring # 0,
           NEW ok \in BOOLEAN, ok \/ (w.s.retiring = 0 /\ w.s.avail # "available"),
           NEW rapid \in BOOLEAN
    PROVE  LET x == Finished(w, ok, rapid)
           IN  /\ Core(x, p) /\ Known(x) /\ Follows(x, w)
               /\ x.s.attempt = "none" /\ x.act.phase \in {"none", "prepare"}
               /\ x.waiting = <<>> \/ (w.s.retiring # 0 /\ x.act.phase = "none")
               /\ w.s.attempt = "accounted" /\ w.s.retiring # 0 => x.s.chain
               /\ w.move.phase \notin {"destination", "rollback"} => x.move = w.move
               /\ Reasons(w) => Excuse(x)
<1>0. w \in Worlds /\ w.s \in Records /\ w.act \in Acts /\ p \in Processes
  BY DEF Core, Worlds
<1> DEFINE Met(c) == c \in w.joined \/ w.act.caller = c
<1>k. /\ \A c : Awaits(w, c) <=> Met(c)
      /\ w.s.attempt # "none" => Met("auto")
      /\ Met("destination") => w.move.phase = "destination"
      /\ Met("rollback") => w.move.phase = "rollback"
  <2>1. \A c : Awaits(w, c) <=> Met(c)
    BY DEF Awaits
  <2> QED
    BY <2>1 DEF Known
<1>r. Met("destination") => w.release.phase \notin {"retire", "unlock"}
  BY <1>k DEF Core, Shown, Resting
<1> HIDE DEF Met
<1> DEFINE x == [w EXCEPT !.act = NoAct, !.joined = {}]
           J(y, c) == IF c \in w.joined THEN Settled(y, c, TRUE, 0, rapid) ELSE y
           y1 == J(x, "auto")
           y2 == J(y1, "destination")
           y3 == J(y2, "rollback")
           f == Settled(y3, w.act.caller, ok, w.act.host, rapid)
           Stage(y) == /\ Core(y, p) /\ Follows(y, w)
                       /\ y.act.phase \in {"none", "prepare"}
                       /\ y.waiting = <<>> \/ (w.s.retiring # 0 /\ y.act.phase = "none")
                       /\ y.s.avail = "available" => w.s.avail = "available"
<1>f. Finished(w, ok, rapid) = f
  BY DEF Finished
<1>1. /\ x.s = w.s /\ x.act = NoAct /\ x.joined = {} /\ x.waiting = <<>> /\ x.move = w.move
      /\ x.release = w.release /\ x.close = w.close /\ x.log = w.log
  BY <1>0 DEF Worlds
<1>2. Stage(x) /\ (Excuse(x) <=> w.s.proc # 0 \/ w.s.retiring # 0 \/ w.s.timer \/ w.s.closing
                                   \/ ~w.s.lock)
      /\ \A d : ~Awaits(x, d)
  <2>1. x \in Worlds
    <3>1. NoAct \in Acts
      BY HostFacts DEF NoAct, Acts
    <3> QED
      BY <1>0, <3>1 DEF Worlds
  <2> HIDE DEF x
  <2>2. x.act.phase = "none" /\ x.act.host = 0
    BY <1>1 DEF NoAct
  <2>3. Placed(x, p) /\ Installed(x, p) /\ Forked(x, p) /\ Locked(x, p)
    BY <1>1, <2>2 DEF Core, Placed, Installed, Forked, Locked
  <2>4. Ended(x) /\ Charged(x, p) /\ Idle(x) /\ Paid(x)
    BY <1>1, <2>2 DEF Core, Ended, Charged, Idle, Paid
  <2>5. Shown(x)
    BY <1>1, <2>2 DEF Core, Shown
  <2>6. Core(x, p)
    BY <1>0, <2>1, <2>3, <2>4, <2>5 DEF Core
  <2>7. \A d : ~Awaits(x, d)
    BY <1>1, <2>2 DEF Awaits
  <2> QED
    BY <1>1, <2>2, <2>6, <2>7 DEF Follows, Excuse
<1>3. /\ Stage(y1) /\ (Excuse(x) => Excuse(y1)) /\ (\A d : ~Awaits(y1, d)) /\ y1.move = w.move
      /\ y1.act.phase = "none"
      /\ "auto" \in w.joined => y1.s.attempt = "none"
      /\ "auto" \notin w.joined => y1.s.attempt = w.s.attempt /\ y1.log = w.log
      /\ "auto" \in w.joined /\ w.s.attempt = "accounted" =>
            Excuse(y1) /\ (w.s.retiring # 0 => y1.s.chain)
  <2>1. CASE "auto" \in w.joined
    <3>1. y1 = AutoSettled(x, TRUE, 0, rapid)
      BY <2>1 DEF Settled
    <3> HIDE DEF x, y1
    <3> DEFINE z == AutoSettled(x, TRUE, 0, rapid)
    <3>2. /\ Core(z, p) /\ Follows(z, x) /\ z.s.attempt = "none"
          /\ z.act = x.act /\ z.waiting = x.waiting /\ z.joined = x.joined
          /\ z.move = x.move /\ z.s.avail = x.s.avail
          /\ x.s.chain => z.s.chain
          /\ Excuse(x) => Excuse(z)
          /\ x.s.attempt = "accounted" => Excuse(z) /\ (x.s.retiring # 0 => z.s.chain)
      BY <1>1, <1>2, AutoAnswered
    <3> HIDE DEF z
    <3>3. \A d : ~Awaits(z, d)
      BY <1>2, <3>2 DEF Awaits
    <3>4. Stage(z)
      BY <1>1, <1>2, <3>2 DEF Follows, NoAct
    <3>5. z.act.phase = "none" /\ z.move = w.move /\ x.s = w.s
      BY <1>1, <3>2 DEF NoAct
    <3> QED
      BY <2>1, <3>1, <3>2, <3>3, <3>4, <3>5 DEF z
  <2>2. CASE "auto" \notin w.joined
    <3>1. y1 = x
      BY <2>2
    <3> QED
      BY <1>1, <1>2, <2>2, <3>1 DEF NoAct
  <2> QED
    BY <2>1, <2>2
<1> HIDE DEF x, y1
<1>4. /\ Stage(y2) /\ (Excuse(y1) => Excuse(y2)) /\ y2.s.attempt = y1.s.attempt
      /\ y2.log.charged = y1.log.charged
      /\ y1.s.chain => y2.s.chain
      /\ "destination" \in w.joined /\ ~plan.retained => Excuse(y2)
      /\ "destination" \notin w.joined => y2.move = w.move
      /\ \A d : Awaits(y2, d) => /\ d = "rollback" /\ Returns(y2) /\ y2.move.phase = "rollback"
                                 /\ "destination" \in w.joined
  <2>1. CASE "destination" \in w.joined
    <3>1. y2 = DestinationSettled(y1, TRUE)
      BY <2>1 DEF Settled
    <3> HIDE DEF y2
    <3> DEFINE z == DestinationSettled(y1, TRUE)
    <3>0. y1.release.phase \notin {"retire", "unlock"}
      BY <1>3, <1>r, <2>1 DEF Follows, Met
    <3>2. /\ Core(z, p) /\ Follows(z, y1)
          /\ z.s.attempt = y1.s.attempt /\ z.log.charged = y1.log.charged
          /\ z.act.phase \in {"none", "prepare"}
          /\ Excuse(y1) \/ ~plan.retained => Excuse(z)
          /\ Returns(y1) <=> Returns(z)
          /\ Returns(y1) => z.move.phase = "rollback"
          /\ ~Returns(y1) => /\ z.move = Resting /\ z.act = y1.act
                             /\ z.joined = y1.joined /\ z.waiting = y1.waiting
          /\ \A d : Awaits(z, d) => Awaits(y1, d) \/ d = "rollback"
          /\ z.waiting = y1.waiting \/ (y1.s.retiring # 0 /\ z.act.phase = "none")
          /\ z.s.avail = "available" => y1.s.avail = "available"
      BY <1>3, <3>0, DestinationSettledKeeps
    <3> HIDE DEF z
    <3>3. \A d : Awaits(z, d) => d = "rollback" /\ Returns(z) /\ z.move.phase = "rollback"
      <4>1. ~Returns(y1) => \A d : ~Awaits(z, d)
        BY <1>3, <3>2 DEF Awaits
      <4> QED
        BY <1>3, <3>2, <4>1
    <3>4. Stage(z)
      BY <1>3, <3>2 DEF Core, Placed, Follows
    <3> QED
      BY <2>1, <3>1, <3>2, <3>3, <3>4 DEF Follows, z
  <2>2. CASE "destination" \notin w.joined
    <3>1. y2 = y1
      BY <2>2
    <3> QED
      BY <1>3, <2>2, <3>1
  <2> QED
    BY <2>1, <2>2
<1> HIDE DEF y2
<1>5. /\ Stage(y3) /\ (Excuse(y2) => Excuse(y3)) /\ y3.s.attempt = y2.s.attempt
      /\ y3.log.charged = y2.log.charged
      /\ y2.s.chain => y3.s.chain
      /\ "destination" \notin w.joined /\ "rollback" \notin w.joined => y3.move = w.move
      /\ \A d : Awaits(y3, d) => /\ d = "rollback" /\ Returns(y3) /\ y3.move.phase = "rollback"
                                 /\ "destination" \in w.joined
  <2>1. CASE "rollback" \in w.joined
    <3>1. y3 = MoveEnded(y2)
      BY <2>1 DEF Settled
    <3> HIDE DEF y3
    <3> DEFINE z == MoveEnded(y2)
    <3>2. /\ Core(z, p) /\ Follows(z, y2)
          /\ z.s = y2.s /\ z.act = y2.act /\ z.waiting = y2.waiting /\ z.joined = y2.joined
          /\ z.move = Resting /\ z.log = y2.log
      BY <1>4, MoveEndedKeeps
    <3> HIDE DEF z
    <3>3. "destination" \notin w.joined
      BY <1>k, <2>1 DEF Met
    <3>4. (\A d : ~Awaits(z, d)) /\ (Excuse(y2) => Excuse(z))
      BY <1>4, <3>2, <3>3 DEF Awaits, Excuse
    <3>5. Stage(z)
      BY <1>4, <3>2 DEF Follows
    <3> QED
      BY <2>1, <3>1, <3>2, <3>4, <3>5 DEF z
  <2>2. CASE "rollback" \notin w.joined
    <3>1. y3 = y2
      BY <2>2
    <3> QED
      BY <1>4, <2>2, <3>1
  <2> QED
    BY <2>1, <2>2
<1> HIDE DEF y3
<1>6. /\ Stage(f) /\ (Excuse(y3) => Excuse(f)) /\ f.s.attempt = "none"
      /\ y3.s.chain => f.s.chain
      /\ w.act.caller = "destination" /\ ~plan.retained => Excuse(f)
      /\ w.act.caller = "auto" /\ y3.s.attempt = "accounted" =>
            Excuse(f) /\ (w.s.retiring # 0 => f.s.chain)
      /\ w.act.caller \notin {"destination", "rollback"} => f.move = y3.move
      /\ \A d : Awaits(f, d) => d = "rollback" /\ f.move.phase = "rollback"
  <2>0. w.act.caller # "auto" => y3.s.attempt = "none"
    BY <1>3, <1>4, <1>5, <1>k DEF Met
  <2>1. CASE w.act.caller = "auto"
    <3>1. f = AutoSettled(y3, ok, w.act.host, rapid)
      BY <2>1 DEF Settled
    <3>2. /\ w.act.host \in 0 .. MaxHosts
          /\ y3.s.chain => y3.s.retiring # 0 /\ ok
      BY <1>0, <1>5 DEF Acts, Follows
    <3>3. y3.s.attempt = "live" /\ w.act.host # 0
             => y3.log.charged[w.act.host] = 0 /\ p[w.act.host] # "unborn"
      <4>1. y3.s.attempt = "live" => w.s.attempt = "live" /\ y3.log.charged = w.log.charged
        BY <1>3, <1>4, <1>5
      <4> QED
        BY <4>1 DEF Core, Charged, Forked
    <3> HIDE DEF f
    <3> DEFINE z == AutoSettled(y3, ok, w.act.host, rapid)
    <3>4. /\ Core(z, p) /\ Follows(z, y3) /\ z.s.attempt = "none"
          /\ z.act = y3.act /\ z.waiting = y3.waiting /\ z.joined = y3.joined
          /\ z.move = y3.move /\ z.s.avail = y3.s.avail
          /\ y3.s.chain => z.s.chain
          /\ Excuse(y3) => Excuse(z)
          /\ y3.s.attempt = "accounted" /\ ok => Excuse(z) /\ (y3.s.retiring # 0 => z.s.chain)
          /\ y3.s.attempt = "accounted" /\ y3.act.phase \in {"none", "prepare"} => Excuse(z)
      BY <1>5, <3>2, <3>3, AutoSettledKeeps
    <3> HIDE DEF z
    <3>5. \A d : Awaits(z, d) => d = "rollback" /\ z.move.phase = "rollback"
      BY <1>5, <3>4 DEF Awaits
    <3>6. Stage(z)
      BY <1>5, <3>4 DEF Follows
    <3>7. y3.s.retiring = w.s.retiring
      BY <1>5 DEF Follows
    <3> QED
      BY <1>5, <2>1, <3>1, <3>4, <3>5, <3>6, <3>7 DEF z
  <2>2. CASE w.act.caller = "destination"
    <3>1. f = DestinationSettled(y3, ok)
      BY <2>2 DEF Settled
    <3> HIDE DEF f
    <3> DEFINE z == DestinationSettled(y3, ok)
    <3>2. y3.release.phase \notin {"retire", "unlock"} /\ (ok \/ y3.s.avail # "available")
      BY <1>5, <1>r, <2>2 DEF Follows, Met
    <3>3. /\ Core(z, p) /\ Follows(z, y3)
          /\ z.s.attempt = y3.s.attempt
          /\ z.act.phase \in {"none", "prepare"}
          /\ Excuse(y3) \/ ~plan.retained => Excuse(z)
          /\ Returns(y3) <=> Returns(z)
          /\ Returns(y3) => z.move.phase = "rollback"
          /\ ~Returns(y3) => /\ z.move = Resting /\ z.act = y3.act
                             /\ z.joined = y3.joined /\ z.waiting = y3.waiting
          /\ \A d : Awaits(z, d) => Awaits(y3, d) \/ d = "rollback"
          /\ z.waiting = y3.waiting \/ (y3.s.retiring # 0 /\ z.act.phase = "none")
          /\ z.s.avail = "available" => y3.s.avail = "available"
      BY <1>5, <3>2, DestinationSettledKeeps
    <3> HIDE DEF z
    <3>4. \A d : Awaits(z, d) => d = "rollback" /\ z.move.phase = "rollback"
      <4>1. ~Returns(y3) => \A d : ~Awaits(z, d)
        <5>1. ~Returns(y3) => \A d : ~Awaits(y3, d)
          BY <1>5
        <5> QED
          BY <3>3, <5>1 DEF Awaits
      <4> QED
        BY <1>5, <3>3, <4>1
    <3>5. Stage(z)
      BY <1>5, <3>3 DEF Core, Placed, Follows
    <3> QED
      BY <1>5, <2>0, <2>2, <3>1, <3>3, <3>4, <3>5 DEF Follows, z
  <2>3. CASE w.act.caller = "rollback"
    <3>1. f = MoveEnded(y3)
      BY <2>3 DEF Settled
    <3> HIDE DEF f
    <3> DEFINE z == MoveEnded(y3)
    <3>2. /\ Core(z, p) /\ Follows(z, y3)
          /\ z.s = y3.s /\ z.act = y3.act /\ z.waiting = y3.waiting /\ z.joined = y3.joined
          /\ z.move = Resting /\ z.log = y3.log
      BY <1>5, MoveEndedKeeps
    <3> HIDE DEF z
    <3>3. "destination" \notin w.joined
      BY <1>k, <2>3 DEF Met
    <3>4. (\A d : ~Awaits(z, d)) /\ (Excuse(y3) => Excuse(z))
      BY <1>5, <3>2, <3>3 DEF Awaits, Excuse
    <3>5. Stage(z)
      BY <1>5, <3>2 DEF Follows
    <3> QED
      BY <2>0, <2>3, <3>1, <3>2, <3>4, <3>5 DEF z
  <2>4. CASE w.act.caller \notin {"auto", "destination", "rollback"}
    <3>1. f = y3
      BY <2>4 DEF Settled
    <3> QED
      BY <1>5, <2>0, <2>4, <3>1
  <2> QED
    BY <2>1, <2>2, <2>3, <2>4
<1> HIDE DEF f
<1>7. Known(f)
  BY <1>6 DEF Known
<1>8. w.s.attempt = "accounted" => Excuse(f) /\ (w.s.retiring # 0 => f.s.chain)
  <2>1. CASE "auto" \in w.joined
    BY <1>3, <1>4, <1>5, <1>6, <2>1
  <2>2. CASE "auto" \notin w.joined
    <3>1. w.s.attempt = "accounted" => w.act.caller = "auto" /\ y3.s.attempt = "accounted"
      BY <1>3, <1>4, <1>5, <1>k, <2>2 DEF Met
    <3> QED
      BY <1>6, <3>1
  <2> QED
    BY <2>1, <2>2
<1>9. Reasons(w) => Excuse(f)
  <2>1. ~plan.retained /\ Awaits(w, "destination") => Excuse(f)
    BY <1>4, <1>5, <1>6, <1>k DEF Met
  <2>2. Excuse(x) => Excuse(f)
    BY <1>3, <1>4, <1>5, <1>6
  <2> QED
    BY <1>2, <1>8, <2>1, <2>2 DEF Reasons
<1>10. w.move.phase \notin {"destination", "rollback"} => f.move = w.move
  BY <1>5, <1>6, <1>k DEF Met
<1> QED
  BY <1>6, <1>7, <1>8, <1>9, <1>10, <1>f

(***************************************************************************)
(* The continuations of a retirement.  Between them nothing is installed   *)
(* or retiring; Dues is what is still to be done before the lock may stay  *)
(* without a reason.                                                       *)
(***************************************************************************)
Emptied(w, p) ==
    /\ Core(w, p) /\ Known(w) /\ w.s.proc = 0 /\ w.s.retiring = 0
    /\ w.waiting # <<>> => w.act.phase \in {"none", "prepare"}

Dues(w) ==
    \/ Excuse(w) \/ w.s.chain \/ w.s.attempt = "accounted" \/ w.move.phase = "retire"
    \/ w.release.phase = "retire" \/ w.act.phase = "fail" \/ Awaits(w, "destination")

\* The restart that waited for the exit is scheduled.
LEMMA AfterChainKeeps ==
    ASSUME NEW w, NEW p, Emptied(w, p)
    PROVE  LET x == AfterChain(w)
           IN  /\ Emptied(x, p) /\ ~x.s.chain
               /\ x.release = w.release /\ x.close = w.close
               /\ Dues(w) => Dues(x)
<1>0. w \in Worlds /\ w.s \in Records /\ w.log \in Logs /\ p \in Processes
  BY DEF Emptied, Core, Worlds
<1>1. CASE ~w.s.chain
  BY <1>1 DEF AfterChain
<1>2. CASE w.s.chain
  <2> DEFINE c == [w EXCEPT !.s.chain = FALSE]
             x == Scheduled(c)
  <2>1. /\ c.s = [w.s EXCEPT !.chain = FALSE]
        /\ c.act = w.act /\ c.waiting = w.waiting /\ c.joined = w.joined /\ c.move = w.move
        /\ c.release = w.release /\ c.close = w.close /\ c.log = w.log
    BY <1>0 DEF Worlds
  <2>2. c \in Worlds
    <3>1. [w.s EXCEPT !.chain = FALSE] \in Records
      BY <1>0 DEF Records
    <3> QED
      BY <1>0, <3>1 DEF Worlds
  <2>3. /\ c.s.proc = w.s.proc /\ c.s.retiring = w.s.retiring /\ ~c.s.chain
        /\ c.s.attempt = w.s.attempt /\ c.s.dead = w.s.dead /\ c.s.lock = w.s.lock
        /\ c.s.ready = w.s.ready /\ c.s.closing = w.s.closing /\ c.s.timer = w.s.timer
        /\ c.s.avail = w.s.avail /\ c.s.fence = w.s.fence /\ c.s.recon = w.s.recon
        /\ c.s.rapid = w.s.rapid /\ c.s.status = w.s.status
    BY <1>0, <2>1 DEF Records
  <2>4. w.log.restarts \in Nat /\ w.s.rapid \in Nat /\ MaxAttempts \in Nat
    BY <1>0, LifecycleAssumption DEF Logs, Records
  <2> HIDE DEF c
  <2>5. Core(c, p)
    <3>1. Placed(c, p) /\ Installed(c, p) /\ Forked(c, p) /\ Locked(c, p)
      BY <2>1, <2>3 DEF Emptied, Core, Placed, Installed, Forked, Locked
    <3>2. Ended(c) /\ Charged(c, p) /\ Idle(c) /\ Shown(c)
      BY <2>1, <2>3 DEF Emptied, Core, Ended, Charged, Idle, Shown
    <3>3. Paid(c)
      BY <2>1, <2>3, <2>4 DEF Emptied, Core, Paid, Pays, Capped
    <3> QED
      BY <1>0, <2>2, <3>1, <3>2, <3>3 DEF Core
  <2>6. Room(c) /\ c.s.attempt # "accounted"
    BY <1>2, <2>1, <2>3, <2>4 DEF Emptied, Core, Idle, Paid, Room, Pays, Capped
  <2>7. c.s.proc = 0 /\ c.s.retiring = 0 /\ (c.close = "closed" => ~c.s.lock)
    BY <2>1, <2>3 DEF Emptied, Core, Locked
  <2>8. /\ Core(x, p) /\ Follows(x, c)
        /\ x.act = c.act /\ x.waiting = c.waiting /\ x.joined = c.joined
        /\ x.move = c.move /\ x.s.attempt = c.s.attempt
        /\ c.close # "closed" => Excuse(x)
    BY <2>3, <2>5, <2>6, <2>7, ScheduledKeeps
  <2> HIDE DEF x
  <2>9. AfterChain(w) = x
    BY <1>2 DEF AfterChain, x, c
  <2>10. Excuse(x)
    BY <2>7, <2>8 DEF Follows, Excuse
  <2>11. Known(x)
    BY <2>1, <2>3, <2>8 DEF Emptied, Known, Awaits
  <2> QED
    BY <2>1, <2>3, <2>7, <2>8, <2>9, <2>10, <2>11 DEF Emptied, Follows, Dues
<1> QED
  BY <1>1, <1>2

\* The move to another worktree goes on to its destination.
LEMMA AfterMoveKeeps ==
    ASSUME NEW w, NEW p, Emptied(w, p), ~w.s.chain
    PROVE  LET x == AfterMove(w)
           IN  /\ Emptied(x, p) /\ ~x.s.chain /\ x.move.phase # "retire"
               /\ x.release = w.release /\ x.close = w.close
               /\ Dues(w) => Dues(x)
<1>0. w \in Worlds /\ w.s \in Records /\ w.move \in Moves /\ p \in Processes
  BY DEF Emptied, Core, Worlds
<1>1. CASE w.move.phase # "retire"
  BY <1>1 DEF AfterMove
<1>2. CASE w.move.phase = "retire"
  <2> DEFINE m == [w EXCEPT !.s.checkout = "new", !.move.phase = "destination"]
  <2>1. /\ m.s = [w.s EXCEPT !.checkout = "new"]
        /\ m.move = [w.move EXCEPT !.phase = "destination"]
        /\ m.act = w.act /\ m.waiting = w.waiting /\ m.joined = w.joined
        /\ m.release = w.release /\ m.close = w.close /\ m.log = w.log
    BY <1>0 DEF Worlds
  <2>2. m \in Worlds
    <3>1. [w.s EXCEPT !.checkout = "new"] \in Records
      BY <1>0 DEF Records
    <3>2. [w.move EXCEPT !.phase = "destination"] \in Moves
      BY <1>0 DEF Moves
    <3> QED
      BY <1>0, <3>1, <3>2 DEF Worlds
  <2>3. /\ m.s.proc = w.s.proc /\ m.s.retiring = w.s.retiring /\ m.s.chain = w.s.chain
        /\ m.s.attempt = w.s.attempt /\ m.s.dead = w.s.dead /\ m.s.lock = w.s.lock
        /\ m.s.ready = w.s.ready /\ m.s.closing = w.s.closing /\ m.s.timer = w.s.timer
        /\ m.s.avail = w.s.avail /\ m.s.fence = w.s.fence /\ m.s.recon = w.s.recon
        /\ m.s.rapid = w.s.rapid /\ m.s.status = w.s.status
        /\ m.move.phase = "destination"
    BY <1>0, <2>1 DEF Records, Moves
  <2>4. w.release.phase \notin {"retire", "unlock"}
    BY <1>2 DEF Emptied, Core, Shown, Resting
  <2> HIDE DEF m
  <2>5. Core(m, p)
    <3>1. Placed(m, p) /\ Installed(m, p) /\ Forked(m, p) /\ Locked(m, p)
      BY <2>1, <2>3 DEF Emptied, Core, Placed, Installed, Forked, Locked
    <3>2. Ended(m) /\ Charged(m, p) /\ Idle(m) /\ Paid(m)
      BY <2>1, <2>3 DEF Emptied, Core, Ended, Charged, Idle, Paid
    <3>3. Shown(m)
      BY <2>1, <2>3, <2>4 DEF Emptied, Core, Shown
    <3> QED
      BY <1>0, <2>2, <3>1, <3>2, <3>3 DEF Core
  <2>6. /\ ~Awaits(w, "destination") /\ ~Awaits(w, "rollback")
        /\ \A d : Awaits(m, d) <=> Awaits(w, d)
    BY <1>2, <2>1 DEF Emptied, Known, Awaits
  <2>7. CASE w.s.dead
    <3> DEFINE x == MoveEnded(m)
    <3>1. /\ Core(x, p) /\ Follows(x, m)
          /\ x.s = m.s /\ x.act = m.act /\ x.waiting = m.waiting /\ x.joined = m.joined
          /\ x.move = Resting
      BY <2>5, MoveEndedKeeps
    <3>2. AfterMove(w) = x
      BY <1>2, <2>3, <2>7 DEF AfterMove, m
    <3> HIDE DEF x
    <3>3. Known(x)
      BY <2>1, <2>3, <2>6, <3>1 DEF Emptied, Known, Awaits
    <3>4. Excuse(x)
      BY <2>3, <2>7, <3>1 DEF Emptied, Core, Ended, Excuse
    <3>5. x.move.phase = "none"
      BY <3>1 DEF Resting
    <3> QED
      BY <2>1, <2>3, <3>1, <3>2, <3>3, <3>4, <3>5 DEF Emptied, Follows, Dues
  <2>8. CASE ~w.s.dead
    <3>1. PICK c \in Callers, v \in Visits \cup {None} : c = "destination" /\ v = None
      BY DEF Callers
    <3> DEFINE x == Enter(m, c, v)
    <3>2. m.s.proc = 0 /\ m.s.retiring = 0
      BY <2>3 DEF Emptied
    <3>3. /\ Core(x, p) /\ Follows(x, m)
          /\ x.move = m.move /\ x.s.attempt = m.s.attempt
          /\ Awaits(x, c)
          /\ \A d : Awaits(m, d) => Awaits(x, d)
          /\ \A d : Awaits(x, d) => Awaits(m, d) \/ d = c
          /\ m.act.phase # "none" => /\ x.act = m.act /\ x.waiting = m.waiting
          /\ m.act.phase = "none" /\ m.s.retiring = 0 =>
                x.act.phase = "prepare" /\ x.waiting = m.waiting
      BY <2>5, <3>2, EnterKeeps
    <3>4. AfterMove(w) = x
      BY <1>2, <2>3, <2>8, <3>1 DEF AfterMove, m
    <3> HIDE DEF x
    <3>5. x.s.attempt = "accounted" => x.act.phase # "none" /\ x.act = w.act
      BY <2>1, <2>3, <3>3 DEF Emptied, Known
    <3>6. Known(x)
      BY <2>3, <2>6, <3>1, <3>3, <3>5 DEF Emptied, Known
    <3>7. x.waiting # <<>> => x.act.phase \in {"none", "prepare"}
      BY <2>1, <3>2, <3>3 DEF Emptied
    <3>8. Dues(x)
      BY <3>1, <3>3 DEF Dues
    <3> QED
      BY <2>1, <2>3, <3>2, <3>3, <3>4, <3>6, <3>7, <3>8 DEF Emptied, Follows
  <2> QED
    BY <2>7, <2>8
<1> QED
  BY <1>1, <1>2

\* The lock of a released visit is let go of.
LEMMA AfterReleaseKeeps ==
    ASSUME NEW w, NEW p, Emptied(w, p), ~w.s.chain, w.move.phase # "retire"
    PROVE  LET x == AfterRelease(w)
           IN  /\ Emptied(x, p) /\ ~x.s.chain /\ x.move.phase # "retire"
               /\ x.release.phase # "retire" /\ x.close = w.close
               /\ Dues(w) => Dues(x)
<1>0. w \in Worlds /\ w.s \in Records /\ w.release \in Releases /\ p \in Processes
  BY DEF Emptied, Core, Worlds
<1>1. CASE w.release.phase # "retire"
  BY <1>1 DEF AfterRelease
<1>2. CASE w.release.phase = "retire"
  <2> DEFINE x == [w EXCEPT !.release.phase = "unlock", !.s.lock = FALSE]
  <2>1. /\ x.s = [w.s EXCEPT !.lock = FALSE]
        /\ x.release = [w.release EXCEPT !.phase = "unlock"]
        /\ x.act = w.act /\ x.waiting = w.waiting /\ x.joined = w.joined
        /\ x.move = w.move /\ x.close = w.close /\ x.log = w.log
    BY <1>0 DEF Worlds
  <2>2. x \in Worlds
    <3>1. [w.s EXCEPT !.lock = FALSE] \in Records
      BY <1>0 DEF Records
    <3>2. [w.release EXCEPT !.phase = "unlock"] \in Releases
      BY <1>0 DEF Releases
    <3> QED
      BY <1>0, <3>1, <3>2 DEF Worlds
  <2>3. /\ x.s.proc = w.s.proc /\ x.s.retiring = w.s.retiring /\ x.s.chain = w.s.chain
        /\ x.s.attempt = w.s.attempt /\ x.s.dead = w.s.dead /\ ~x.s.lock
        /\ x.s.ready = w.s.ready /\ x.s.closing = w.s.closing /\ x.s.timer = w.s.timer
        /\ x.s.avail = w.s.avail /\ x.s.fence = w.s.fence /\ x.s.recon = w.s.recon
        /\ x.s.rapid = w.s.rapid /\ x.s.status = w.s.status
        /\ x.release.phase = "unlock"
    BY <1>0, <2>1 DEF Records, Releases
  <2> HIDE DEF x
  <2>4. Placed(x, p) /\ Installed(x, p) /\ Forked(x, p)
    BY <2>1, <2>3 DEF Emptied, Core, Placed, Installed, Forked
  <2>5. Locked(x, p)
    BY <2>1, <2>3 DEF Emptied, Core, Locked
  <2>6. Ended(x) /\ Charged(x, p) /\ Idle(x) /\ Paid(x)
    BY <2>1, <2>3 DEF Emptied, Core, Ended, Charged, Idle, Paid
  <2>7. Shown(x)
    BY <1>2, <2>1, <2>3 DEF Emptied, Core, Shown
  <2>8. Core(x, p)
    BY <1>0, <2>2, <2>4, <2>5, <2>6, <2>7 DEF Core
  <2>9. Known(x) /\ Excuse(x)
    BY <2>1, <2>3 DEF Emptied, Known, Awaits, Excuse
  <2>10. AfterRelease(w) = x
    BY <1>2 DEF AfterRelease, x
  <2> QED
    BY <2>1, <2>3, <2>8, <2>9, <2>10 DEF Emptied, Dues
<1> QED
  BY <1>1, <1>2

\* The activation that waited for the exit fails or is over.
LEMMA AfterActivationKeeps ==
    ASSUME NEW w, NEW p, Emptied(w, p), ~w.s.chain, w.move.phase # "retire",
           w.release.phase # "retire", NEW rapid \in BOOLEAN
    PROVE  LET x == AfterActivation(w, rapid)
           IN  /\ Emptied(x, p) /\ ~x.s.chain
               /\ x.release.phase # "retire" /\ x.close = w.close
               /\ x.act.phase \in {"none", "prepare", "recover", "unlock"}
               /\ ~plan.retained /\ Dues(w)
                    => Excuse(x) \/ x.act.phase # "none" \/ x.waiting # <<>>
<1>0. w \in Worlds /\ w.s \in Records /\ w.act \in Acts /\ p \in Processes
  BY DEF Emptied, Core, Worlds
<1> DEFINE x == AfterActivation(w, rapid)
<1>1. CASE w.act.phase = "fail"
  <2> DEFINE f == Failing(w)
  <2>1. /\ Core(f, p)
        /\ f.act = [w.act EXCEPT !.phase = "unlock"]
        /\ f.waiting = w.waiting /\ f.joined = w.joined /\ f.move = w.move
        /\ f.release = w.release /\ f.close = w.close
        /\ f.s.proc = 0 /\ f.s.retiring = 0 /\ f.s.chain = w.s.chain
        /\ f.s.attempt = w.s.attempt /\ ~f.s.lock
    BY <1>1, FailingKeeps DEF Emptied
  <2>2. x = f
    BY <1>1 DEF AfterActivation
  <2> HIDE DEF f
  <2>3. f.act.phase = "unlock" /\ f.act.caller = w.act.caller
    BY <1>0, <2>1 DEF Acts
  <2>4. Known(f)
    BY <1>1, <2>1, <2>3 DEF Emptied, Known, Awaits
  <2>5. f.waiting = <<>> /\ Excuse(f)
    BY <1>1, <2>1 DEF Emptied, Excuse
  <2> QED
    BY <2>1, <2>2, <2>3, <2>4, <2>5 DEF Emptied
<1>2. CASE w.act.phase \in {"boot", "drop"}
  <2>1. PICK ok \in BOOLEAN : ok = TRUE
    OBVIOUS
  <2> DEFINE f == Finished(w, ok, rapid)
  <2>2. w.waiting = <<>> /\ ok
    BY <1>2, <2>1 DEF Emptied
  <2>3. /\ Core(f, p) /\ Known(f) /\ Follows(f, w)
        /\ f.act.phase \in {"none", "prepare"}
        /\ f.waiting = <<>> \/ (w.s.retiring # 0 /\ f.act.phase = "none")
        /\ Reasons(w) => Excuse(f)
    BY <1>2, <2>2, FinishedKeeps DEF Emptied
  <2>4. x = f
    BY <1>2, <2>1 DEF AfterActivation
  <2> HIDE DEF f
  <2>5. ~plan.retained /\ Dues(w) => Reasons(w)
    BY <1>2 DEF Dues, Reasons, Excuse
  <2> QED
    BY <2>3, <2>4, <2>5 DEF Emptied, Follows
<1>3. CASE w.act.phase = "resync"
  <2>1. PICK ok \in BOOLEAN : ok = TRUE
    OBVIOUS
  <2> DEFINE u == [w EXCEPT !.s.avail = "unavailable"]
             f == Finished(u, ok, rapid)
  <2>2. /\ Core(u, p) /\ Known(u) /\ u.s.proc = 0 /\ u.s.retiring = 0 /\ ~u.s.chain
        /\ u.waiting = w.waiting /\ u.act = w.act /\ u.release = w.release /\ u.close = w.close
        /\ Reasons(w) => Reasons(u)
    <3>1. /\ u.s = [w.s EXCEPT !.avail = "unavailable"]
          /\ u.act = w.act /\ u.waiting = w.waiting /\ u.joined = w.joined /\ u.move = w.move
          /\ u.release = w.release /\ u.close = w.close /\ u.log = w.log
      BY <1>0 DEF Worlds
    <3>2. u \in Worlds
      <4>1. [w.s EXCEPT !.avail = "unavailable"] \in Records
        BY <1>0 DEF Records
      <4> QED
        BY <1>0, <4>1 DEF Worlds
    <3>3. /\ u.s.proc = w.s.proc /\ u.s.retiring = w.s.retiring /\ u.s.chain = w.s.chain
          /\ u.s.attempt = w.s.attempt /\ u.s.dead = w.s.dead /\ u.s.lock = w.s.lock
          /\ u.s.ready = w.s.ready /\ u.s.closing = w.s.closing /\ u.s.timer = w.s.timer
          /\ u.s.avail = "unavailable" /\ u.s.fence = w.s.fence /\ u.s.recon = w.s.recon
          /\ u.s.rapid = w.s.rapid /\ u.s.status = w.s.status
      BY <1>0, <3>1 DEF Records
    <3> HIDE DEF u
    <3>4. Placed(u, p) /\ Installed(u, p) /\ Forked(u, p) /\ Locked(u, p)
      BY <3>1, <3>3 DEF Emptied, Core, Placed, Installed, Forked, Locked
    <3>5. Ended(u) /\ Charged(u, p) /\ Idle(u) /\ Paid(u) /\ Shown(u)
      BY <3>1, <3>3 DEF Emptied, Core, Ended, Charged, Idle, Paid, Shown
    <3>6. Known(u) /\ (Reasons(w) => Reasons(u))
      BY <3>1, <3>3 DEF Emptied, Known, Awaits, Reasons
    <3> QED
      BY <1>0, <3>1, <3>2, <3>3, <3>4, <3>5, <3>6 DEF Emptied, Core
  <2>3. x = f
    BY <1>3, <2>1 DEF AfterActivation
  <2> HIDE DEF u
  <2>4. u.waiting = <<>> /\ ok /\ u.act.phase # "none"
    BY <1>3, <2>1, <2>2 DEF Emptied
  <2>5. /\ Core(f, p) /\ Known(f) /\ Follows(f, u)
        /\ f.act.phase \in {"none", "prepare"}
        /\ f.waiting = <<>> \/ (u.s.retiring # 0 /\ f.act.phase = "none")
        /\ Reasons(u) => Excuse(f)
    BY <2>2, <2>4, FinishedKeeps
  <2> HIDE DEF f
  <2>6. ~plan.retained /\ Dues(w) => Reasons(w)
    BY <1>3 DEF Dues, Reasons, Excuse
  <2> QED
    BY <2>2, <2>3, <2>5, <2>6 DEF Emptied, Follows
<1>4. CASE w.act.phase \notin {"fail", "boot", "drop", "resync"}
  <2>1. x = w
    BY <1>4 DEF AfterActivation
  <2>2. w.act.phase \in {"none", "prepare", "recover", "unlock"}
    BY <1>0, <1>4 DEF Acts
  <2>3. w.act.phase = "none" /\ Awaits(w, "destination") => w.waiting # <<>>
    BY DEF Awaits
  <2>4. Dues(w) => Excuse(w) \/ w.act.phase # "none" \/ w.waiting # <<>>
    BY <1>4, <2>3 DEF Dues, Emptied, Known
  <2> QED
    BY <2>1, <2>2, <2>4
<1> QED
  BY <1>1, <1>2, <1>3, <1>4

\* The activations that waited for the exit begin, as one.
LEMMA AfterWaitingKeeps ==
    ASSUME NEW w, NEW p, Emptied(w, p), ~w.s.chain,
           w.act.phase \in {"none", "prepare", "recover", "unlock"}
    PROVE  LET x == AfterWaiting(w)
           IN  /\ Emptied(x, p) /\ ~x.s.chain /\ x.waiting = <<>>
               /\ x.release = w.release /\ x.close = w.close
               /\ x.act.phase \in {"none", "prepare", "recover", "unlock"}
               /\ Excuse(w) \/ w.act.phase # "none" \/ w.waiting # <<>>
                    => Excuse(x) \/ x.act.phase # "none"
<1>0. w \in Worlds /\ w.waiting \in Seq(Waiters) /\ w.joined \subseteq Callers /\ p \in Processes
  BY DEF Emptied, Core, Worlds
<1>e. <<>> \in Seq(Waiters)
  OBVIOUS
<1>1. CASE w.waiting = <<>>
  BY <1>1 DEF AfterWaiting
<1>2. CASE w.waiting # <<>> /\ w.s.dead
  <2> DEFINE x == [w EXCEPT !.waiting = <<>>]
  <2>1. /\ x.s = w.s /\ x.act = w.act /\ x.waiting = <<>> /\ x.joined = w.joined
        /\ x.move = w.move /\ x.release = w.release /\ x.close = w.close /\ x.log = w.log
        /\ x \in Worlds
    BY <1>0, <1>e DEF Worlds
  <2>2. AfterWaiting(w) = x
    BY <1>2 DEF AfterWaiting, Emptied
  <2> HIDE DEF x
  <2>3. Placed(x, p) /\ Installed(x, p) /\ Forked(x, p) /\ Locked(x, p)
    BY <2>1 DEF Emptied, Core, Placed, Installed, Forked, Locked
  <2>4. Ended(x) /\ Charged(x, p) /\ Idle(x) /\ Shown(x) /\ Paid(x)
    BY <2>1 DEF Emptied, Core, Ended, Charged, Idle, Shown, Paid
  <2>5. Core(x, p)
    BY <1>0, <2>1, <2>3, <2>4 DEF Core
  <2>6. w.s.attempt = "none" /\ Excuse(x)
    BY <1>2, <2>1 DEF Emptied, Core, Ended, Excuse
  <2>7. \A d : Awaits(x, d) => Awaits(w, d)
    BY <2>1 DEF Awaits
  <2>8. Known(x)
    BY <2>1, <2>6, <2>7 DEF Emptied, Known
  <2> QED
    BY <2>1, <2>2, <2>5, <2>6, <2>8 DEF Emptied
<1>3. CASE w.waiting # <<>> /\ ~w.s.dead
  <2> DEFINE later == {w.waiting[i].caller : i \in 1 .. Len(w.waiting)}
             first == w.waiting[1]
  <2>1. Len(w.waiting) \in Nat /\ 1 \in 1 .. Len(w.waiting)
    BY <1>0, <1>3
  <2>2. /\ \A i \in 1 .. Len(w.waiting) : w.waiting[i] \in Waiters
        /\ later \subseteq Callers /\ first.caller \in later
        /\ first.caller \in Callers /\ first.visit \in Visits \cup {None}
    <3>1. \A i \in 1 .. Len(w.waiting) : w.waiting[i] \in Waiters
      BY <1>0
    <3> QED
      BY <2>1, <3>1 DEF Waiters
  <2>3. \A d : d \in later <=> \E i \in 1 .. Len(w.waiting) : w.waiting[i].caller = d
    OBVIOUS
  <2>4. w.act.phase \in {"none", "prepare"} /\ (w.act = NoAct <=> w.act.phase = "none")
    BY <1>3 DEF Emptied, Core, Idle, NoAct
  <2> HIDE DEF later, first
  <2>5. CASE w.act.phase = "prepare"
    <3> DEFINE x == [w EXCEPT !.waiting = <<>>, !.joined = w.joined \cup later]
    <3>1. /\ x.s = w.s /\ x.act = w.act /\ x.waiting = <<>> /\ x.joined = w.joined \cup later
          /\ x.move = w.move /\ x.release = w.release /\ x.close = w.close /\ x.log = w.log
      BY <1>0 DEF Worlds
    <3>2. x \in Worlds
      <4>1. w.joined \cup later \in SUBSET Callers
        BY <1>0, <2>2
      <4> QED
        BY <1>0, <1>e, <4>1 DEF Worlds
    <3>3. AfterWaiting(w) = x
      BY <1>3, <2>4, <2>5 DEF AfterWaiting, Emptied, later
    <3> HIDE DEF x
    <3>4. Placed(x, p) /\ Installed(x, p) /\ Forked(x, p) /\ Locked(x, p)
      BY <3>1 DEF Emptied, Core, Placed, Installed, Forked, Locked
    <3>5. Ended(x) /\ Charged(x, p) /\ Idle(x) /\ Shown(x) /\ Paid(x)
      BY <2>5, <3>1 DEF Emptied, Core, Ended, Charged, Idle, Shown, Paid
    <3>6. Core(x, p)
      BY <1>0, <3>2, <3>4, <3>5 DEF Core
    <3>7. \A d : Awaits(x, d) <=> Awaits(w, d)
      BY <2>3, <2>5, <3>1 DEF Awaits
    <3>8. Known(x)
      BY <3>1, <3>7 DEF Emptied, Known
    <3> QED
      BY <2>5, <3>1, <3>3, <3>6, <3>8 DEF Emptied
  <2>6. CASE w.act.phase = "none"
    <3> DEFINE b == Begun(w, first.caller, first.visit)
               x == [b EXCEPT !.waiting = <<>>, !.joined = later \ {first.caller}]
    <3>1. /\ Core(b, p) /\ Follows(b, w)
          /\ b.act = [phase |-> "prepare", host |-> 0, caller |-> first.caller,
                      visit |-> first.visit]
          /\ b.waiting = w.waiting /\ b.move = w.move /\ b.s.attempt = w.s.attempt
      BY <2>2, <2>6, BegunKeeps DEF Emptied
    <3>2. AfterWaiting(w) = x
      BY <1>3, <2>4, <2>6 DEF AfterWaiting, Emptied, later, first
    <3> HIDE DEF b
    <3>3. b.act.phase = "prepare" /\ b.act.caller = first.caller /\ b \in Worlds
      BY <3>1 DEF Core
    <3>4. /\ x.s = b.s /\ x.act = b.act /\ x.waiting = <<>> /\ x.joined = later \ {first.caller}
          /\ x.move = b.move /\ x.release = b.release /\ x.close = b.close /\ x.log = b.log
          /\ x \in Worlds
      <4> HIDE DEF x
      <4>1. x = [b EXCEPT !.waiting = <<>>, !.joined = later \ {first.caller}]
        BY DEF x
      <4>2. later \ {first.caller} \in SUBSET Callers
        BY <2>2
      <4> QED
        BY <1>e, <3>3, <4>1, <4>2 DEF Worlds
    <3> HIDE DEF x
    <3>5. Placed(x, p) /\ Installed(x, p) /\ Forked(x, p) /\ Locked(x, p)
      BY <3>1, <3>4 DEF Core, Placed, Installed, Forked, Locked
    <3>6. Ended(x) /\ Charged(x, p) /\ Idle(x) /\ Shown(x) /\ Paid(x)
      BY <3>1, <3>3, <3>4 DEF Core, Ended, Charged, Idle, Shown, Paid
    <3>7. Core(x, p)
      BY <3>1, <3>4, <3>5, <3>6 DEF Core
    <3>8. \A d : Awaits(x, d) <=> Awaits(w, d)
      BY <2>2, <2>3, <2>6, <3>3, <3>4 DEF Awaits
    <3>9. Known(x)
      <4>1. w.s.attempt # "accounted"
        BY <2>6 DEF Emptied, Known
      <4> QED
        BY <3>1, <3>4, <3>8, <4>1 DEF Emptied, Known
    <3> QED
      BY <3>1, <3>2, <3>3, <3>4, <3>7, <3>9 DEF Emptied, Follows
  <2> QED
    BY <2>4, <2>5, <2>6
<1> QED
  BY <1>1, <1>2, <1>3

\* The lock of a closed session is let go of.
LEMMA AfterCloseKeeps ==
    ASSUME NEW w, NEW p, Emptied(w, p)
    PROVE  LET x == AfterClose(w)
           IN  /\ Emptied(x, p) /\ x.s.chain = w.s.chain /\ x.waiting = w.waiting
               /\ x.release = w.release /\ x.act = w.act /\ x.close # "retire"
               /\ Excuse(w) => Excuse(x)
<1>0. w \in Worlds /\ w.s \in Records /\ p \in Processes
  BY DEF Emptied, Core, Worlds
<1>1. CASE w.close # "retire"
  BY <1>1 DEF AfterClose
<1>2. CASE w.close = "retire"
  <2> DEFINE x == [w EXCEPT !.close = "unlock", !.s.lock = FALSE]
  <2>1. /\ x.s = [w.s EXCEPT !.lock = FALSE] /\ x.close = "unlock"
        /\ x.act = w.act /\ x.waiting = w.waiting /\ x.joined = w.joined
        /\ x.move = w.move /\ x.release = w.release /\ x.log = w.log
    BY <1>0 DEF Worlds
  <2>2. x \in Worlds
    <3>1. [w.s EXCEPT !.lock = FALSE] \in Records
      BY <1>0 DEF Records
    <3> QED
      BY <1>0, <3>1 DEF Worlds
  <2>3. /\ x.s.proc = w.s.proc /\ x.s.retiring = w.s.retiring /\ x.s.chain = w.s.chain
        /\ x.s.attempt = w.s.attempt /\ x.s.dead = w.s.dead /\ ~x.s.lock
        /\ x.s.ready = w.s.ready /\ x.s.closing = w.s.closing /\ x.s.timer = w.s.timer
        /\ x.s.avail = w.s.avail /\ x.s.fence = w.s.fence /\ x.s.recon = w.s.recon
        /\ x.s.rapid = w.s.rapid /\ x.s.status = w.s.status
    BY <1>0, <2>1 DEF Records
  <2> HIDE DEF x
  <2>4. Placed(x, p) /\ Installed(x, p) /\ Forked(x, p)
    BY <2>1, <2>3 DEF Emptied, Core, Placed, Installed, Forked
  <2>5. Locked(x, p)
    BY <2>1, <2>3 DEF Emptied, Core, Locked
  <2>6. Ended(x) /\ Charged(x, p) /\ Idle(x) /\ Paid(x) /\ Shown(x)
    BY <1>2, <2>1, <2>3 DEF Emptied, Core, Ended, Charged, Idle, Paid, Shown
  <2>7. Core(x, p)
    BY <1>0, <2>2, <2>4, <2>5, <2>6 DEF Core
  <2>8. Known(x) /\ Excuse(x)
    BY <2>1, <2>3 DEF Emptied, Known, Awaits, Excuse
  <2>9. AfterClose(w) = x
    BY <1>2 DEF AfterClose, x
  <2> QED
    BY <2>1, <2>3, <2>7, <2>8, <2>9 DEF Emptied
<1> QED
  BY <1>1, <1>2

\* All of it: nothing is left of the retirement, and the lock has its reason.
LEMMA RetiredKeeps ==
    ASSUME NEW w, NEW p, NEW rapid \in BOOLEAN, Emptied([w EXCEPT !.s.retiring = 0], p),
           ~plan.retained => Dues([w EXCEPT !.s.retiring = 0])
    PROVE  LET x == Retired(w, rapid) IN Core(x, p) /\ Known(x) /\ Rested(x)
<1> DEFINE w0 == [w EXCEPT !.s.retiring = 0]
           w1 == AfterChain(w0)
           w2 == AfterMove(w1)
           w3 == AfterRelease(w2)
           w4 == AfterActivation(w3, rapid)
           w5 == AfterWaiting(w4)
           w6 == AfterClose(w5)
<1>0. Retired(w, rapid) = w6
  BY DEF Retired
<1>1. Emptied(w0, p) /\ (~plan.retained => Dues(w0))
  OBVIOUS
<1> HIDE DEF w0
<1>2. Emptied(w1, p) /\ ~w1.s.chain /\ (Dues(w0) => Dues(w1))
  BY <1>1, AfterChainKeeps
<1> HIDE DEF w1
<1>3. Emptied(w2, p) /\ ~w2.s.chain /\ w2.move.phase # "retire" /\ (Dues(w1) => Dues(w2))
  BY <1>2, AfterMoveKeeps
<1> HIDE DEF w2
<1>4. /\ Emptied(w3, p) /\ ~w3.s.chain /\ w3.move.phase # "retire"
      /\ w3.release.phase # "retire" /\ (Dues(w2) => Dues(w3))
  BY <1>3, AfterReleaseKeeps
<1> HIDE DEF w3
<1>5. /\ Emptied(w4, p) /\ ~w4.s.chain /\ w4.release.phase # "retire"
      /\ w4.act.phase \in {"none", "prepare", "recover", "unlock"}
      /\ ~plan.retained /\ Dues(w3)
           => Excuse(w4) \/ w4.act.phase # "none" \/ w4.waiting # <<>>
  BY <1>4, AfterActivationKeeps
<1> HIDE DEF w4
<1>6. /\ Emptied(w5, p) /\ ~w5.s.chain /\ w5.waiting = <<>> /\ w5.release = w4.release
      /\ w5.act.phase \in {"none", "prepare", "recover", "unlock"}
      /\ Excuse(w4) \/ w4.act.phase # "none" \/ w4.waiting # <<>>
           => Excuse(w5) \/ w5.act.phase # "none"
  BY <1>5, AfterWaitingKeeps
<1> HIDE DEF w5
<1>7. /\ Emptied(w6, p) /\ ~w6.s.chain /\ w6.waiting = <<>> /\ w6.release = w5.release
      /\ w6.act = w5.act /\ w6.close # "retire"
      /\ Excuse(w5) => Excuse(w6)
  BY <1>6, AfterCloseKeeps
<1> HIDE DEF w6
<1>8. ~plan.retained => Excuse(w6) \/ w6.act.phase # "none"
  BY <1>1, <1>2, <1>3, <1>4, <1>5, <1>6, <1>7
<1>9. w6.s.closing /\ w6.s.lock => w6.close \in {"graceful", "retire"}
  <2>1. w6 \in Worlds
    BY <1>7 DEF Emptied, Core
  <2> QED
    BY <1>7, <2>1 DEF Emptied, Core, Ended, Locked, Worlds
<1>10. Rested(w6)
  BY <1>5, <1>6, <1>7, <1>8, <1>9 DEF Rested, Tidy, Justified, Emptied, Excuse
<1> QED
  BY <1>0, <1>7, <1>10 DEF Emptied

-----------------------------------------------------------------------------
(***************************************************************************)
(* From the helpers to the turns.                                          *)
(***************************************************************************)

\* A turn is good when the registry it leaves is.
LEMMA BecomesGood ==
    ASSUME plan \in Plans, NEW x, NEW q, host' = q, Becomes(x), Good(x, q)
    PROVE  LifeInv'
<1>1. World' = x /\ plan' = plan
  <2>1. x \in Worlds
    BY DEF Good, Core
  <2>2. x = [s |-> x.s, act |-> x.act, waiting |-> x.waiting, joined |-> x.joined,
             move |-> x.move, release |-> x.release, close |-> x.close, log |-> x.log]
    BY <2>1 DEF Worlds
  <2> QED
    BY <2>2 DEF Becomes, World
<1>2. Core(x, q) /\ Known(x) /\ Tidy(x) /\ Justified(x)
  BY DEF Good, Rested
<1>3. (World \in Worlds)' /\ (host \in Processes)'
  BY <1>1, <1>2 DEF Core, Worlds, Records, Acts, Waiters, Releases, Logs, Visits, Processes
<1>4. (Placed(World, host) /\ Forked(World, host) /\ Locked(World, host) /\ Ended(World))'
  BY <1>1, <1>2 DEF Core, Placed, Lives, Forked, Locked, Ended
<1>5. (/\ Installed(World, host) /\ Idle(World) /\ Shown(World)
       /\ Charged(World, host) /\ Paid(World))'
  BY <1>1, <1>2 DEF Core, Installed, Idle, Shown, Charged, Paid
<1>6. (Known(World) /\ Tidy(World) /\ Justified(World))'
  BY <1>1, <1>2 DEF Known, Awaits, Tidy, Owing, Justified
<1> QED
  BY <1>1, <1>3, <1>4, <1>5, <1>6 DEF LifeInv, Good, Rested, Core

\* A turn that moves nothing but what is shown, the visit, the release before
\* its detachment or the move before its own.
Alike(x, w) ==
    /\ x.s.proc = w.s.proc /\ x.s.retiring = w.s.retiring /\ x.s.chain = w.s.chain
    /\ x.s.attempt = w.s.attempt /\ x.s.dead = w.s.dead /\ x.s.lock = w.s.lock
    /\ x.s.ready = w.s.ready /\ x.s.closing = w.s.closing /\ x.s.timer = w.s.timer
    /\ x.s.rapid = w.s.rapid /\ (w.s.proc # 0 => x.s.status = w.s.status)
    /\ x.act = w.act /\ x.waiting = w.waiting /\ x.joined = w.joined /\ x.close = w.close
    /\ x.log.charged = w.log.charged /\ x.log.restarts = w.log.restarts

\* Such a turn keeps the invariant.
LEMMA AlikeKeeps ==
    ASSUME NEW w, NEW p, Good(w, p), NEW x \in Worlds, Alike(x, w), Shown(x),
           \/ x.release.phase = w.release.phase
           \/ w.release.phase # "retire" /\ x.release.phase \notin {"retire", "unlock"},
           \/ x.move.phase = w.move.phase
           \/ w.move.phase \in {"none", "admit"} /\ x.move.phase \in {"none", "admit"}
    PROVE  Good(x, p)
<1>1. Placed(x, p) /\ Installed(x, p) /\ Forked(x, p) /\ Locked(x, p)
  BY DEF Good, Core, Placed, Installed, Forked, Locked, Alike
<1>2. Ended(x) /\ Idle(x) /\ Charged(x, p) /\ Paid(x)
  BY DEF Good, Core, Ended, Idle, Charged, Paid, Alike
<1>3. Core(x, p)
  BY <1>1, <1>2 DEF Good, Core
<1>4. Known(x)
  <2>1. \A d : Awaits(x, d) <=> Awaits(w, d)
    BY DEF Awaits, Alike
  <2> QED
    BY <2>1 DEF Good, Known, Alike
<1>5. Rested(x)
  <2>1. Tidy(x)
    BY DEF Good, Rested, Tidy, Owing, Alike
  <2>2. Justified(x)
    BY DEF Good, Rested, Justified, Alike
  <2> QED
    BY <2>1, <2>2 DEF Rested
<1> QED
  BY <1>3, <1>4, <1>5 DEF Good

\* A turn that ends an activation.
LEMMA FinishedGood ==
    ASSUME NEW w, NEW p, Core(w, p), Known(w), Tidy(w) \/ w.s.retiring = 0, w.waiting = <<>>,
           w.s.proc = 0 \/ w.act.phase = "resync",
           w.s.chain => w.s.retiring # 0,
           w.release.phase = "retire" => w.s.retiring # 0,
           w.close = "retire" => w.s.retiring # 0,
           w.act.phase \notin {"none", "fail"},
           NEW ok \in BOOLEAN, ok \/ (w.s.retiring = 0 /\ w.s.avail # "available"),
           NEW rapid \in BOOLEAN, ~plan.retained => Reasons(w)
    PROVE  Good(Finished(w, ok, rapid), p)
<1> DEFINE x == Finished(w, ok, rapid)
<1>1. /\ Core(x, p) /\ Known(x) /\ Follows(x, w)
      /\ x.s.attempt = "none" /\ x.act.phase \in {"none", "prepare"}
      /\ x.waiting = <<>> \/ (w.s.retiring # 0 /\ x.act.phase = "none")
      /\ w.s.attempt = "accounted" /\ w.s.retiring # 0 => x.s.chain
      /\ w.move.phase \notin {"destination", "rollback"} => x.move = w.move
      /\ Reasons(w) => Excuse(x)
  BY FinishedKeeps
<1> HIDE DEF x
<1>2. Tidy(x)
  <2>1. ~plan.retained /\ w.s.retiring # 0 => Owing(w)
    BY DEF Tidy
  <2>2. ~plan.retained /\ x.s.retiring # 0 => Owing(x)
    BY <1>1, <2>1 DEF Owing, Follows
  <2> QED
    BY <1>1, <2>2 DEF Tidy, Follows
<1>3. Justified(x)
  <2>1. x.s.closing /\ x.s.lock => x.close \in {"graceful", "retire"}
    <3>1. x \in Worlds
      BY <1>1 DEF Core
    <3> QED
      BY <1>1, <3>1 DEF Core, Ended, Locked, Worlds
  <2> QED
    BY <1>1, <2>1 DEF Justified, Excuse
<1> QED
  BY <1>1, <1>2, <1>3 DEF Good, Rested, x

\* A turn that asks for an activation.
LEMMA EnterGood ==
    ASSUME NEW w, NEW p, Core(w, p), Tidy(w), w.s.proc = 0 \/ w.act.phase # "none",
           NEW c \in Callers \ {"destination", "rollback"}, NEW v \in Visits \cup {None},
           w.s.attempt # "none" => Awaits(w, "auto") \/ c = "auto",
           w.s.attempt = "accounted"
             => w.act.phase \in {"recover", "resync", "drop", "fail", "unlock"},
           \A d \in {"destination", "rollback"} : Awaits(w, d) => w.move.phase = d
    PROVE  Good(Enter(w, c, v), p)
<1> DEFINE x == Enter(w, c, v)
<1>1. /\ Core(x, p) /\ Follows(x, w)
      /\ x.move = w.move /\ x.s.attempt = w.s.attempt
      /\ Awaits(x, c)
      /\ \A d : Awaits(w, d) => Awaits(x, d)
      /\ \A d : Awaits(x, d) => Awaits(w, d) \/ d = c
      /\ w.act.phase # "none" => x.act = w.act /\ x.waiting = w.waiting
      /\ w.act.phase = "none" /\ w.s.retiring = 0 =>
            x.act.phase = "prepare" /\ x.waiting = w.waiting
      /\ w.act.phase = "none" /\ w.s.retiring # 0 => x.act = w.act /\ x.act.phase = "none"
  BY EnterKeeps
<1> HIDE DEF x
<1>2. Known(x)
  <2>1. x.s.attempt # "none" => Awaits(x, "auto")
    BY <1>1
  <2>2. \A d \in {"destination", "rollback"} : Awaits(x, d) => x.move.phase = d
    BY <1>1
  <2>3. x.s.attempt = "accounted" => x.act.phase \in {"recover", "resync", "drop", "fail", "unlock"}
    BY <1>1
  <2> QED
    BY <2>1, <2>2, <2>3 DEF Known
<1>3. Tidy(x)
  <2>1. ~plan.retained /\ x.s.retiring # 0 => Owing(x)
    BY <1>1 DEF Tidy, Owing, Follows
  <2> QED
    BY <1>1, <2>1 DEF Tidy, Follows
<1>4. Justified(x)
  BY <1>1 DEF Justified, Follows
<1> QED
  BY <1>1, <1>2, <1>3, <1>4 DEF Good, Rested, x

\* The registry as one value, opened.
LEMMA Unpacked ==
    ASSUME LifeInv, NEW w, w = World
    PROVE  /\ plan \in Plans /\ Good(w, host) /\ w \in Worlds /\ host \in Processes
           /\ s = w.s /\ act = w.act /\ waiting = w.waiting /\ joined = w.joined
           /\ move = w.move /\ release = w.release /\ close = w.close /\ log = w.log
           /\ w.s \in Records /\ w.act \in Acts /\ w.move \in Moves /\ w.release \in Releases
           /\ w.log \in Logs
<1>1. plan \in Plans /\ Good(w, host) /\ w \in Worlds /\ host \in Processes
  BY DEF LifeInv, Good, Core
<1>2. /\ s = w.s /\ act = w.act /\ waiting = w.waiting /\ joined = w.joined
      /\ move = w.move /\ release = w.release /\ close = w.close /\ log = w.log
  BY DEF World
<1> QED
  BY <1>1, <1>2 DEF Worlds

\* Turns that only touch the visit and what is shown.
LEMMA InteractGood ==
    ASSUME LifeInv, Interact PROVE LifeInv'
<1>0. PICK w : w = World
  OBVIOUS
<1>1. /\ plan \in Plans /\ Good(w, host) /\ w \in Worlds /\ w.s \in Records /\ w.log \in Logs
      /\ s = w.s /\ log = w.log
  BY <1>0, Unpacked
<1>2. PICK o \in BOOLEAN : o = (w.s.visit # None)
  OBVIOUS
<1>3. PICK u \in [Hosts -> BOOLEAN] :
        u = IF w.s.proc = 0 THEN w.log.used ELSE [w.log.used EXCEPT ![w.s.proc] = TRUE]
  BY <1>1 DEF Logs
<1> DEFINE x == [w EXCEPT !.s.touched = o, !.log.used = u]
<1>4. Becomes(x) /\ host' = host
  <2>1. [World EXCEPT !.s.touched = s.visit # None,
                      !.log.used = IF s.proc = 0 THEN @ ELSE [log.used EXCEPT ![s.proc] = TRUE]]
        = [w EXCEPT !.s.touched = (w.s.visit # None), !.log.used = u]
    BY <1>0, <1>1, <1>3 DEF Worlds
  <2> QED
    BY <1>2, <2>1 DEF Interact
<1>5. /\ x.s = [w.s EXCEPT !.touched = o] /\ x.log = [w.log EXCEPT !.used = u]
      /\ x.act = w.act /\ x.waiting = w.waiting /\ x.joined = w.joined
      /\ x.move = w.move /\ x.release = w.release /\ x.close = w.close
  BY <1>1 DEF Worlds
<1>6. x \in Worlds
  <2>1. [w.s EXCEPT !.touched = o] \in Records
    BY <1>1 DEF Records
  <2>2. [w.log EXCEPT !.used = u] \in Logs
    BY <1>1 DEF Logs
  <2> QED
    BY <1>1, <2>1, <2>2 DEF Worlds
<1> HIDE DEF x
<1>7. Alike(x, w) /\ x.s.avail = w.s.avail /\ x.s.fence = w.s.fence /\ x.s.recon = w.s.recon
  BY <1>1, <1>5 DEF Alike, Records, Logs
<1>8. Shown(x)
  BY <1>1, <1>5, <1>7 DEF Good, Core, Shown, Alike
<1>9. Good(x, host)
  BY <1>1, <1>5, <1>6, <1>7, <1>8, AlikeKeeps
<1> QED
  BY <1>1, <1>4, <1>9, BecomesGood

\* The same, as the actions write it: nothing primed but s, move and release.
LEMMA EditedGood ==
    ASSUME LifeInv, s' \in Records, move' \in Moves, release' \in Releases,
           UNCHANGED <<plan, act, waiting, joined, close, log, host>>,
           /\ s'.proc = s.proc /\ s'.retiring = s.retiring /\ s'.chain = s.chain
           /\ s'.attempt = s.attempt /\ s'.dead = s.dead /\ s'.lock = s.lock
           /\ s'.ready = s.ready /\ s'.closing = s.closing /\ s'.timer = s.timer
           /\ s'.rapid = s.rapid /\ s'.recon = s.recon
           /\ s.proc # 0 => s'.status = s.status,
           \/ release'.phase = release.phase
           \/ release.phase # "retire" /\ release'.phase \notin {"retire", "unlock"},
           \/ move'.phase = move.phase
           \/ move.phase \in {"none", "admit"} /\ move'.phase \in {"none", "admit"},
           move'.phase = "admit" => s'.fence /\ move'.host # 0,
           s'.fence => s'.avail # "available",
           release'.phase \in {"retire", "unlock"} => move' = Resting,
           release'.phase \in {"probe", "permit"} => release'.host # 0,
           ~plan.retained /\ s'.avail = "available" /\ ~s.dead
             => s.ready \/ release'.phase \in {"retire", "unlock"}
    PROVE  LifeInv'
<1>0. PICK w : w = World
  OBVIOUS
<1>1. /\ plan \in Plans /\ Good(w, host) /\ w \in Worlds
      /\ s = w.s /\ act = w.act /\ waiting = w.waiting /\ joined = w.joined
      /\ move = w.move /\ release = w.release /\ close = w.close /\ log = w.log
  BY <1>0, Unpacked
<1>2. PICK x : x = [s |-> s', act |-> act, waiting |-> waiting, joined |-> joined,
                    move |-> move', release |-> release', close |-> close, log |-> log]
  OBVIOUS
<1>3. Becomes(x) /\ x \in Worlds
  BY <1>1, <1>2 DEF Becomes, Worlds
<1>4. /\ x.s = s' /\ x.act = w.act /\ x.waiting = w.waiting /\ x.joined = w.joined
      /\ x.move = move' /\ x.release = release' /\ x.close = w.close /\ x.log = w.log
  BY <1>1, <1>2
<1>5. Alike(x, w)
  BY <1>1, <1>4 DEF Alike
<1>6. Shown(x)
  BY <1>1, <1>4 DEF Good, Core, Shown
<1>7. Good(x, host)
  BY <1>1, <1>3, <1>4, <1>5, <1>6, AlikeKeeps
<1> QED
  BY <1>1, <1>3, <1>7, BecomesGood

\* What the small turns need of the invariant.
LEMMA Typed ==
    ASSUME LifeInv
    PROVE  /\ s \in Records /\ act \in Acts /\ move \in Moves /\ release \in Releases
           /\ log \in Logs /\ host \in Processes /\ plan \in Plans
           /\ Shown(World)
BY DEF LifeInv, Good, Core, Worlds, World

\* The user comes back: one flag.
LEMMA ReturnGood ==
    ASSUME LifeInv, Return PROVE LifeInv'
<1>1. /\ s' = [s EXCEPT !.returned = TRUE]
      /\ UNCHANGED <<plan, act, waiting, joined, move, release, close, log, host>>
  BY DEF Return, Becomes, World
<1>2. s' \in Records
  BY <1>1, Typed DEF Records
<1> QED
  BY <1>1, <1>2, Typed, EditedGood DEF Records, Shown, World

\* The release is given up.
LEMMA AbandonedGood ==
    ASSUME LifeInv, Becomes(Abandoned(World)), UNCHANGED host,
           release.phase \notin {"retire", "unlock"}
    PROVE  LifeInv'
<1>1. /\ release' = NoRelease
      /\ UNCHANGED <<plan, act, waiting, joined, move, close, log, host>>
      /\ s' \in {s, [s EXCEPT !.visit = None, !.touched = FALSE, !.returned = FALSE]}
  BY DEF Abandoned, Becomes, World
<1>2. s' \in Records
  BY <1>1, Typed DEF Records
<1>3. release' \in Releases /\ release'.phase = "none"
  BY <1>1, HostFacts DEF NoRelease, Releases
<1>4. /\ s'.proc = s.proc /\ s'.retiring = s.retiring /\ s'.chain = s.chain
      /\ s'.attempt = s.attempt /\ s'.dead = s.dead /\ s'.lock = s.lock
      /\ s'.ready = s.ready /\ s'.closing = s.closing /\ s'.timer = s.timer
      /\ s'.rapid = s.rapid /\ s'.recon = s.recon /\ s'.status = s.status
      /\ s'.avail = s.avail /\ s'.fence = s.fence
  BY <1>1, Typed DEF Records
<1>5. move' = move
  BY <1>1
<1> QED
  BY <1>1, <1>2, <1>3, <1>4, <1>5, Typed, EditedGood DEF Shown, World

\* A release is asked for, is too late, or leaves its mark.
LEMMA ReleaseGood ==
    ASSUME LifeInv, NEW v \in Visits, Release(v) PROVE LifeInv'
<1>1. release = NoRelease /\ UNCHANGED host
  BY DEF Release
<1>2. release.phase = "none"
  BY <1>1 DEF NoRelease
<1>3. CASE Becomes([World EXCEPT !.release = [phase |-> "wait", visit |-> v, host |-> 0]])
  <2>1. /\ release' = [phase |-> "wait", visit |-> v, host |-> 0]
        /\ UNCHANGED <<plan, s, act, waiting, joined, move, close, log, host>>
    BY <1>1, <1>3 DEF Becomes, World
  <2>2. release' \in Releases /\ release'.phase = "wait"
    BY <2>1, HostFacts DEF Releases
  <2> QED
    BY <1>2, <2>1, <2>2, Typed, EditedGood DEF Shown, World
<1>4. CASE /\ s.visit = v
           /\ Becomes(Abandoned([World EXCEPT
                !.release = [phase |-> "wait", visit |-> v, host |-> 0]]))
  <2>1. /\ release' = NoRelease
        /\ UNCHANGED <<plan, act, waiting, joined, move, close, log, host>>
        /\ s' = [s EXCEPT !.visit = None, !.touched = FALSE, !.returned = FALSE]
    BY <1>1, <1>4 DEF Abandoned, Becomes, World
  <2>2. s' \in Records
    BY <2>1, Typed DEF Records
  <2>3. /\ s'.proc = s.proc /\ s'.retiring = s.retiring /\ s'.chain = s.chain
        /\ s'.attempt = s.attempt /\ s'.dead = s.dead /\ s'.lock = s.lock
        /\ s'.ready = s.ready /\ s'.closing = s.closing /\ s'.timer = s.timer
        /\ s'.rapid = s.rapid /\ s'.recon = s.recon /\ s'.status = s.status
        /\ s'.avail = s.avail /\ s'.fence = s.fence
    BY <2>1, Typed DEF Records
  <2> QED
    BY <1>1, <1>2, <2>1, <2>2, <2>3, Typed, EditedGood DEF Shown, World
<1>5. CASE Becomes([World EXCEPT !.s.tombs = @ \cup {v}])
  <2>1. /\ s' = [s EXCEPT !.tombs = s.tombs \cup {v}]
        /\ UNCHANGED <<plan, act, waiting, joined, move, release, close, log, host>>
    BY <1>1, <1>5 DEF Becomes, World
  <2>2. s' \in Records
    <3>1. s.tombs \cup {v} \in SUBSET Visits
      BY Typed DEF Records
    <3> QED
      BY <2>1, <3>1, Typed DEF Records
  <2>3. /\ s'.proc = s.proc /\ s'.retiring = s.retiring /\ s'.chain = s.chain
        /\ s'.attempt = s.attempt /\ s'.dead = s.dead /\ s'.lock = s.lock
        /\ s'.ready = s.ready /\ s'.closing = s.closing /\ s'.timer = s.timer
        /\ s'.rapid = s.rapid /\ s'.recon = s.recon /\ s'.status = s.status
        /\ s'.avail = s.avail /\ s'.fence = s.fence
    BY <2>1, Typed DEF Records
  <2> QED
    BY <2>1, <2>2, <2>3, Typed, EditedGood DEF Shown, World
<1> QED
  BY <1>3, <1>4, <1>5 DEF Release

\* A mark expires.
LEMMA TombExpiresGood ==
    ASSUME LifeInv, NEW v \in Visits, TombExpires(v) PROVE LifeInv'
<1>1. /\ s' = [s EXCEPT !.tombs = s.tombs \ {v}]
      /\ UNCHANGED <<plan, act, waiting, joined, move, release, close, log, host>>
  BY DEF TombExpires, Becomes, World
<1>2. s' \in Records
  <2>1. s.tombs \ {v} \in SUBSET Visits
    BY Typed DEF Records
  <2> QED
    BY <1>1, <2>1, Typed DEF Records
<1>3. /\ s'.proc = s.proc /\ s'.retiring = s.retiring /\ s'.chain = s.chain
      /\ s'.attempt = s.attempt /\ s'.dead = s.dead /\ s'.lock = s.lock
      /\ s'.ready = s.ready /\ s'.closing = s.closing /\ s'.timer = s.timer
      /\ s'.rapid = s.rapid /\ s'.recon = s.recon /\ s'.status = s.status
      /\ s'.avail = s.avail /\ s'.fence = s.fence
  BY <1>1, Typed DEF Records
<1> QED
  BY <1>1, <1>2, <1>3, Typed, EditedGood DEF Shown, World

\* The release probes the process that is installed.
LEMMA ReleaseProbesGood ==
    ASSUME LifeInv, ReleaseProbes PROVE LifeInv'
<1>1. release.phase = "wait" /\ UNCHANGED host
  BY DEF ReleaseProbes
<1>2. CASE s.proc # 0 /\ Becomes([World EXCEPT !.release.phase = "probe", !.release.host = s.proc])
  <2>1. /\ release' = [release EXCEPT !.phase = "probe", !.host = s.proc]
        /\ UNCHANGED <<plan, s, act, waiting, joined, move, close, log, host>>
    BY <1>1, <1>2 DEF Becomes, World
  <2>2. s.proc \in 0 .. MaxHosts
    BY Typed DEF Records
  <2>3. release' \in Releases /\ release'.phase = "probe" /\ release'.host = s.proc
    BY <2>1, <2>2, Typed DEF Releases
  <2> QED
    BY <1>1, <1>2, <2>1, <2>3, Typed, EditedGood DEF Shown, World
<1>3. CASE Becomes(Abandoned(World))
  BY <1>1, <1>3, AbandonedGood
<1> QED
  BY <1>2, <1>3 DEF ReleaseProbes

\* The probe has answered.
LEMMA ReleaseAdmitsGood ==
    ASSUME LifeInv, ReleaseAdmits PROVE LifeInv'
<1>1. release.phase = "probe" /\ host[release.host] = "up" /\ UNCHANGED host
  BY DEF ReleaseAdmits
<1>2. CASE /\ s.proc = release.host
           /\ Becomes([World EXCEPT !.release.phase = "permit",
                                    !.s.avail = SnapshotAvailability(World)])
  <2>1. /\ release' = [release EXCEPT !.phase = "permit"]
        /\ s' = [s EXCEPT !.avail = IF s.fence THEN "transitioning" ELSE "available"]
        /\ UNCHANGED <<plan, act, waiting, joined, move, close, log, host>>
    BY <1>1, <1>2 DEF Becomes, World, SnapshotAvailability
  <2>2. release' \in Releases /\ release'.phase = "permit" /\ release'.host = release.host
    BY <2>1, Typed DEF Releases
  <2>3. s' \in Records /\ (s'.avail = "available" => ~s.fence)
    BY <2>1, Typed DEF Records
  <2>4. /\ s'.proc = s.proc /\ s'.retiring = s.retiring /\ s'.chain = s.chain
        /\ s'.attempt = s.attempt /\ s'.dead = s.dead /\ s'.lock = s.lock
        /\ s'.ready = s.ready /\ s'.closing = s.closing /\ s'.timer = s.timer
        /\ s'.rapid = s.rapid /\ s'.recon = s.recon /\ s'.status = s.status
        /\ s'.fence = s.fence
    BY <2>1, Typed DEF Records
  <2>5. ~plan.retained => s.ready
    BY <1>1, <1>2, Typed DEF LifeInv, Good, Core, Installed, Shown, World
  <2> QED
    BY <1>1, <2>1, <2>2, <2>3, <2>4, <2>5, Typed, EditedGood DEF Shown, World
<1>3. CASE Becomes(Abandoned(World))
  BY <1>1, <1>3, AbandonedGood
<1> QED
  BY <1>2, <1>3 DEF ReleaseAdmits

\* The release is given up.
LEMMA ReleaseRefusedGood ==
    ASSUME LifeInv, ReleaseRefused PROVE LifeInv'
BY AbandonedGood DEF ReleaseRefused

\* The release ends with the lock let go of.
LEMMA ReleaseDoneGood ==
    ASSUME LifeInv, ReleaseDone PROVE LifeInv'
<1>1. /\ release.phase = "unlock" /\ release' = NoRelease
      /\ s' = [s EXCEPT !.status = "cold", !.avail = "unavailable"]
      /\ UNCHANGED <<plan, act, waiting, joined, move, close, log, host>>
  BY DEF ReleaseDone, Becomes, World
<1>2. release' \in Releases /\ release'.phase = "none"
  BY <1>1, HostFacts DEF NoRelease, Releases
<1>3. s' \in Records /\ s'.avail = "unavailable"
  BY <1>1, Typed DEF Records
<1>4. /\ s'.proc = s.proc /\ s'.retiring = s.retiring /\ s'.chain = s.chain
      /\ s'.attempt = s.attempt /\ s'.dead = s.dead /\ s'.lock = s.lock
      /\ s'.ready = s.ready /\ s'.closing = s.closing /\ s'.timer = s.timer
      /\ s'.rapid = s.rapid /\ s'.recon = s.recon /\ s'.fence = s.fence
  BY <1>1, Typed DEF Records
<1>5. s.proc = 0
  BY <1>1 DEF LifeInv, Good, Core, Locked, World
<1> QED
  BY <1>1, <1>2, <1>3, <1>4, <1>5, Typed, EditedGood DEF Shown, World

\* A snapshot, or the loss of a lease.
LEMMA AvailabilityGood ==
    ASSUME LifeInv, NEW a, Availability(a) PROVE LifeInv'
<1>1. /\ s.ready
      /\ s' = [s EXCEPT !.avail = IF a = "lost" THEN "unavailable"
                                  ELSE IF s.fence THEN "transitioning" ELSE "available"]
      /\ UNCHANGED <<plan, act, waiting, joined, move, release, close, log, host>>
  BY DEF Availability, Becomes, World, SnapshotAvailability
<1>2. s' \in Records /\ (s'.avail = "available" => ~s.fence)
  BY <1>1, Typed DEF Records
<1>3. /\ s'.proc = s.proc /\ s'.retiring = s.retiring /\ s'.chain = s.chain
      /\ s'.attempt = s.attempt /\ s'.dead = s.dead /\ s'.lock = s.lock
      /\ s'.ready = s.ready /\ s'.closing = s.closing /\ s'.timer = s.timer
      /\ s'.rapid = s.rapid /\ s'.recon = s.recon /\ s'.status = s.status
      /\ s'.fence = s.fence
  BY <1>1, Typed DEF Records
<1> QED
  BY <1>1, <1>2, <1>3, Typed, EditedGood DEF Shown, World

\* A move begins behind its fence.
LEMMA MoveStartGood ==
    ASSUME LifeInv, MoveStart PROVE LifeInv'
<1>1. PICK o \in BOOLEAN : o = (s.visit # None)
  OBVIOUS
<1>2. /\ move = Resting /\ ~s.dead /\ s.ready /\ s.avail = "available"
      /\ move' = [phase |-> "admit", host |-> s.proc]
      /\ s' = [s EXCEPT !.fence = TRUE, !.avail = "transitioning", !.touched = o]
      /\ UNCHANGED <<plan, act, waiting, joined, release, close, log, host>>
  BY <1>1 DEF MoveStart, Becomes, World
<1>3. s' \in Records /\ s'.avail = "transitioning" /\ s'.fence
  BY <1>2, Typed DEF Records
<1>4. /\ s'.proc = s.proc /\ s'.retiring = s.retiring /\ s'.chain = s.chain
      /\ s'.attempt = s.attempt /\ s'.dead = s.dead /\ s'.lock = s.lock
      /\ s'.ready = s.ready /\ s'.closing = s.closing /\ s'.timer = s.timer
      /\ s'.rapid = s.rapid /\ s'.recon = s.recon /\ s'.status = s.status
  BY <1>2, Typed DEF Records
<1>5. s.proc # 0 /\ s.proc \in 0 .. MaxHosts
  BY <1>2, Typed DEF Shown, World, Records
<1>6. move' \in Moves /\ move'.phase = "admit" /\ move'.host = s.proc
  BY <1>2, <1>5 DEF Moves
<1>7. release.phase \notin {"retire", "unlock"} /\ move.phase = "none"
  <2>1. /\ s.proc # 0 => s.retiring = 0
        /\ release.phase = "unlock" => s.proc = 0
        /\ release.phase = "retire" => s.retiring # 0
    BY DEF LifeInv, Good, Core, Placed, Locked, Rested, Tidy, World
  <2> QED
    BY <1>2, <1>5, <2>1 DEF Resting
<1> QED
  BY <1>2, <1>3, <1>4, <1>5, <1>6, <1>7, Typed, EditedGood DEF Shown, World

\* A move is refused before the detachment.
LEMMA MoveRefusedGood ==
    ASSUME LifeInv, MoveRefused PROVE LifeInv'
<1>0. Resting \in Moves /\ Resting.phase = "none"
  BY HostFacts DEF Moves, Resting
<1>1. move.phase = "admit" /\ UNCHANGED host
  BY DEF MoveRefused
<1>2. CASE /\ s.proc = move.host /\ ~s.dead
           /\ Becomes([World EXCEPT !.move = Resting, !.s.fence = FALSE,
                         !.s.avail = IF ~s.closing /\ s.ready /\ @ = "transitioning"
                                       THEN "available" ELSE @])
  <2>1. /\ move' = Resting
        /\ s' = [s EXCEPT !.fence = FALSE,
                   !.avail = IF ~s.closing /\ s.ready /\ s.avail = "transitioning"
                               THEN "available" ELSE s.avail]
        /\ UNCHANGED <<plan, act, waiting, joined, release, close, log, host>>
    BY <1>1, <1>2 DEF Becomes, World
  <2>2. /\ s' \in Records /\ ~s'.fence
        /\ s'.avail = "available" => s.ready \/ s.avail = "available"
    BY <2>1, Typed DEF Records
  <2>3. /\ s'.proc = s.proc /\ s'.retiring = s.retiring /\ s'.chain = s.chain
        /\ s'.attempt = s.attempt /\ s'.dead = s.dead /\ s'.lock = s.lock
        /\ s'.ready = s.ready /\ s'.closing = s.closing /\ s'.timer = s.timer
        /\ s'.rapid = s.rapid /\ s'.recon = s.recon /\ s'.status = s.status
    BY <2>1, Typed DEF Records
  <2> QED
    BY <1>0, <1>1, <2>1, <2>2, <2>3, Typed, EditedGood DEF Shown, World
<1>3. CASE Becomes(MoveEnded(World))
  <2>1. /\ move' = Resting
        /\ UNCHANGED <<plan, s, act, waiting, joined, release, close, log, host>>
    BY <1>1, <1>3 DEF Becomes, World, MoveEnded
  <2> QED
    BY <1>0, <1>1, <2>1, Typed, EditedGood DEF Shown, World
<1> QED
  BY <1>2, <1>3 DEF MoveRefused

\* Turns that ask for an activation.
LEMMA ActivateGood ==
    ASSUME LifeInv, NEW v \in Visits \cup {None}, Activate(v) PROVE LifeInv'
<1>0. PICK w : w = World
  OBVIOUS
<1>1. /\ plan \in Plans /\ Good(w, host) /\ w \in Worlds /\ w.s \in Records /\ w.log \in Logs
      /\ s = w.s /\ log = w.log /\ act = w.act
      /\ UNCHANGED host
  BY <1>0, Unpacked DEF Activate
<1>2. CASE v \in s.tombs /\ Becomes([World EXCEPT !.s.tombs = @ \ {v}])
  <2>1. /\ s' = [s EXCEPT !.tombs = s.tombs \ {v}]
        /\ UNCHANGED <<plan, act, waiting, joined, move, release, close, log, host>>
    BY <1>1, <1>2 DEF Becomes, World
  <2>2. s' \in Records
    <3>1. s.tombs \ {v} \in SUBSET Visits
      BY Typed DEF Records
    <3> QED
      BY <2>1, <3>1, Typed DEF Records
  <2>3. /\ s'.proc = s.proc /\ s'.retiring = s.retiring /\ s'.chain = s.chain
        /\ s'.attempt = s.attempt /\ s'.dead = s.dead /\ s'.lock = s.lock
        /\ s'.ready = s.ready /\ s'.closing = s.closing /\ s'.timer = s.timer
        /\ s'.rapid = s.rapid /\ s'.recon = s.recon /\ s'.status = s.status
        /\ s'.avail = s.avail /\ s'.fence = s.fence
    BY <2>1, Typed DEF Records
  <2> QED
    BY <2>1, <2>2, <2>3, Typed, EditedGood DEF Shown, World
<1>3. CASE /\ act # NoAct \/ ~Running(World)
           /\ Becomes(Enter([World EXCEPT !.log.restarts = 0], "user", v))
  <2> DEFINE x == [w EXCEPT !.log.restarts = 0]
  <2>1. /\ x.log = [w.log EXCEPT !.restarts = 0] /\ x.s = w.s /\ x.act = w.act
        /\ x.waiting = w.waiting /\ x.joined = w.joined
        /\ x.move = w.move /\ x.release = w.release /\ x.close = w.close
    BY <1>1 DEF Worlds
  <2>2. x \in Worlds
    <3>1. [w.log EXCEPT !.restarts = 0] \in Logs
      BY <1>1 DEF Logs
    <3> QED
      BY <1>1, <3>1 DEF Worlds
  <2>3. PICK c \in Callers \ {"destination", "rollback"} : c = "user"
    BY DEF Callers
  <2>4. Becomes(Enter(x, c, v))
    BY <1>0, <1>3, <2>3
  <2> HIDE DEF x
  <2>5. x.log.restarts = 0 /\ x.log.charged = w.log.charged
    BY <1>1, <2>1 DEF Logs
  <2>6. Core(x, host)
    <3>1. Placed(x, host) /\ Installed(x, host) /\ Forked(x, host) /\ Locked(x, host)
      BY <1>1, <2>1 DEF Good, Core, Placed, Installed, Forked, Locked
    <3>2. Ended(x) /\ Idle(x) /\ Charged(x, host) /\ Shown(x)
      BY <1>1, <2>1, <2>5 DEF Good, Core, Ended, Idle, Charged, Shown
    <3>3. Paid(x)
      <4>1. w.log.restarts \in Nat /\ w.s.rapid \in Nat /\ MaxAttempts \in Nat
        BY <1>1, LifecycleAssumption DEF Logs, Records
      <4> QED
        BY <1>1, <2>1, <2>5, <4>1 DEF Good, Core, Paid, Pays, Capped
    <3> QED
      BY <1>1, <2>2, <3>1, <3>2, <3>3 DEF Good, Core
  <2>7. Tidy(x) /\ \A d : Awaits(x, d) <=> Awaits(w, d)
    BY <1>1, <2>1 DEF Good, Rested, Tidy, Owing, Awaits
  <2>8. x.s.proc = 0 \/ x.act.phase # "none"
    BY <1>0, <1>1, <1>3, <2>1 DEF Good, Core, Idle, Installed, Running, NoAct
  <2>9. Good(Enter(x, c, v), host)
    BY <1>1, <2>1, <2>6, <2>7, <2>8, EnterGood DEF Good, Known
  <2> QED
    BY <1>1, <2>4, <2>9, BecomesGood
<1> QED
  BY <1>2, <1>3 DEF Activate

\* The restart timer asks for an activation, or finds one.
LEMMA TimerFiresGood ==
    ASSUME LifeInv, TimerFires PROVE LifeInv'
<1>0. PICK w : w = World
  OBVIOUS
<1>1. /\ plan \in Plans /\ Good(w, host) /\ w \in Worlds /\ w.s \in Records /\ w.log \in Logs
      /\ s = w.s /\ log = w.log /\ act = w.act /\ w.s.timer
      /\ UNCHANGED host
  BY <1>0, Unpacked DEF TimerFires
<1>n. w.log.restarts \in Nat /\ w.s.rapid \in Nat /\ MaxAttempts \in Nat
  BY <1>1, LifecycleAssumption DEF Logs, Records
<1>2. CASE (s.proc # 0 \/ act # NoAct) /\ Becomes([World EXCEPT !.s.timer = FALSE])
  <2> DEFINE x == [w EXCEPT !.s.timer = FALSE]
  <2>1. /\ x.s = [w.s EXCEPT !.timer = FALSE] /\ x.log = w.log /\ x.act = w.act
        /\ x.waiting = w.waiting /\ x.joined = w.joined
        /\ x.move = w.move /\ x.release = w.release /\ x.close = w.close
    BY <1>1 DEF Worlds
  <2>2. x \in Worlds
    <3>1. [w.s EXCEPT !.timer = FALSE] \in Records
      BY <1>1 DEF Records
    <3> QED
      BY <1>1, <3>1 DEF Worlds
  <2>3. Becomes(x)
    BY <1>0, <1>2
  <2> HIDE DEF x
  <2>4. /\ x.s.proc = w.s.proc /\ x.s.retiring = w.s.retiring /\ x.s.chain = w.s.chain
        /\ x.s.attempt = w.s.attempt /\ x.s.dead = w.s.dead /\ x.s.lock = w.s.lock
        /\ x.s.ready = w.s.ready /\ x.s.closing = w.s.closing /\ ~x.s.timer
        /\ x.s.avail = w.s.avail /\ x.s.fence = w.s.fence /\ x.s.recon = w.s.recon
        /\ x.s.rapid = w.s.rapid /\ x.s.status = w.s.status
    BY <1>1, <2>1 DEF Records
  <2>5. Placed(x, host) /\ Installed(x, host) /\ Forked(x, host) /\ Locked(x, host)
    BY <1>1, <2>1, <2>4 DEF Good, Core, Placed, Installed, Forked, Locked
  <2>6. Ended(x) /\ Idle(x) /\ Charged(x, host) /\ Shown(x)
    BY <1>1, <2>1, <2>4 DEF Good, Core, Ended, Idle, Charged, Shown
  <2>7. Paid(x)
    BY <1>1, <1>n, <2>1, <2>4 DEF Good, Core, Paid, Pays, Capped
  <2>8. Known(x) /\ Tidy(x)
    BY <1>1, <2>1, <2>4 DEF Good, Known, Rested, Tidy, Owing, Awaits
  <2>9. Justified(x)
    <3>1. w.s.proc # 0 \/ w.act.phase # "none"
      BY <1>1, <1>2 DEF Good, Core, Idle
    <3> QED
      BY <2>1, <2>4, <3>1 DEF Justified
  <2>10. Good(x, host)
    BY <1>1, <2>2, <2>5, <2>6, <2>7, <2>8, <2>9 DEF Good, Core, Rested
  <2> QED
    BY <1>1, <2>3, <2>10, BecomesGood
<1>3. CASE /\ s.proc = 0 /\ act = NoAct /\ ~s.dead
           /\ Becomes(Enter([[World EXCEPT !.s.timer = FALSE]
                               EXCEPT !.s.attempt = "live", !.log.restarts = @ + 1], "auto", None))
  <2> DEFINE x == [w EXCEPT !.s.timer = FALSE, !.s.attempt = "live",
                            !.log.restarts = w.log.restarts + 1]
  <2>1. /\ x.log = [w.log EXCEPT !.restarts = w.log.restarts + 1]
        /\ x.s = [w.s EXCEPT !.timer = FALSE, !.attempt = "live"] /\ x.act = w.act
        /\ x.waiting = w.waiting /\ x.joined = w.joined
        /\ x.move = w.move /\ x.release = w.release /\ x.close = w.close
    BY <1>1 DEF Worlds
  <2>2. x \in Worlds
    <3>1. [w.log EXCEPT !.restarts = w.log.restarts + 1] \in Logs
      BY <1>1, <1>n DEF Logs
    <3>2. [w.s EXCEPT !.timer = FALSE, !.attempt = "live"] \in Records
      BY <1>1 DEF Records
    <3> QED
      BY <1>1, <3>1, <3>2 DEF Worlds
  <2>3. PICK c \in Callers \ {"destination", "rollback"}, v \in Visits \cup {None} :
          c = "auto" /\ v = None
    BY DEF Callers
  <2>4. [[World EXCEPT !.s.timer = FALSE]
           EXCEPT !.s.attempt = "live", !.log.restarts = @ + 1] = x
    BY <1>0, <1>1 DEF Worlds
  <2>5. Becomes(Enter(x, c, v))
    BY <1>3, <2>3, <2>4
  <2> HIDE DEF x
  <2>6. /\ x.s.proc = w.s.proc /\ x.s.retiring = w.s.retiring /\ x.s.chain = w.s.chain
        /\ x.s.attempt = "live" /\ x.s.dead = w.s.dead /\ x.s.lock = w.s.lock
        /\ x.s.ready = w.s.ready /\ x.s.closing = w.s.closing /\ ~x.s.timer
        /\ x.s.avail = w.s.avail /\ x.s.fence = w.s.fence /\ x.s.recon = w.s.recon
        /\ x.s.rapid = w.s.rapid /\ x.s.status = w.s.status
        /\ x.log.charged = w.log.charged /\ x.log.restarts = w.log.restarts + 1
    BY <1>1, <2>1 DEF Records, Logs
  <2>7. ~w.s.dead /\ w.s.proc = 0 /\ w.act.phase = "none" /\ w.s.attempt # "accounted"
    BY <1>1, <1>3 DEF Good, Known, NoAct
  <2>8. Core(x, host)
    <3>1. Placed(x, host) /\ Installed(x, host) /\ Forked(x, host) /\ Locked(x, host)
      BY <1>1, <2>1, <2>6 DEF Good, Core, Placed, Installed, Forked, Locked
    <3>2. Ended(x) /\ Idle(x) /\ Charged(x, host) /\ Shown(x)
      BY <1>1, <2>1, <2>6, <2>7 DEF Good, Core, Ended, Idle, Charged, Shown
    <3>3. Paid(x)
      BY <1>1, <1>n, <2>1, <2>6, <2>7 DEF Good, Core, Paid, Pays, Capped
    <3> QED
      BY <1>1, <2>2, <3>1, <3>2, <3>3 DEF Good, Core
  <2>9. Tidy(x) /\ \A d : Awaits(x, d) <=> Awaits(w, d)
    BY <1>1, <2>1, <2>6, <2>7 DEF Good, Rested, Tidy, Owing, Awaits
  <2>10. /\ x.s.proc = 0 /\ x.s.attempt # "accounted"
         /\ x.s.attempt # "none" => Awaits(x, "auto") \/ c = "auto"
    BY <2>3, <2>6, <2>7
  <2>11. \A d \in {"destination", "rollback"} : Awaits(x, d) => x.move.phase = d
    BY <1>1, <2>1, <2>9 DEF Good, Known
  <2>12. Good(Enter(x, c, v), host)
    BY <2>8, <2>9, <2>10, <2>11, EnterGood
  <2> QED
    BY <1>1, <2>5, <2>12, BecomesGood
<1> QED
  <2>1. s.dead => ~s.timer
    BY DEF LifeInv, Good, Core, Ended, World
  <2> QED
    BY <1>2, <1>3, <2>1 DEF TimerFires

\* The turns of an activation.
LEMMA SpawnGood ==
    ASSUME LifeInv, Spawn PROVE LifeInv'
<1>0. PICK w : w = World
  OBVIOUS
<1>1. /\ plan \in Plans /\ Good(w, host) /\ w \in Worlds /\ w.s \in Records /\ w.log \in Logs
      /\ w.act \in Acts /\ host \in Processes
      /\ s = w.s /\ act = w.act /\ log = w.log /\ close = w.close /\ release = w.release
  BY <1>0, Unpacked
<1>2. PICK h \in 1 .. plan.hosts :
        /\ Spawned = 1 .. (h - 1)
        /\ host' = [host EXCEPT ![h] = "booting"]
        /\ Becomes([World EXCEPT !.act.phase = "boot", !.act.host = h, !.s.proc = h,
                                 !.s.lock = TRUE, !.log.cwd[h] = s.checkout,
                                 !.log.visit[h] = act.visit])
  BY DEF Spawn
<1>3. /\ w.act.phase = "prepare" /\ ~w.s.dead
      /\ w.release.phase # "unlock" /\ w.close # "unlock"
  BY <1>1 DEF Spawn
<1>4. h \in Hosts /\ h # 0 /\ h \in 0 .. MaxHosts /\ host[h] = "unborn"
  <2>1. plan.hosts \in 0 .. MaxHosts
    BY <1>1, LifecycleAssumption
  <2>2. h \in Hosts /\ h # 0 /\ h \in 0 .. MaxHosts
    BY <2>1, LifecycleAssumption DEF Hosts
  <2>3. h \notin 1 .. (h - 1)
    BY <2>2, LifecycleAssumption
  <2> QED
    BY <1>2, <2>2, <2>3 DEF Spawned
<1> DEFINE c == [w.log.cwd EXCEPT ![h] = w.s.checkout]
           u == [w.log.visit EXCEPT ![h] = w.act.visit]
           x == [w EXCEPT !.act.phase = "boot", !.act.host = h, !.s.proc = h, !.s.lock = TRUE,
                          !.log.cwd = c, !.log.visit = u]
           q == [host EXCEPT ![h] = "booting"]
<1>5. c \in [Hosts -> {"old", "new", None}] /\ u \in [Hosts -> Visits \cup {None}]
  BY <1>1, <1>4 DEF Logs, Records, Acts
<1>6. Becomes(x) /\ host' = q
  <2>1. [World EXCEPT !.act.phase = "boot", !.act.host = h, !.s.proc = h,
                      !.s.lock = TRUE, !.log.cwd[h] = s.checkout, !.log.visit[h] = act.visit] = x
    BY <1>0, <1>1 DEF Worlds, Logs
  <2> QED
    BY <1>2, <2>1
<1> HIDE DEF c, u
<1>7. /\ x.s = [w.s EXCEPT !.proc = h, !.lock = TRUE]
      /\ x.act = [w.act EXCEPT !.phase = "boot", !.host = h]
      /\ x.log = [w.log EXCEPT !.cwd = c, !.visit = u]
      /\ x.waiting = w.waiting /\ x.joined = w.joined
      /\ x.move = w.move /\ x.release = w.release /\ x.close = w.close
  BY <1>1 DEF Worlds
<1>8. x \in Worlds
  <2>1. [w.s EXCEPT !.proc = h, !.lock = TRUE] \in Records
    BY <1>1, <1>4 DEF Records
  <2>2. [w.act EXCEPT !.phase = "boot", !.host = h] \in Acts
    BY <1>1, <1>4 DEF Acts
  <2>3. [w.log EXCEPT !.cwd = c, !.visit = u] \in Logs
    BY <1>1, <1>5 DEF Logs
  <2> QED
    BY <1>1, <2>1, <2>2, <2>3 DEF Worlds
<1>9. q \in Processes /\ q[h] = "booting" /\ \A g \in Hosts : g # h => q[g] = host[g]
  BY <1>1, <1>4 DEF Processes
<1> HIDE DEF x, q
<1>10. /\ x.s.proc = h /\ x.s.retiring = w.s.retiring /\ x.s.chain = w.s.chain
       /\ x.s.attempt = w.s.attempt /\ x.s.dead = w.s.dead /\ x.s.lock
       /\ x.s.ready = w.s.ready /\ x.s.closing = w.s.closing /\ x.s.timer = w.s.timer
       /\ x.s.avail = w.s.avail /\ x.s.fence = w.s.fence /\ x.s.recon = w.s.recon
       /\ x.s.rapid = w.s.rapid /\ x.s.status = w.s.status
       /\ x.act.phase = "boot" /\ x.act.host = h /\ x.act.caller = w.act.caller
       /\ x.log.charged = w.log.charged /\ x.log.restarts = w.log.restarts
  BY <1>1, <1>7 DEF Records, Acts, Logs
<1>11. w.s.proc = 0 /\ w.s.retiring = 0 /\ \A g \in Hosts : ~Lives(host, g)
  <2>1. w.s.proc = 0 /\ w.s.retiring = 0
    BY <1>1, <1>3 DEF Good, Core, Installed, Placed
  <2> QED
    BY <1>1, <2>1, HostFacts DEF Good, Core, Placed
<1>12. Placed(x, q) /\ Installed(x, q) /\ Forked(x, q)
  <2>1. Placed(x, q)
    BY <1>4, <1>9, <1>10, <1>11 DEF Placed, Lives
  <2>2. Installed(x, q) /\ Forked(x, q)
    BY <1>3, <1>4, <1>9, <1>10 DEF Installed, Forked
  <2> QED
    BY <2>1, <2>2
<1>13. Locked(x, q) /\ Ended(x) /\ Idle(x)
  BY <1>1, <1>3, <1>7, <1>10 DEF Good, Core, Known, Locked, Ended, Idle
<1>14. Shown(x) /\ Paid(x)
  BY <1>1, <1>3, <1>7, <1>10 DEF Good, Core, Shown, Paid
<1>15. Charged(x, q)
  <2>1. w.log.charged[h] = 0
    BY <1>1, <1>4 DEF Good, Core, Charged
  <2>2. \A g \in Hosts : w.log.charged[g] <= 1 /\ (q[g] = "unborn" => w.log.charged[g] = 0)
    BY <1>1, <1>9, <2>1 DEF Good, Core, Charged
  <2> QED
    BY <1>10, <2>1, <2>2 DEF Charged
<1>16. Known(x)
  BY <1>1, <1>3, <1>7, <1>10 DEF Good, Known, Awaits
<1>17. Rested(x)
  <2>1. Tidy(x)
    BY <1>1, <1>4, <1>7, <1>10, <1>11 DEF Good, Rested, Tidy
  <2>2. Justified(x)
    BY <1>4, <1>10 DEF Justified
  <2> QED
    BY <2>1, <2>2 DEF Rested
<1>18. Good(x, q)
  BY <1>8, <1>9, <1>12, <1>13, <1>14, <1>15, <1>16, <1>17 DEF Good, Core
<1> QED
  BY <1>1, <1>6, <1>18, BecomesGood

\* The turns of an activation, by the wait that ends.
LEMMA WithdrawGood ==
    ASSUME LifeInv, Withdraw PROVE LifeInv'
<1>0. PICK w : w = World
  OBVIOUS
<1>1. /\ plan \in Plans /\ Good(w, host) /\ s = w.s /\ act = w.act /\ UNCHANGED host
  BY <1>0, Unpacked DEF Withdraw
<1>2. w.act.phase = "prepare" /\ w.s.dead
  BY <1>1 DEF Withdraw
<1>3. PICK ok \in BOOLEAN, rapid \in BOOLEAN : ok = TRUE /\ rapid = FALSE
  OBVIOUS
<1>4. Becomes(Finished(w, ok, rapid))
  BY <1>0, <1>3 DEF Withdraw
<1>5. /\ Core(w, host) /\ Known(w) /\ Tidy(w) /\ w.waiting = <<>> /\ w.s.proc = 0
      /\ w.s.chain => w.s.retiring # 0
      /\ w.release.phase = "retire" => w.s.retiring # 0
      /\ w.close = "retire" => w.s.retiring # 0
      /\ Reasons(w)
  BY <1>1, <1>2 DEF Good, Rested, Tidy, Core, Installed, Ended, Reasons
<1>6. w.act.phase \notin {"none", "fail"} /\ (ok \/ (w.s.retiring = 0 /\ w.s.avail # "available"))
  BY <1>2, <1>3
<1>7. Good(Finished(w, ok, rapid), host)
  BY <1>5, <1>6, FinishedGood
<1> QED
  BY <1>1, <1>4, <1>7, BecomesGood

\* The catch of activateSession leaves a record without process or lock.
LEMMA FailingGood ==
    ASSUME NEW w, NEW p, Core(w, p), Known(w), w.s.proc = 0, w.s.retiring = 0,
           w.act.phase # "none", w.waiting = <<>>, ~w.s.chain, w.release.phase # "retire",
           w.close # "retire"
    PROVE  Good(Failing(w), p)
<1> DEFINE x == Failing(w)
<1>1. /\ Core(x, p)
      /\ x.act = [w.act EXCEPT !.phase = "unlock"]
      /\ x.waiting = w.waiting /\ x.joined = w.joined /\ x.move = w.move
      /\ x.release = w.release /\ x.close = w.close
      /\ x.s.proc = 0 /\ x.s.retiring = 0 /\ x.s.chain = w.s.chain
      /\ x.s.attempt = w.s.attempt /\ ~x.s.lock
  BY FailingKeeps
<1> HIDE DEF x
<1>2. x.act.phase = "unlock" /\ x.act.caller = w.act.caller
  BY <1>1 DEF Core, Worlds, Acts
<1>3. Known(x)
  BY <1>1, <1>2 DEF Known, Awaits
<1>4. Tidy(x) /\ Justified(x)
  BY <1>1, <1>2 DEF Tidy, Justified
<1> QED
  BY <1>1, <1>3, <1>4 DEF Good, Rested, x

\* An activation fails before it has a process.
LEMMA PrepareFailsGood ==
    ASSUME LifeInv, PrepareFails PROVE LifeInv'
<1>0. PICK w : w = World
  OBVIOUS
<1>1. /\ plan \in Plans /\ Good(w, host) /\ act = w.act /\ UNCHANGED host
      /\ Becomes(Failing(w))
  BY <1>0, Unpacked DEF PrepareFails
<1>2. w.act.phase = "prepare"
  BY <1>1 DEF PrepareFails
<1>3. w.s.proc = 0 /\ w.s.retiring = 0
  BY <1>1, <1>2 DEF Good, Core, Installed, Placed
<1>4. Good(Failing(w), host)
  BY <1>1, <1>2, <1>3, FailingGood DEF Good, Rested, Tidy
<1> QED
  BY <1>1, <1>4, BecomesGood

\* A process that became ready is at work.
LEMMA ReadiedGood ==
    ASSUME NEW w, NEW p, Good(w, p), w.act.phase \in {"boot", "recover"},
           w.s.proc = w.act.host, w.s.proc # 0,
           NEW q \in Processes, \A g \in Hosts : g # w.s.proc => q[g] = p[g],
           \/ q[w.s.proc] = "up" /\ p[w.s.proc] \in {"booting", "up"}
           \/ plan.retained /\ q[w.s.proc] = "gone" /\ p[w.s.proc] = "gone",
           NEW b \in BOOLEAN, b => w.s.recon
    PROVE  Good(Readied([w EXCEPT !.s.recon = b]), q)
<1>0. w \in Worlds /\ w.s \in Records /\ w.act \in Acts
  BY DEF Good, Core, Worlds
<1> DEFINE x == Readied([w EXCEPT !.s.recon = b])
<1>1. x = [w EXCEPT !.s.recon = b, !.act.phase = "resync", !.s.ready = TRUE, !.s.status = "ready"]
  BY DEF Readied
<1> HIDE DEF x
<1>2. /\ x.s = [w.s EXCEPT !.recon = b, !.ready = TRUE, !.status = "ready"]
      /\ x.act = [w.act EXCEPT !.phase = "resync"]
      /\ x.waiting = w.waiting /\ x.joined = w.joined
      /\ x.move = w.move /\ x.release = w.release /\ x.close = w.close /\ x.log = w.log
  BY <1>0, <1>1 DEF Worlds
<1>3. x \in Worlds
  <2>1. [w.s EXCEPT !.recon = b, !.ready = TRUE, !.status = "ready"] \in Records
    BY <1>0 DEF Records
  <2>2. [w.act EXCEPT !.phase = "resync"] \in Acts
    BY <1>0 DEF Acts
  <2> QED
    BY <1>0, <1>1, <1>2, <2>1, <2>2 DEF Worlds
<1>4. /\ x.s.proc = w.s.proc /\ x.s.retiring = w.s.retiring /\ x.s.chain = w.s.chain
      /\ x.s.attempt = w.s.attempt /\ x.s.dead = w.s.dead /\ x.s.lock = w.s.lock
      /\ x.s.ready /\ x.s.closing = w.s.closing /\ x.s.timer = w.s.timer
      /\ x.s.avail = w.s.avail /\ x.s.fence = w.s.fence /\ (x.s.recon => w.s.recon)
      /\ x.s.rapid = w.s.rapid /\ x.s.status = "ready"
      /\ x.act.phase = "resync" /\ x.act.host = w.act.host /\ x.act.caller = w.act.caller
  BY <1>0, <1>2 DEF Records, Acts
<1>5. w.s.proc \in Hosts /\ ~w.s.dead /\ w.s.retiring = 0
  <2>1. w.s.proc \in 0 .. MaxHosts
    BY <1>0 DEF Records
  <2>2. ~w.s.dead /\ w.s.retiring = 0
    BY DEF Good, Core, Installed, Placed
  <2> QED
    BY <2>1, <2>2, HostFacts
<1>6. Placed(x, q) /\ Installed(x, q) /\ Forked(x, q)
  <2>1. Placed(x, q)
    BY <1>4, <1>5 DEF Good, Core, Placed, Lives
  <2>2. Installed(x, q) /\ Forked(x, q)
    BY <1>4, <1>5 DEF Good, Core, Installed, Forked
  <2> QED
    BY <2>1, <2>2
<1>7. Locked(x, q) /\ Ended(x) /\ Idle(x)
  BY <1>2, <1>4, <1>5 DEF Good, Core, Locked, Ended, Idle
<1>8. Shown(x) /\ Paid(x)
  BY <1>2, <1>4 DEF Good, Core, Shown, Paid
<1>9. Charged(x, q)
  <2>1. \A g \in Hosts : q[g] = "unborn" => p[g] = "unborn"
    BY <1>5
  <2> QED
    BY <1>2, <1>4, <2>1 DEF Good, Core, Charged
<1>10. Known(x)
  BY <1>2, <1>4 DEF Good, Known, Awaits
<1>11. Tidy(x) /\ Justified(x)
  BY <1>2, <1>4, <1>5 DEF Good, Rested, Tidy, Justified
<1> QED
  BY <1>3, <1>6, <1>7, <1>8, <1>9, <1>10, <1>11 DEF Good, Core, Rested, x

\* A process has booted.
LEMMA BootReadyGood ==
    ASSUME LifeInv, BootReady PROVE LifeInv'
<1>0. PICK w : w = World
  OBVIOUS
<1>1. /\ plan \in Plans /\ Good(w, host) /\ w \in Worlds /\ w.s \in Records
      /\ w.act \in Acts /\ host \in Processes /\ s = w.s /\ act = w.act
  BY <1>0, Unpacked
<1>2. /\ w.act.phase = "boot" /\ host[w.act.host] = "booting"
      /\ host' = [host EXCEPT ![w.act.host] = "up"]
  BY <1>1 DEF BootReady
<1>3. w.act.host \in Hosts /\ w.act.host # 0 /\ w.s.proc = w.act.host /\ w.s.retiring = 0
      /\ ~w.s.dead
  <2>1. w.act.host \in Hosts /\ w.act.host # 0
    BY <1>1, <1>2, HostFacts DEF Good, Core, Forked, Acts
  <2>2. w.s.proc = w.act.host
    BY <1>1, <1>2, <2>1 DEF Good, Core, Placed, Lives
  <2> QED
    BY <1>1, <2>1, <2>2 DEF Good, Core, Placed, Installed
<1> DEFINE q == [host EXCEPT ![w.act.host] = "up"]
<1>4. q \in Processes /\ q[w.s.proc] = "up" /\ \A g \in Hosts : g # w.s.proc => q[g] = host[g]
  BY <1>1, <1>3 DEF Processes
<1>5. host' = q
  BY <1>2
<1> HIDE DEF q
<1>6. CASE ~w.s.recon
  <2>1. Becomes(Readied(w))
    BY <1>0, <1>1, <1>6 DEF BootReady
  <2>2. PICK b \in BOOLEAN : b = w.s.recon
    BY <1>1 DEF Records
  <2>3. [w EXCEPT !.s.recon = b] = w
    BY <1>1, <2>2 DEF Worlds, Records
  <2>4. Good(Readied([w EXCEPT !.s.recon = b]), q)
    BY <1>1, <1>2, <1>3, <1>4, <2>2, ReadiedGood
  <2> QED
    BY <1>1, <1>5, <2>1, <2>3, <2>4, BecomesGood
<1>7. CASE w.s.recon
  <2> DEFINE x == [w EXCEPT !.act.phase = "recover"]
  <2>1. Becomes(x)
    BY <1>0, <1>1, <1>7 DEF BootReady
  <2>2. /\ x.act = [w.act EXCEPT !.phase = "recover"] /\ x.s = w.s
        /\ x.waiting = w.waiting /\ x.joined = w.joined
        /\ x.move = w.move /\ x.release = w.release /\ x.close = w.close /\ x.log = w.log
    BY <1>1 DEF Worlds
  <2>3. x \in Worlds
    <3>1. [w.act EXCEPT !.phase = "recover"] \in Acts
      BY <1>1 DEF Acts
    <3> QED
      BY <1>1, <3>1 DEF Worlds
  <2> HIDE DEF x
  <2>4. x.act.phase = "recover" /\ x.act.host = w.act.host /\ x.act.caller = w.act.caller
    BY <1>1, <2>2 DEF Acts
  <2>5. plan.retained /\ w.s.attempt # "accounted"
    BY <1>1, <1>2, <1>7 DEF Good, Core, Shown, Known
  <2>6. Placed(x, q) /\ Installed(x, q) /\ Forked(x, q)
    <3>1. Placed(x, q)
      BY <1>1, <1>3, <1>4, <2>2, <2>4 DEF Good, Core, Placed, Lives
    <3>2. Installed(x, q) /\ Forked(x, q)
      BY <1>1, <1>3, <1>4, <2>2, <2>4 DEF Good, Core, Installed, Forked
    <3> QED
      BY <3>1, <3>2
  <2>7. Locked(x, q) /\ Ended(x) /\ Idle(x)
    BY <1>1, <1>2, <1>3, <2>2, <2>4 DEF Good, Core, Locked, Ended, Idle
  <2>8. Shown(x) /\ Paid(x)
    BY <1>1, <1>2, <2>2, <2>4, <2>5 DEF Good, Core, Shown, Paid
  <2>9. Charged(x, q)
    <3>1. \A g \in Hosts : q[g] = "unborn" => host[g] = "unborn"
      BY <1>3, <1>4
    <3> QED
      BY <1>1, <1>2, <2>2, <2>4, <3>1 DEF Good, Core, Charged
  <2>10. Known(x)
    BY <1>1, <1>2, <2>2, <2>4 DEF Good, Known, Awaits
  <2>11. Tidy(x) /\ Justified(x)
    BY <1>1, <1>3, <2>2, <2>4, <2>5 DEF Good, Rested, Tidy, Justified
  <2>12. Good(x, q)
    BY <1>4, <2>3, <2>6, <2>7, <2>8, <2>9, <2>10, <2>11 DEF Good, Core, Rested
  <2> QED
    BY <1>1, <1>5, <2>1, <2>12, BecomesGood
<1> QED
  BY <1>6, <1>7

\* The process an activation waits for is stopped: it is retired, and the
\* activation fails when it has exited.
LEMMA StoppedGood ==
    ASSUME NEW w, NEW p, Good(w, p), w.act.phase \in {"boot", "recover"},
           NEW h \in Hosts, h = w.act.host, w.s.proc = h, Lives(p, h)
    PROVE  Good([w EXCEPT !.act.phase = "fail", !.s.proc = 0, !.s.retiring = h],
                [p EXCEPT ![h] = "stopping"])
<1>1. w \in Worlds /\ w.s \in Records /\ w.act \in Acts /\ p \in Processes
  BY DEF Good, Core, Worlds
<1>2. h # 0 /\ h \in 0 .. MaxHosts
  BY HostFacts
<1>3. w.s.retiring = 0 /\ ~w.s.dead /\ w.s.lock /\ w.s.attempt # "accounted"
  BY <1>2 DEF Good, Core, Placed, Installed, Locked, Idle, Lives
<1> DEFINE q == [p EXCEPT ![h] = "stopping"]
           x == [w EXCEPT !.act.phase = "fail", !.s.proc = 0, !.s.retiring = h]
<1>5. q \in Processes /\ q[h] = "stopping" /\ \A g \in Hosts : g # h => q[g] = p[g]
  BY <1>1 DEF Processes
<1>7. /\ x.act = [w.act EXCEPT !.phase = "fail"] /\ x.s = [w.s EXCEPT !.proc = 0, !.retiring = h]
      /\ x.waiting = w.waiting /\ x.joined = w.joined
      /\ x.move = w.move /\ x.release = w.release /\ x.close = w.close /\ x.log = w.log
  BY <1>1 DEF Worlds
<1>8. x \in Worlds
  <2>1. [w.act EXCEPT !.phase = "fail"] \in Acts
    BY <1>1 DEF Acts
  <2>2. [w.s EXCEPT !.proc = 0, !.retiring = h] \in Records
    BY <1>1, <1>2, HostFacts DEF Records
  <2> QED
    BY <1>1, <2>1, <2>2 DEF Worlds
<1> HIDE DEF x, q
<1>9. /\ x.s.proc = 0 /\ x.s.retiring = h /\ x.s.chain = w.s.chain
      /\ x.s.attempt = w.s.attempt /\ x.s.dead = w.s.dead /\ x.s.lock = w.s.lock
      /\ x.s.ready = w.s.ready /\ x.s.closing = w.s.closing /\ x.s.timer = w.s.timer
      /\ x.s.avail = w.s.avail /\ x.s.fence = w.s.fence /\ x.s.recon = w.s.recon
      /\ x.s.rapid = w.s.rapid /\ x.s.status = w.s.status
      /\ x.act.phase = "fail" /\ x.act.host = w.act.host /\ x.act.caller = w.act.caller
  BY <1>1, <1>7 DEF Records, Acts
<1>10. Placed(x, q) /\ Installed(x, q) /\ Forked(x, q)
  <2>1. Placed(x, q)
    BY <1>2, <1>3, <1>5, <1>9 DEF Good, Core, Placed, Lives
  <2>2. Installed(x, q) /\ Forked(x, q)
    BY <1>5, <1>9 DEF Installed, Forked
  <2> QED
    BY <2>1, <2>2
<1>11. Locked(x, q) /\ Ended(x) /\ Idle(x)
  BY <1>2, <1>3, <1>7, <1>9 DEF Good, Core, Locked, Ended, Idle
<1>12. Shown(x) /\ Paid(x)
  BY <1>7, <1>9 DEF Good, Core, Shown, Paid
<1>13. Charged(x, q)
  <2>1. \A g \in Hosts : q[g] = "unborn" => p[g] = "unborn"
    BY <1>5
  <2> QED
    BY <1>7, <1>9, <2>1 DEF Good, Core, Charged
<1>14. Known(x)
  BY <1>7, <1>9 DEF Good, Known, Awaits
<1>15. Tidy(x) /\ Justified(x)
  BY <1>2, <1>7, <1>9 DEF Good, Rested, Tidy, Owing, Justified
<1> QED
  BY <1>5, <1>8, <1>10, <1>11, <1>12, <1>13, <1>14, <1>15 DEF Good, Core, Rested, x, q

\* A process is alive but does not become ready: it is retired.
LEMMA BootFailsGood ==
    ASSUME LifeInv, BootFails PROVE LifeInv'
<1>0. PICK w : w = World
  OBVIOUS
<1>1. plan \in Plans /\ Good(w, host) /\ w.act \in Acts /\ s = w.s /\ act = w.act
  BY <1>0, Unpacked
<1>2. w.act.phase = "boot" /\ host[w.act.host] = "booting"
  BY <1>1 DEF BootFails
<1>3. PICK h \in Hosts : h = w.act.host
  BY <1>1, <1>2, HostFacts DEF Good, Core, Forked, Acts
<1>4. w.s.proc = h /\ Lives(host, h)
  BY <1>1, <1>2, <1>3, HostFacts DEF Good, Core, Placed, Lives
<1>5. /\ host' = [host EXCEPT ![h] = "stopping"]
      /\ Becomes([w EXCEPT !.act.phase = "fail", !.s.proc = 0, !.s.retiring = h])
  BY <1>0, <1>1, <1>3 DEF BootFails
<1>6. Good([w EXCEPT !.act.phase = "fail", !.s.proc = 0, !.s.retiring = h],
           [host EXCEPT ![h] = "stopping"])
  BY <1>1, <1>2, <1>3, <1>4, StoppedGood
<1> QED
  BY <1>1, <1>5, <1>6, BecomesGood

\* A process that has exited while its activation waited for it is forgotten.
LEMMA VacatedKeeps ==
    ASSUME NEW w, NEW p, Good(w, p), w.act.phase \in {"boot", "recover"},
           NEW q \in Processes, \A g \in Hosts : g # w.s.proc => q[g] = p[g],
           w.s.proc # 0 => q[w.s.proc] = "gone"
    PROVE  LET x == [w EXCEPT !.s.proc = 0]
           IN  /\ Core(x, q) /\ Known(x) /\ x.s.proc = 0 /\ x.s.retiring = w.s.retiring
               /\ x.act = w.act /\ x.waiting = <<>> /\ x.s.chain = w.s.chain
               /\ x.s.dead = w.s.dead
               /\ x.release = w.release /\ x.close = w.close /\ x.move = w.move
               /\ w.s.chain => w.s.retiring # 0
               /\ w.release.phase = "retire" => w.s.retiring # 0
               /\ w.close = "retire" => w.s.retiring # 0
<1>0. w \in Worlds /\ w.s \in Records /\ w.act \in Acts
  BY DEF Good, Core, Worlds
<1> DEFINE x == [w EXCEPT !.s.proc = 0]
<1>1. /\ x.s = [w.s EXCEPT !.proc = 0] /\ x.act = w.act
      /\ x.waiting = w.waiting /\ x.joined = w.joined
      /\ x.move = w.move /\ x.release = w.release /\ x.close = w.close /\ x.log = w.log
  BY <1>0 DEF Worlds
<1>2. x \in Worlds
  <2>1. [w.s EXCEPT !.proc = 0] \in Records
    BY <1>0, HostFacts DEF Records
  <2> QED
    BY <1>0, <2>1 DEF Worlds
<1> HIDE DEF x
<1>3. /\ x.s.proc = 0 /\ x.s.retiring = w.s.retiring /\ x.s.chain = w.s.chain
      /\ x.s.attempt = w.s.attempt /\ x.s.dead = w.s.dead /\ x.s.lock = w.s.lock
      /\ x.s.ready = w.s.ready /\ x.s.closing = w.s.closing /\ x.s.timer = w.s.timer
      /\ x.s.avail = w.s.avail /\ x.s.fence = w.s.fence /\ x.s.recon = w.s.recon
      /\ x.s.rapid = w.s.rapid /\ x.s.status = w.s.status
  BY <1>0, <1>1 DEF Records
<1>4. w.s.proc \in 0 .. MaxHosts /\ (w.s.proc # 0 => w.s.proc \in Hosts /\ w.s.retiring = 0)
  BY <1>0, HostFacts DEF Good, Core, Placed, Records
<1>5. Placed(x, q) /\ Installed(x, q) /\ Forked(x, q)
  <2>1. Placed(x, q)
    <3>1. \A h \in Hosts : Lives(q, h) => h # w.s.proc /\ h = w.s.retiring
      BY <1>4, HostFacts DEF Good, Core, Placed, Lives
    <3>2. w.s.retiring # 0 => w.s.proc = 0 /\ q[w.s.retiring] = "stopping"
      BY <1>0, HostFacts DEF Good, Core, Placed, Records
    <3> QED
      BY <1>1, <1>3, <3>1, <3>2 DEF Good, Core, Placed
  <2>2. Installed(x, q)
    BY <1>3 DEF Installed
  <2>3. Forked(x, q)
    BY <1>0, <1>1, <1>4, HostFacts DEF Good, Core, Forked, Acts
  <2> QED
    BY <2>1, <2>2, <2>3
<1>6. Locked(x, q) /\ Ended(x) /\ Idle(x)
  BY <1>1, <1>3 DEF Good, Core, Locked, Ended, Idle
<1>7. Shown(x) /\ Paid(x)
  BY <1>1, <1>3 DEF Good, Core, Shown, Paid
<1>8. Charged(x, q)
  <2>1. \A g \in Hosts : q[g] = "unborn" => p[g] = "unborn"
    BY <1>4, HostFacts
  <2> QED
    BY <1>1, <1>3, <2>1 DEF Good, Core, Charged
<1>9. Known(x)
  BY <1>1, <1>3 DEF Good, Known, Awaits
<1>10. /\ w.waiting = <<>>
       /\ w.s.chain => w.s.retiring # 0
       /\ w.release.phase = "retire" => w.s.retiring # 0
       /\ w.close = "retire" => w.s.retiring # 0
  BY DEF Good, Rested, Tidy
<1> QED
  BY <1>1, <1>2, <1>3, <1>5, <1>6, <1>7, <1>8, <1>9, <1>10 DEF Core, x

\* An activation that finds its process replaced resolves, or waits for the exit.
LEMMA SupersededGood ==
    ASSUME NEW w, NEW p, Good(w, p), w.act.phase \in {"recover", "resync"}, w.s.proc = 0,
           NEW rapid \in BOOLEAN
    PROVE  Good(Superseded(w, rapid), p)
<1>0. w \in Worlds /\ w.act \in Acts
  BY DEF Good, Core, Worlds
<1>1. CASE w.s.retiring = 0
  <2>1. PICK ok \in BOOLEAN : ok = TRUE
    OBVIOUS
  <2>2. /\ Core(w, p) /\ Known(w) /\ Tidy(w) /\ w.waiting = <<>>
        /\ w.s.chain => w.s.retiring # 0
        /\ w.release.phase = "retire" => w.s.retiring # 0
        /\ w.close = "retire" => w.s.retiring # 0
    BY DEF Good, Rested, Tidy
  <2>3. ~plan.retained => Reasons(w)
    <3>1. ~plan.retained => w.s.dead
      BY <1>1 DEF Good, Core, Shown, Rested, Tidy
    <3> QED
      BY <3>1 DEF Good, Core, Ended, Reasons
  <2>4. w.act.phase \notin {"none", "fail"} /\ (ok \/ (w.s.retiring = 0 /\ w.s.avail # "available"))
    BY <2>1
  <2>5. Good(Finished(w, ok, rapid), p)
    BY <2>2, <2>3, <2>4, FinishedGood
  <2> QED
    BY <1>1, <2>1, <2>5 DEF Superseded
<1>2. CASE w.s.retiring # 0
  <2> DEFINE x == [w EXCEPT !.act.phase = "drop"]
  <2>1. /\ x.act = [w.act EXCEPT !.phase = "drop"] /\ x.s = w.s
        /\ x.waiting = w.waiting /\ x.joined = w.joined
        /\ x.move = w.move /\ x.release = w.release /\ x.close = w.close /\ x.log = w.log
    BY <1>0 DEF Worlds
  <2>2. x \in Worlds
    <3>1. [w.act EXCEPT !.phase = "drop"] \in Acts
      BY <1>0 DEF Acts
    <3> QED
      BY <1>0, <3>1 DEF Worlds
  <2>3. Superseded(w, rapid) = x
    BY <1>2 DEF Superseded
  <2> HIDE DEF x
  <2>4. x.act.phase = "drop" /\ x.act.host = w.act.host /\ x.act.caller = w.act.caller
    BY <1>0, <2>1 DEF Acts
  <2>5. Placed(x, p) /\ Installed(x, p) /\ Forked(x, p) /\ Locked(x, p)
    BY <2>1, <2>4 DEF Good, Core, Placed, Installed, Forked, Locked
  <2>6. Ended(x) /\ Idle(x) /\ Charged(x, p) /\ Paid(x)
    BY <2>1, <2>4 DEF Good, Core, Ended, Idle, Charged, Paid
  <2>7. Shown(x)
    BY <2>1, <2>4 DEF Good, Core, Shown
  <2>8. Known(x)
    BY <2>1, <2>4 DEF Good, Known, Awaits
  <2>9. Tidy(x) /\ Justified(x)
    BY <1>2, <2>1, <2>4 DEF Good, Rested, Tidy, Owing, Justified
  <2> QED
    BY <2>2, <2>3, <2>5, <2>6, <2>7, <2>8, <2>9 DEF Good, Core, Rested
<1> QED
  BY <1>1, <1>2

\* The recovery of the editor ends.
LEMMA RecoveredGood ==
    ASSUME LifeInv, Recovered PROVE LifeInv'
<1>0. PICK w : w = World
  OBVIOUS
<1>1. /\ plan \in Plans /\ Good(w, host) /\ w \in Worlds /\ w.s \in Records
      /\ host \in Processes /\ s = w.s /\ act = w.act
  BY <1>0, Unpacked
<1>2. w.act.phase = "recover" /\ host' = host
  BY <1>1 DEF Recovered
<1>3. PICK b \in BOOLEAN : b = FALSE
  OBVIOUS
<1> DEFINE r == [w EXCEPT !.s.recon = b]
<1>4. PICK rapid \in BOOLEAN :
        Becomes(IF w.s.dead \/ w.s.proc # w.act.host THEN Superseded(r, rapid) ELSE Readied(r))
  BY <1>0, <1>1, <1>3 DEF Recovered
<1>5. /\ r.s = [w.s EXCEPT !.recon = b] /\ r.act = w.act
      /\ r.waiting = w.waiting /\ r.joined = w.joined
      /\ r.move = w.move /\ r.release = w.release /\ r.close = w.close /\ r.log = w.log
  BY <1>1 DEF Worlds
<1>6. r \in Worlds
  <2>1. [w.s EXCEPT !.recon = b] \in Records
    BY <1>1 DEF Records
  <2> QED
    BY <1>1, <2>1 DEF Worlds
<1>7. plan.retained /\ (w.s.proc # 0 => w.s.proc = w.act.host /\ ~w.s.dead)
  BY <1>1, <1>2 DEF Good, Core, Shown, Installed
<1>8. CASE w.s.proc = 0
  <2> HIDE DEF r
  <2>1. Alike(r, w) /\ r.s.avail = w.s.avail /\ r.s.fence = w.s.fence
    BY <1>1, <1>5 DEF Alike, Records
  <2>2. Shown(r)
    BY <1>1, <1>5, <1>7, <2>1 DEF Good, Core, Shown, Alike
  <2>3. Good(r, host)
    BY <1>1, <1>5, <1>6, <2>1, <2>2, AlikeKeeps
  <2>4. r.s.proc = 0 /\ w.s.proc # w.act.host
    BY <1>1, <1>2, <1>8, <2>1 DEF Good, Core, Forked, Alike
  <2>5. Becomes(Superseded(r, rapid))
    BY <1>4, <2>4
  <2>6. Good(Superseded(r, rapid), host)
    BY <1>2, <1>5, <2>3, <2>4, SupersededGood
  <2> QED
    BY <1>1, <1>2, <2>5, <2>6, BecomesGood
<1>9. CASE w.s.proc # 0
  <2>1. Becomes(Readied(r))
    BY <1>4, <1>7, <1>9
  <2>2. host[w.s.proc] \in {"up", "gone"}
    BY <1>1, <1>2, <1>9 DEF Good, Core, Installed
  <2>3. Good(Readied(r), host)
    BY <1>1, <1>2, <1>3, <1>7, <1>9, <2>2, ReadiedGood
  <2> QED
    BY <1>1, <1>2, <2>1, <2>3, BecomesGood
<1> QED
  BY <1>8, <1>9

\* The recovery fails: the process is retired, or has gone already.
LEMMA RecoveryFailsGood ==
    ASSUME LifeInv, RecoveryFails PROVE LifeInv'
<1>0. PICK w : w = World
  OBVIOUS
<1>1. /\ plan \in Plans /\ Good(w, host) /\ w \in Worlds /\ w.s \in Records
      /\ w.act \in Acts /\ host \in Processes /\ s = w.s /\ act = w.act
  BY <1>0, Unpacked
<1>2. w.act.phase = "recover" /\ plan.retained
  <2>1. w.act.phase = "recover"
    BY <1>1 DEF RecoveryFails
  <2> QED
    BY <1>1, <2>1 DEF Good, Core, Shown
<1>3. PICK h \in Hosts : h = w.act.host
  BY <1>1, <1>2, HostFacts DEF Good, Core, Forked, Acts
<1>4. /\ Tidy(w) /\ w.waiting = <<>>
      /\ w.s.chain => w.s.retiring # 0
      /\ w.release.phase = "retire" => w.s.retiring # 0
      /\ w.close = "retire" => w.s.retiring # 0
  BY <1>1, <1>2 DEF Good, Rested, Tidy
<1> DEFINE stops == w.s.proc = h /\ Lives(host, h) /\ ~w.s.dead
           v == [w EXCEPT !.s.proc = 0, !.s.retiring = IF stops THEN h ELSE w.s.retiring]
<1>5. /\ host' = IF stops THEN [host EXCEPT ![h] = "stopping"] ELSE host
      /\ \E rapid \in BOOLEAN :
           Becomes(IF w.s.dead THEN Finished(w, TRUE, rapid)
                   ELSE IF v.s.retiring # 0 THEN [v EXCEPT !.act.phase = "fail"] ELSE Failing(v))
  BY <1>0, <1>1, <1>3 DEF RecoveryFails, Alive, Lives
<1>6. CASE w.s.dead
  <2>1. PICK ok \in BOOLEAN : ok = TRUE
    OBVIOUS
  <2>2. PICK rapid \in BOOLEAN : Becomes(Finished(w, ok, rapid))
    BY <1>5, <1>6, <2>1
  <2>3. w.s.proc = 0 /\ host' = host
    BY <1>1, <1>5, <1>6 DEF Good, Core, Installed
  <2>4. w.act.phase \notin {"none", "fail"} /\ (ok \/ (w.s.retiring = 0 /\ w.s.avail # "available"))
    BY <1>2, <2>1
  <2>5. Good(Finished(w, ok, rapid), host)
    BY <1>1, <1>2, <1>4, <2>3, <2>4, FinishedGood DEF Good
  <2> QED
    BY <1>1, <2>2, <2>3, <2>5, BecomesGood
<1>7. CASE ~w.s.dead /\ stops
  <2>1. h # 0
    BY HostFacts
  <2>2. v = [w EXCEPT !.s.proc = 0, !.s.retiring = h]
    BY <1>7
  <2> HIDE DEF v
  <2>3. v.s.retiring = h
    BY <1>1, <2>2 DEF Worlds, Records
  <2>4. [v EXCEPT !.act.phase = "fail"]
          = [w EXCEPT !.act.phase = "fail", !.s.proc = 0, !.s.retiring = h]
    BY <1>1, <2>2 DEF Worlds
  <2>5. /\ host' = [host EXCEPT ![h] = "stopping"]
        /\ Becomes([w EXCEPT !.act.phase = "fail", !.s.proc = 0, !.s.retiring = h])
    BY <1>5, <1>7, <2>1, <2>3, <2>4
  <2>6. Good([w EXCEPT !.act.phase = "fail", !.s.proc = 0, !.s.retiring = h],
             [host EXCEPT ![h] = "stopping"])
    BY <1>1, <1>2, <1>3, <1>7, StoppedGood
  <2> QED
    BY <1>1, <2>5, <2>6, BecomesGood
<1>8. CASE ~w.s.dead /\ ~stops
  <2>1. w.s.proc # 0 => host[w.s.proc] = "gone"
    BY <1>1, <1>2, <1>3, <1>8 DEF Good, Core, Installed, Lives
  <2> DEFINE x == [w EXCEPT !.s.proc = 0]
  <2>2. v = x
    BY <1>1, <1>8 DEF Worlds, Records
  <2>3. /\ Core(x, host) /\ Known(x) /\ x.s.proc = 0 /\ x.s.retiring = w.s.retiring
        /\ x.act = w.act /\ x.waiting = <<>> /\ x.s.chain = w.s.chain
        /\ x.s.dead = w.s.dead
        /\ x.release = w.release /\ x.close = w.close /\ x.move = w.move
    BY <1>1, <1>2, <2>1, VacatedKeeps
  <2>4. host' = host
    BY <1>5, <1>8
  <2>5. CASE w.s.retiring = 0
    <3>1. Becomes(Failing(x))
      BY <1>5, <1>8, <2>2, <2>3, <2>5
    <3> HIDE DEF x
    <3>2. Good(Failing(x), host)
      BY <1>2, <1>4, <2>3, <2>5, FailingGood
    <3> QED
      BY <1>1, <2>4, <3>1, <3>2, BecomesGood
  <2>6. CASE w.s.retiring # 0
    <3> DEFINE f == [x EXCEPT !.act.phase = "fail"]
    <3>1. Becomes(f)
      BY <1>5, <1>8, <2>2, <2>3, <2>6
    <3> HIDE DEF x
    <3>2. /\ f.act = [w.act EXCEPT !.phase = "fail"] /\ f.s = x.s
          /\ f.waiting = x.waiting /\ f.joined = x.joined
          /\ f.move = x.move /\ f.release = x.release /\ f.close = x.close /\ f.log = x.log
      BY <2>3 DEF Core, Worlds
    <3>3. f \in Worlds
      <4>1. [w.act EXCEPT !.phase = "fail"] \in Acts
        BY <1>1 DEF Acts
      <4> QED
        BY <2>3, <4>1 DEF Core, Worlds
    <3> HIDE DEF f
    <3>4. f.act.phase = "fail" /\ f.act.host = w.act.host /\ f.act.caller = w.act.caller
      BY <1>1, <3>2 DEF Acts
    <3>5. Placed(f, host) /\ Installed(f, host) /\ Forked(f, host) /\ Locked(f, host)
      BY <1>2, <2>3, <3>2, <3>4 DEF Core, Placed, Installed, Forked, Locked
    <3>6. Ended(f) /\ Idle(f) /\ Charged(f, host) /\ Paid(f)
      BY <1>2, <2>3, <3>2, <3>4 DEF Core, Ended, Idle, Charged, Paid
    <3>7. Shown(f)
      BY <1>2, <2>3, <3>2, <3>4 DEF Core, Shown
    <3>8. Known(f)
      BY <1>2, <2>3, <3>2, <3>4 DEF Known, Awaits
    <3>9. Tidy(f) /\ Justified(f)
      BY <1>2, <1>4, <2>3, <2>6, <3>2, <3>4 DEF Tidy, Justified
    <3>10. Good(f, host)
      BY <1>1, <3>3, <3>5, <3>6, <3>7, <3>8, <3>9 DEF Good, Core, Rested
    <3> QED
      BY <1>1, <2>4, <3>1, <3>10, BecomesGood
  <2> QED
    BY <2>5, <2>6
<1> QED
  BY <1>6, <1>7, <1>8

\* The first resync is answered.
LEMMA ResyncedGood ==
    ASSUME LifeInv, NEW ok \in BOOLEAN, Resynced(ok) PROVE LifeInv'
<1>0. PICK w : w = World
  OBVIOUS
<1>1. /\ plan \in Plans /\ Good(w, host) /\ w \in Worlds /\ w.s \in Records
      /\ w.act \in Acts /\ host \in Processes /\ s = w.s /\ act = w.act
  BY <1>0, Unpacked
<1>2. w.act.phase = "resync" /\ host' = host
  BY <1>1 DEF Resynced
<1>3. PICK a : a = IF ok /\ ~w.s.closing /\ ~w.s.dead /\ w.s.proc = w.act.host
                     THEN SnapshotAvailability(w) ELSE "unavailable"
  OBVIOUS
<1> DEFINE r == [w EXCEPT !.s.avail = a]
<1>4. PICK rapid \in BOOLEAN :
        Becomes(IF w.s.dead \/ w.s.proc # w.act.host THEN Superseded(r, rapid)
                ELSE Finished(r, TRUE, rapid))
  BY <1>0, <1>1, <1>3 DEF Resynced
<1>5. /\ r.s = [w.s EXCEPT !.avail = a] /\ r.act = w.act
      /\ r.waiting = w.waiting /\ r.joined = w.joined
      /\ r.move = w.move /\ r.release = w.release /\ r.close = w.close /\ r.log = w.log
  BY <1>1 DEF Worlds
<1>6. /\ a \in {"unavailable", "transitioning", "available"}
      /\ a = "available" => ~w.s.fence /\ w.s.proc = w.act.host
  BY <1>3 DEF SnapshotAvailability
<1>7. r \in Worlds
  <2>1. [w.s EXCEPT !.avail = a] \in Records
    BY <1>1, <1>6 DEF Records
  <2> QED
    BY <1>1, <2>1 DEF Worlds
<1>8. /\ w.act.host # 0
      /\ w.s.proc # 0 => w.s.proc = w.act.host /\ ~w.s.dead /\ w.s.ready
  BY <1>1, <1>2 DEF Good, Core, Forked, Installed
<1> HIDE DEF r
<1>9. Alike(r, w) /\ r.s.avail = a /\ r.s.fence = w.s.fence /\ r.s.recon = w.s.recon
  BY <1>1, <1>5 DEF Alike, Records
<1>10. Shown(r)
  BY <1>1, <1>5, <1>6, <1>8, <1>9 DEF Good, Core, Shown, Alike
<1>11. Good(r, host)
  BY <1>1, <1>5, <1>7, <1>9, <1>10, AlikeKeeps
<1>12. CASE w.s.proc = 0
  <2>1. Becomes(Superseded(r, rapid))
    BY <1>4, <1>8, <1>12
  <2>2. Good(Superseded(r, rapid), host)
    BY <1>2, <1>9, <1>11, <1>12, SupersededGood DEF Alike
  <2> QED
    BY <1>1, <1>2, <2>1, <2>2, BecomesGood
<1>13. CASE w.s.proc # 0
  <2>1. PICK yes \in BOOLEAN : yes = TRUE
    OBVIOUS
  <2>2. Becomes(Finished(r, yes, rapid))
    BY <1>4, <1>8, <1>13, <2>1
  <2>3. /\ Core(r, host) /\ Known(r) /\ Tidy(r) /\ r.waiting = <<>>
        /\ r.s.chain => r.s.retiring # 0
        /\ r.release.phase = "retire" => r.s.retiring # 0
        /\ r.close = "retire" => r.s.retiring # 0
    BY <1>2, <1>9, <1>11 DEF Good, Rested, Tidy, Alike
  <2>4. r.act.phase = "resync" /\ Reasons(r)
    BY <1>2, <1>9, <1>13 DEF Alike, Reasons
  <2>5. yes \/ (r.s.retiring = 0 /\ r.s.avail # "available")
    BY <2>1
  <2>6. Good(Finished(r, yes, rapid), host)
    BY <2>3, <2>4, <2>5, FinishedGood
  <2> QED
    BY <1>1, <1>2, <2>2, <2>6, BecomesGood
<1> QED
  BY <1>12, <1>13

\* A failed activation ends once the lock is released.
LEMMA UnlockedAfterFailureGood ==
    ASSUME LifeInv, UnlockedAfterFailure PROVE LifeInv'
<1>0. PICK w : w = World
  OBVIOUS
<1>1. /\ plan \in Plans /\ Good(w, host) /\ w \in Worlds /\ w.s \in Records
      /\ act = w.act
  BY <1>0, Unpacked
<1>2. w.act.phase = "unlock" /\ host' = host
  BY <1>1 DEF UnlockedAfterFailure
<1>3. PICK no \in BOOLEAN : no = FALSE
  OBVIOUS
<1> DEFINE r == [w EXCEPT !.s.avail = "unavailable"]
<1>4. PICK rapid \in BOOLEAN : Becomes(Finished(r, no, rapid))
  BY <1>0, <1>3 DEF UnlockedAfterFailure
<1>5. /\ r.s = [w.s EXCEPT !.avail = "unavailable"] /\ r.act = w.act
      /\ r.waiting = w.waiting /\ r.joined = w.joined
      /\ r.move = w.move /\ r.release = w.release /\ r.close = w.close /\ r.log = w.log
  BY <1>1 DEF Worlds
<1>6. r \in Worlds
  <2>1. [w.s EXCEPT !.avail = "unavailable"] \in Records
    BY <1>1 DEF Records
  <2> QED
    BY <1>1, <2>1 DEF Worlds
<1> HIDE DEF r
<1>7. /\ Alike(r, w) /\ r.s.avail = "unavailable" /\ r.s.fence = w.s.fence
      /\ r.s.recon = w.s.recon
  BY <1>1, <1>5 DEF Alike, Records
<1>8. Shown(r)
  BY <1>1, <1>5, <1>7 DEF Good, Core, Shown, Alike
<1>9. Good(r, host)
  BY <1>1, <1>5, <1>6, <1>7, <1>8, AlikeKeeps
<1>10. /\ Core(r, host) /\ Known(r) /\ Tidy(r) /\ r.waiting = <<>>
       /\ r.s.chain => r.s.retiring # 0
       /\ r.release.phase = "retire" => r.s.retiring # 0
       /\ r.close = "retire" => r.s.retiring # 0
       /\ r.act.phase = "unlock"
  BY <1>2, <1>5, <1>9 DEF Good, Rested, Tidy
<1>11. r.s.proc = 0 /\ r.s.retiring = 0 /\ ~r.s.lock /\ r.s.avail # "available"
  BY <1>7, <1>10 DEF Core, Installed, Locked
<1>12. Good(Finished(r, no, rapid), host)
  BY <1>10, <1>11, FinishedGood DEF Reasons
<1> QED
  BY <1>1, <1>2, <1>4, <1>12, BecomesGood

\* The turns of failure and exit.
LEMMA UnresponsiveGood ==
    ASSUME LifeInv, Unresponsive PROVE LifeInv'
<1>0. PICK w : w = World
  OBVIOUS
<1>1. /\ plan \in Plans /\ Good(w, host) /\ w \in Worlds /\ w.s \in Records
      /\ w.act \in Acts /\ host \in Processes /\ s = w.s
  BY <1>0, Unpacked
<1>2. w.s.proc # 0 /\ host[w.s.proc] = "up" /\ host' = [host EXCEPT ![w.s.proc] = "stopping"]
  BY <1>1 DEF Unresponsive
<1>3. PICK h \in Hosts : h = w.s.proc
  BY <1>1, <1>2, HostFacts DEF Records
<1>4. PICK gone \in BOOLEAN : gone = FALSE
  OBVIOUS
<1>5. PICK rapid \in BOOLEAN, recon \in {FALSE, plan.retained} :
        Becomes(RuntimeFailed(w, h, gone, recon, rapid))
  BY <1>0, <1>1, <1>3, <1>4 DEF Unresponsive
<1>6. recon \in BOOLEAN /\ (recon => plan.retained)
  BY <1>1, <1>5, LifecycleAssumption
<1>7. w.waiting = <<>> /\ ~w.s.chain /\ w.s.retiring = 0
  BY <1>1, <1>2 DEF Good, Core, Placed, Rested, Tidy
<1> DEFINE x == RuntimeFailed(w, h, gone, recon, rapid)
           q == Leaves(host, h, gone)
<1>8. /\ Core(x, q)
      /\ x.act = w.act /\ x.waiting = w.waiting /\ x.joined = w.joined
      /\ x.move = w.move /\ x.release = w.release /\ x.close = w.close
      /\ x.s.dead = w.s.dead /\ x.s.proc = 0 /\ x.s.retiring = IF gone THEN 0 ELSE h
      /\ x.s.attempt = IF w.s.attempt = "none" THEN "none" ELSE "accounted"
      /\ x.s.attempt = "none" => Excuse(x) /\ (~gone => x.s.chain)
  <2>1. host[h] # "unborn" /\ (~gone => host[h] = "up")
    BY <1>2, <1>3
  <2> QED
    BY <1>1, <1>3, <1>6, <1>7, <2>1, RuntimeFailedKeeps DEF Good
<1>9. host' = q
  BY <1>2, <1>3, <1>4 DEF Leaves
<1> HIDE DEF x, q
<1>10. x.s.retiring = h /\ h # 0
  BY <1>2, <1>3, <1>4, <1>8
<1>11. w.act.phase \in {"none", "recover", "resync"}
  BY <1>1, <1>2 DEF Good, Core, Installed
<1>12. Known(x)
  <2>1. \A d : Awaits(x, d) <=> Awaits(w, d)
    BY <1>8 DEF Awaits
  <2>2. w.s.attempt # "none" => w.act.phase \in {"recover", "resync"}
    <3>1. w.act.phase = "none" => ~Awaits(w, "auto")
      BY <1>7 DEF Awaits
    <3> QED
      BY <1>1, <1>11, <3>1 DEF Good, Known
  <2> QED
    BY <1>1, <1>8, <2>1, <2>2 DEF Good, Known
<1>13. Tidy(x) /\ Justified(x)
  <2>1. x.s.attempt = "accounted" \/ x.s.chain
    BY <1>4, <1>8
  <2>2. x.waiting = <<>> /\ x.act.phase \notin {"boot", "drop"}
    BY <1>7, <1>8, <1>11
  <2> QED
    BY <1>8, <1>10, <2>1, <2>2 DEF Tidy, Owing, Justified
<1>14. Good(x, q)
  BY <1>8, <1>12, <1>13 DEF Good, Rested
<1> QED
  BY <1>1, <1>5, <1>9, <1>14, BecomesGood DEF x

\* A process exits on its own.
LEMMA CrashGood ==
    ASSUME LifeInv, Crash PROVE LifeInv'
<1>0. PICK w : w = World
  OBVIOUS
<1>1. /\ plan \in Plans /\ Good(w, host) /\ w \in Worlds /\ w.s \in Records
      /\ w.act \in Acts /\ host \in Processes /\ s = w.s
  BY <1>0, Unpacked
<1>2. /\ w.s.proc # 0 /\ host[w.s.proc] \in {"booting", "up"}
      /\ host' = [host EXCEPT ![w.s.proc] = "gone"]
  BY <1>1 DEF Crash
<1>3. PICK h \in Hosts : h = w.s.proc
  BY <1>1, <1>2, HostFacts DEF Records
<1>4. PICK rapid \in BOOLEAN, recon \in {FALSE, plan.retained} :
        Becomes(ExitHandled(w, h, recon, rapid))
  BY <1>0, <1>1, <1>3 DEF Crash
<1>5. recon \in BOOLEAN /\ (recon => plan.retained)
  BY <1>1, <1>4, LifecycleAssumption
<1>6. /\ w.waiting = <<>> /\ ~w.s.chain /\ w.s.retiring = 0
      /\ w.release.phase # "retire" /\ w.close # "retire"
  BY <1>1, <1>2 DEF Good, Core, Placed, Rested, Tidy
<1> DEFINE q == [host EXCEPT ![h] = "gone"]
<1>7. q \in Processes /\ q[h] = "gone" /\ \A g \in Hosts : g # h => q[g] = host[g]
  BY <1>1, <1>3 DEF Processes
<1>8. host' = q
  BY <1>2, <1>3
<1> HIDE DEF q
<1>9. CASE w.act.phase = "boot"
  <2> DEFINE v == [w EXCEPT !.s.proc = 0]
  <2>1. Becomes(Failing(v))
    BY <1>4, <1>9 DEF ExitHandled
  <2>2. /\ Core(v, q) /\ Known(v) /\ v.s.proc = 0 /\ v.s.retiring = w.s.retiring
        /\ v.act = w.act /\ v.waiting = <<>> /\ v.s.chain = w.s.chain
        /\ v.release = w.release /\ v.close = w.close
    BY <1>1, <1>3, <1>7, <1>9, VacatedKeeps
  <2> HIDE DEF v
  <2>3. Good(Failing(v), q)
    BY <1>6, <1>9, <2>2, FailingGood
  <2> QED
    BY <1>1, <1>8, <2>1, <2>3, BecomesGood
<1>10. CASE w.act.phase = "recover"
  <2>1. Becomes(w)
    BY <1>4, <1>10 DEF ExitHandled
  <2>2. plan.retained
    BY <1>1, <1>10 DEF Good, Core, Shown
  <2>3. Placed(w, q) /\ Installed(w, q) /\ Forked(w, q)
    <3>1. Placed(w, q)
      BY <1>1, <1>3, <1>6, <1>7 DEF Good, Core, Placed, Lives
    <3>2. Installed(w, q) /\ Forked(w, q)
      <4>1. ~w.s.dead /\ w.act.host = h
        BY <1>1, <1>2, <1>3, <1>10 DEF Good, Core, Installed
      <4>2. Installed(w, q)
        BY <1>3, <1>7, <1>10, <4>1 DEF Installed
      <4>3. Forked(w, q)
        BY <1>3, <1>7, <4>1, HostFacts DEF Forked
      <4> QED
        BY <4>2, <4>3
    <3> QED
      BY <3>1, <3>2
  <2>4. Locked(w, q)
    BY <1>1, <1>2, <1>3, <1>7 DEF Good, Core, Locked
  <2>5. Charged(w, q)
    <3>1. \A g \in Hosts : q[g] = "unborn" => host[g] = "unborn"
      BY <1>3, <1>7
    <3> QED
      BY <1>1, <3>1 DEF Good, Core, Charged
  <2>6. Good(w, q)
    BY <1>1, <1>7, <2>3, <2>4, <2>5 DEF Good, Core
  <2> QED
    BY <1>1, <1>8, <2>1, <2>6, BecomesGood
<1>11. CASE w.act.phase \in {"none", "resync"}
  <2>1. PICK gone \in BOOLEAN : gone = TRUE
    OBVIOUS
  <2> DEFINE x == RuntimeFailed(w, h, gone, recon, rapid)
             l == Leaves(host, h, gone)
  <2>2. /\ Core(x, l)
        /\ x.act = w.act /\ x.waiting = w.waiting /\ x.joined = w.joined
        /\ x.move = w.move /\ x.release = w.release /\ x.close = w.close
        /\ x.s.dead = w.s.dead /\ x.s.proc = 0 /\ x.s.retiring = IF gone THEN 0 ELSE h
        /\ x.s.attempt = IF w.s.attempt = "none" THEN "none" ELSE "accounted"
        /\ x.s.attempt = "none" => Excuse(x) /\ (~gone => x.s.chain)
        /\ gone => ~x.s.chain
    <3>1. host[h] # "unborn" /\ (~gone => host[h] = "up")
      BY <1>2, <1>3, <2>1
    <3> QED
      BY <1>1, <1>3, <1>5, <1>6, <3>1, RuntimeFailedKeeps DEF Good
  <2>3. l = q
    BY <2>1 DEF Leaves, q
  <2>4. /\ w.act.phase = "resync" => Becomes(Finished(x, TRUE, rapid))
        /\ w.act.phase = "none" => Becomes(x)
    BY <1>4, <2>1 DEF ExitHandled
  <2> HIDE DEF x, l
  <2>5. x.s.retiring = 0 /\ ~x.s.chain /\ x.s.proc = 0 /\ x.waiting = <<>>
    BY <1>6, <2>1, <2>2
  <2>6. \A d : Awaits(x, d) <=> Awaits(w, d)
    BY <2>2 DEF Awaits
  <2>7. w.act.phase = "none" => w.s.attempt = "none"
    <3>1. w.act.phase = "none" => ~Awaits(w, "auto")
      BY <1>6 DEF Awaits
    <3> QED
      BY <1>1, <3>1 DEF Good, Known
  <2>8. Known(x)
    BY <1>1, <1>11, <2>2, <2>6, <2>7 DEF Good, Known
  <2>9. x.s.attempt = "accounted" \/ Excuse(x)
    BY <2>2
  <2>10. CASE w.act.phase = "none"
    <3>1. Excuse(x)
      BY <2>2, <2>7, <2>10
    <3>2. x.s.closing /\ x.s.lock => x.close \in {"graceful", "retire"}
      <4>1. x \in Worlds
        BY <2>2 DEF Core
      <4> QED
        BY <2>2, <4>1 DEF Core, Ended, Locked, Worlds
    <3>3. Tidy(x) /\ Justified(x)
      BY <1>6, <2>2, <2>5, <2>10, <3>1, <3>2 DEF Tidy, Justified, Excuse
    <3>4. Good(x, q)
      BY <2>2, <2>3, <2>8, <3>3 DEF Good, Rested
    <3> QED
      BY <1>1, <1>8, <2>4, <2>10, <3>4, BecomesGood
  <2>11. CASE w.act.phase = "resync"
    <3>1. PICK ok \in BOOLEAN : ok = TRUE
      OBVIOUS
    <3>2. x.act.phase = "resync" /\ x.release.phase # "retire" /\ x.close # "retire"
      BY <1>6, <2>2, <2>11
    <3>3. Reasons(x)
      BY <2>9, <3>2 DEF Reasons, Excuse
    <3>4. ok \/ (x.s.retiring = 0 /\ x.s.avail # "available")
      BY <3>1
    <3>5. Good(Finished(x, ok, rapid), q)
      BY <2>2, <2>3, <2>5, <2>8, <3>2, <3>3, <3>4, FinishedGood
    <3> QED
      BY <1>1, <1>8, <2>4, <2>11, <3>1, <3>5, BecomesGood
  <2> QED
    BY <1>11, <2>10, <2>11
<1> QED
  BY <1>1, <1>2, <1>3, <1>9, <1>10, <1>11 DEF Good, Core, Installed

\* A process that is at work leaves its place, alive or not, for a move or for
\* the release of its visit.
Left(x, w) ==
    /\ x.s.proc = 0 /\ ~x.s.ready /\ x.s.chain = w.s.chain /\ x.s.attempt = w.s.attempt
    /\ x.s.dead = w.s.dead /\ x.s.lock = w.s.lock /\ x.s.closing = w.s.closing
    /\ x.s.timer = w.s.timer /\ x.s.rapid = w.s.rapid
    /\ x.act = w.act /\ x.waiting = w.waiting /\ x.joined = w.joined
    /\ x.close = w.close /\ x.log = w.log
    /\ x.release.phase # "unlock"
    /\ x.move.phase = w.move.phase \/ w.move.phase = "admit"

Vacates(p, q, h, r) ==
    /\ \A g \in Hosts : g # h => q[g] = p[g]
    /\ \/ r = h /\ q[h] = "stopping" /\ Lives(p, h)
       \/ r = 0 /\ q[h] = "gone"

LEMMA LeftKeeps ==
    ASSUME NEW w, NEW p, Good(w, p), NEW h \in Hosts, w.s.proc = h,
           w.act.phase \in {"none", "recover", "resync"},
           NEW q \in Processes, NEW x \in Worlds, Left(x, w), Vacates(p, q, h, x.s.retiring),
           Shown(x)
    PROVE  /\ Core(x, q) /\ Known(x) /\ x.waiting = <<>> /\ ~x.s.dead
           /\ x.s.retiring = h /\ Owing(x) => Good(x, q)
<1>0. h # 0
  BY HostFacts
<1>1. /\ w.waiting = <<>> /\ ~w.s.chain /\ w.s.retiring = 0 /\ w.close # "retire"
      /\ ~w.s.dead /\ w.s.attempt # "accounted" /\ w.release.phase \notin {"retire", "unlock"}
      /\ p[h] # "unborn"
  BY <1>0 DEF Good, Core, Placed, Installed, Locked, Idle, Rested, Tidy
<1>2. Placed(x, q)
  BY <1>0, <1>1, HostFacts DEF Good, Core, Placed, Lives, Left, Vacates
<1>3. Installed(x, q)
  BY DEF Installed, Left
<1>4. Forked(x, q)
  BY HostFacts DEF Good, Core, Forked, Worlds, Acts, Left, Vacates
<1>5. Locked(x, q)
  BY <1>0, <1>1 DEF Good, Core, Locked, Lives, Left, Vacates
<1>6. Ended(x) /\ Idle(x) /\ Paid(x)
  BY <1>1 DEF Good, Core, Ended, Idle, Paid, Left
<1>7. Charged(x, q)
  <2>1. \A g \in Hosts : q[g] = "unborn" => p[g] = "unborn"
    BY <1>1 DEF Vacates
  <2> QED
    BY <2>1 DEF Good, Core, Charged, Left
<1>8. Core(x, q)
  BY <1>2, <1>3, <1>4, <1>5, <1>6, <1>7 DEF Core
<1>9. Known(x)
  BY DEF Good, Known, Awaits, Left
<1>10. x.s.retiring = h /\ Owing(x) => Rested(x)
  <2>1. x.s.retiring = h /\ Owing(x) => Tidy(x)
    BY <1>0, <1>1 DEF Tidy, Left
  <2>2. x.s.retiring = h => Justified(x)
    BY <1>0 DEF Justified
  <2> QED
    BY <2>1, <2>2 DEF Rested
<1> QED
  BY <1>1, <1>8, <1>9, <1>10 DEF Good, Left

\* The turns that detach a process for a move or a release.
LEMMA MoveDetachGood ==
    ASSUME LifeInv, MoveDetach PROVE LifeInv'
<1>0. PICK w : w = World
  OBVIOUS
<1>1. /\ plan \in Plans /\ Good(w, host) /\ w \in Worlds /\ w.s \in Records
      /\ w.move \in Moves /\ host \in Processes /\ s = w.s /\ move = w.move
  BY <1>0, Unpacked
<1>2. w.move.phase = "admit" /\ w.s.proc = w.move.host /\ w.s.ready /\ ~w.s.dead
  BY <1>1 DEF MoveDetach
<1>3. /\ w.s.proc # 0 /\ w.act.phase \in {"none", "resync"} /\ w.release.phase # "unlock"
      /\ w.release.phase # "retire"
  <2>1. w.s.proc # 0 /\ w.act.phase \in {"none", "resync"}
    BY <1>1, <1>2 DEF Good, Core, Shown
  <2> QED
    BY <1>1, <2>1 DEF Good, Core, Locked, Placed, Rested, Tidy
<1>4. PICK h \in Hosts : h = w.s.proc
  BY <1>1, <1>3, HostFacts DEF Records
<1>5. PICK f \in BOOLEAN : f = FALSE
  OBVIOUS
<1> DEFINE x == [w EXCEPT !.s.fence = f, !.s.proc = 0, !.s.ready = f, !.s.retiring = h,
                          !.move.phase = "retire"]
           q == [host EXCEPT ![h] = "stopping"]
<1>6. /\ host' = IF host[h] = "gone" THEN host ELSE q
      /\ \E rapid \in BOOLEAN : Becomes(IF host[h] = "gone" THEN Retired(x, rapid) ELSE x)
  <2>1. /\ host' = [host EXCEPT ![h] = IF host[h] = "gone" THEN host[h] ELSE "stopping"]
        /\ \E rapid \in BOOLEAN : Becomes(IF host[h] = "gone" THEN Retired(x, rapid) ELSE x)
    BY <1>0, <1>1, <1>4, <1>5 DEF MoveDetach
  <2>2. host[h] = "gone" => [host EXCEPT ![h] = host[h]] = host
    BY <1>1 DEF Processes
  <2> QED
    BY <2>1, <2>2
<1> HIDE DEF q
<1>7. q \in Processes /\ q[h] = "stopping" /\ \A g \in Hosts : g # h => q[g] = host[g]
  BY <1>1 DEF Processes, q
<1>8. /\ x.s = [w.s EXCEPT !.fence = f, !.proc = 0, !.ready = f, !.retiring = h]
      /\ x.move = [w.move EXCEPT !.phase = "retire"]
      /\ x.act = w.act /\ x.waiting = w.waiting /\ x.joined = w.joined
      /\ x.release = w.release /\ x.close = w.close /\ x.log = w.log
  BY <1>1 DEF Worlds
<1>9. x \in Worlds
  <2>1. [w.s EXCEPT !.fence = f, !.proc = 0, !.ready = f, !.retiring = h] \in Records
    BY <1>1, HostFacts DEF Records
  <2>2. [w.move EXCEPT !.phase = "retire"] \in Moves
    BY <1>1 DEF Moves
  <2> QED
    BY <1>1, <2>1, <2>2 DEF Worlds
<1> HIDE DEF x
<1>10. /\ x.s.proc = 0 /\ ~x.s.ready /\ x.s.chain = w.s.chain /\ x.s.attempt = w.s.attempt
       /\ x.s.dead = w.s.dead /\ x.s.lock = w.s.lock /\ x.s.closing = w.s.closing
       /\ x.s.timer = w.s.timer /\ x.s.rapid = w.s.rapid /\ x.s.avail = w.s.avail
       /\ x.s.recon = w.s.recon /\ ~x.s.fence /\ x.s.retiring = h /\ x.move.phase = "retire"
  BY <1>1, <1>5, <1>8 DEF Records, Moves
<1>11. w.s.avail # "available"
  BY <1>1, <1>2 DEF Good, Core, Shown
<1>12. CASE host[h] # "gone"
  <2>1. host' = q /\ Becomes(x)
    BY <1>6, <1>12
  <2>2. Shown(x)
    BY <1>1, <1>3, <1>8, <1>10, <1>11 DEF Good, Core, Shown
  <2>3. Lives(host, h)
    BY <1>1, <1>3, <1>4, <1>12 DEF Good, Core, Installed, Lives
  <2>4. Left(x, w) /\ Vacates(host, q, h, x.s.retiring)
    BY <1>2, <1>3, <1>7, <1>8, <1>10, <2>3 DEF Left, Vacates
  <2>5. Owing(x)
    BY <1>10 DEF Owing
  <2>6. Good(x, q)
    BY <1>1, <1>3, <1>4, <1>7, <1>9, <1>10, <2>2, <2>4, <2>5, LeftKeeps
  <2> QED
    BY <1>1, <2>1, <2>6, BecomesGood
<1>13. CASE host[h] = "gone"
  <2>1. PICK rapid \in BOOLEAN : Becomes(Retired(x, rapid))
    BY <1>6, <1>13
  <2>2. host' = host
    BY <1>6, <1>13
  <2> DEFINE y == [x EXCEPT !.s.retiring = 0]
  <2>3. /\ y.s = [x.s EXCEPT !.retiring = 0]
        /\ y.move = x.move /\ y.act = x.act /\ y.waiting = x.waiting /\ y.joined = x.joined
        /\ y.release = x.release /\ y.close = x.close /\ y.log = x.log
    BY <1>9 DEF Worlds
  <2>4. y \in Worlds /\ x.s \in Records
    <3>1. [x.s EXCEPT !.retiring = 0] \in Records /\ x.s \in Records
      BY <1>9, HostFacts DEF Worlds, Records
    <3> QED
      BY <1>9, <3>1 DEF Worlds
  <2>5. plan.retained
    BY <1>1, <1>3, <1>4, <1>13 DEF Good, Core, Installed
  <2>6. Emptied(y, host)
    <3> HIDE DEF y
    <3>1. /\ y.s.proc = 0 /\ ~y.s.ready /\ y.s.chain = w.s.chain /\ y.s.attempt = w.s.attempt
          /\ y.s.dead = w.s.dead /\ y.s.lock = w.s.lock /\ y.s.closing = w.s.closing
          /\ y.s.timer = w.s.timer /\ y.s.rapid = w.s.rapid /\ y.s.avail = w.s.avail
          /\ y.s.recon = w.s.recon /\ ~y.s.fence /\ y.s.retiring = 0 /\ y.move.phase = "retire"
      BY <1>10, <2>3, <2>4 DEF Records
    <3>2. Shown(y)
      BY <1>1, <1>3, <1>8, <2>3, <2>5, <3>1 DEF Shown, Good, Core
    <3>3. Left(y, w) /\ Vacates(host, host, h, y.s.retiring)
      BY <1>2, <1>3, <1>8, <1>13, <2>3, <3>1 DEF Left, Vacates
    <3>4. Core(y, host) /\ Known(y) /\ y.waiting = <<>>
      BY <1>1, <1>3, <1>4, <2>4, <3>2, <3>3, LeftKeeps
    <3> QED
      BY <3>1, <3>4 DEF Emptied
  <2>7. LET z == Retired(x, rapid) IN Core(z, host) /\ Known(z) /\ Rested(z)
    BY <2>5, <2>6, RetiredKeeps
  <2>8. Good(Retired(x, rapid), host)
    BY <2>7 DEF Good
  <2> QED
    BY <1>1, <2>1, <2>2, <2>8, BecomesGood
<1> QED
  BY <1>12, <1>13

\* The unused process is detached and asked to stop.
LEMMA ReleaseDetachGood ==
    ASSUME LifeInv, ReleaseDetach PROVE LifeInv'
<1>0. PICK w : w = World
  OBVIOUS
<1>1. /\ plan \in Plans /\ Good(w, host) /\ w \in Worlds /\ w.s \in Records
      /\ w.release \in Releases /\ host \in Processes /\ s = w.s /\ move = w.move
      /\ release = w.release
  BY <1>0, Unpacked
<1>2. w.release.phase = "permit" /\ host[w.release.host] = "up"
  BY <1>1 DEF ReleaseDetach
<1>3. CASE ~Releasable(World)
  BY <1>1, <1>2, <1>3, AbandonedGood DEF ReleaseDetach
<1>4. CASE Releasable(World)
  <2>1. w.release.host \in Hosts
    BY <1>1, <1>2, HostFacts DEF Good, Core, Shown, Releases
  <2>2. ~w.s.dead /\ w.move = Resting
    BY <1>0, <1>4 DEF Releasable
  <2>3. w.s.proc = w.release.host
    <3>1. Lives(host, w.release.host)
      BY <1>2 DEF Lives
    <3>2. w.s.retiring # w.release.host
      BY <1>1, <1>2, <2>1, HostFacts DEF Good, Core, Placed
    <3> QED
      BY <1>1, <2>1, <3>1, <3>2 DEF Good, Core, Placed
  <2>4. PICK h \in Hosts : h = w.s.proc
    BY <2>1, <2>3
  <2>5. h # 0 /\ h = w.release.host
    BY <2>3, <2>4, HostFacts
  <2>6. PICK f \in BOOLEAN : f = FALSE
    OBVIOUS
  <2> DEFINE x == [w EXCEPT !.release.phase = "retire", !.s.visit = None,
                            !.s.proc = 0, !.s.ready = f, !.s.retiring = h]
             q == [host EXCEPT ![h] = "stopping"]
  <2>7. host' = q /\ Becomes(x)
    BY <1>0, <1>1, <1>4, <2>5, <2>6 DEF ReleaseDetach
  <2> HIDE DEF q
  <2>8. q \in Processes /\ q[h] = "stopping" /\ \A g \in Hosts : g # h => q[g] = host[g]
    BY <1>1 DEF Processes, q
  <2>9. /\ x.s = [w.s EXCEPT !.visit = None, !.proc = 0, !.ready = f, !.retiring = h]
        /\ x.release = [w.release EXCEPT !.phase = "retire"]
        /\ x.act = w.act /\ x.waiting = w.waiting /\ x.joined = w.joined
        /\ x.move = w.move /\ x.close = w.close /\ x.log = w.log
    BY <1>1 DEF Worlds
  <2>10. x \in Worlds
    <3>1. [w.s EXCEPT !.visit = None, !.proc = 0, !.ready = f, !.retiring = h] \in Records
      BY <1>1, HostFacts DEF Records
    <3>2. [w.release EXCEPT !.phase = "retire"] \in Releases
      BY <1>1 DEF Releases
    <3> QED
      BY <1>1, <3>1, <3>2 DEF Worlds
  <2> HIDE DEF x
  <2>11. /\ x.s.proc = 0 /\ ~x.s.ready /\ x.s.chain = w.s.chain /\ x.s.attempt = w.s.attempt
         /\ x.s.dead = w.s.dead /\ x.s.lock = w.s.lock /\ x.s.closing = w.s.closing
         /\ x.s.timer = w.s.timer /\ x.s.rapid = w.s.rapid /\ x.s.avail = w.s.avail
         /\ x.s.recon = w.s.recon /\ x.s.fence = w.s.fence /\ x.s.retiring = h
         /\ x.release.phase = "retire"
    BY <1>1, <2>6, <2>9 DEF Records, Releases
  <2>12. Shown(x)
    BY <1>1, <2>2, <2>9, <2>11 DEF Good, Core, Shown, Resting
  <2>13. w.act.phase \in {"none", "recover", "resync"}
    BY <1>1, <1>2, <2>2, <2>4, <2>5 DEF Good, Core, Installed
  <2>14. Left(x, w) /\ Vacates(host, q, h, x.s.retiring)
    BY <1>2, <2>5, <2>8, <2>9, <2>11 DEF Left, Vacates, Lives
  <2>15. Owing(x)
    BY <2>11 DEF Owing
  <2>16. Good(x, q)
    BY <1>1, <2>4, <2>8, <2>10, <2>11, <2>12, <2>13, <2>14, <2>15, LeftKeeps
  <2> QED
    BY <1>1, <2>7, <2>16, BecomesGood
<1> QED
  BY <1>3, <1>4

\* The turns of the close.
LEMMA CloseStartGood ==
    ASSUME LifeInv, CloseStart PROVE LifeInv'
<1>0. PICK w : w = World
  OBVIOUS
<1>1. /\ plan \in Plans /\ Good(w, host) /\ w \in Worlds /\ w.s \in Records
      /\ close = w.close
  BY <1>0, Unpacked
<1>2. PICK o \in BOOLEAN : o = TRUE
  OBVIOUS
<1> DEFINE x == [w EXCEPT !.s.closing = o, !.close = "graceful"]
<1>3. w.close = "no" /\ host' = host /\ Becomes(x)
  BY <1>0, <1>1, <1>2 DEF CloseStart
<1>4. /\ x.s = [w.s EXCEPT !.closing = o] /\ x.close = "graceful"
      /\ x.act = w.act /\ x.waiting = w.waiting /\ x.joined = w.joined
      /\ x.move = w.move /\ x.release = w.release /\ x.log = w.log
  BY <1>1 DEF Worlds
<1>5. x \in Worlds
  <2>1. [w.s EXCEPT !.closing = o] \in Records
    BY <1>1 DEF Records
  <2> QED
    BY <1>1, <2>1 DEF Worlds
<1> HIDE DEF x
<1>6. /\ x.s.proc = w.s.proc /\ x.s.retiring = w.s.retiring /\ x.s.chain = w.s.chain
      /\ x.s.attempt = w.s.attempt /\ x.s.dead = w.s.dead /\ x.s.lock = w.s.lock
      /\ x.s.ready = w.s.ready /\ x.s.closing /\ x.s.timer = w.s.timer
      /\ x.s.avail = w.s.avail /\ x.s.fence = w.s.fence /\ x.s.recon = w.s.recon
      /\ x.s.rapid = w.s.rapid /\ x.s.status = w.s.status
  BY <1>1, <1>2, <1>4 DEF Records
<1>7. Placed(x, host) /\ Installed(x, host) /\ Forked(x, host) /\ Locked(x, host)
  BY <1>1, <1>4, <1>6 DEF Good, Core, Placed, Installed, Forked, Locked
<1>8. Ended(x) /\ Idle(x) /\ Shown(x) /\ Charged(x, host) /\ Paid(x)
  BY <1>1, <1>3, <1>4, <1>6 DEF Good, Core, Ended, Idle, Shown, Charged, Paid
<1>9. Known(x)
  BY <1>1, <1>4, <1>6 DEF Good, Known, Awaits
<1>10. Tidy(x) /\ Justified(x)
  BY <1>1, <1>3, <1>4, <1>6 DEF Good, Rested, Tidy, Owing, Justified
<1>11. Good(x, host)
  BY <1>1, <1>5, <1>7, <1>8, <1>9, <1>10 DEF Good, Core, Rested
<1> QED
  BY <1>1, <1>3, <1>11, BecomesGood

\* Nothing survives the fence of the close but the exit it waits for.
LEMMA CloseSessionGood ==
    ASSUME LifeInv, CloseSession PROVE LifeInv'
<1>0. PICK w : w = World
  OBVIOUS
<1>1. /\ plan \in Plans /\ Good(w, host) /\ w \in Worlds /\ w.s \in Records
      /\ w.log \in Logs /\ w.act \in Acts /\ host \in Processes
      /\ s = w.s /\ close = w.close
  BY <1>0, Unpacked
<1>2. PICK o \in BOOLEAN : o = FALSE
  OBVIOUS
<1>3. PICK d \in BOOLEAN : d = TRUE
  OBVIOUS
<1>4. PICK running \in BOOLEAN :
        running = (w.s.proc # 0 /\ w.s.proc \in Hosts /\ Lives(host, w.s.proc))
  OBVIOUS
<1>5. PICK r \in 0 .. MaxHosts : r = IF running THEN w.s.proc ELSE w.s.retiring
  BY <1>1 DEF Records
<1>6. PICK q \in Processes : q = IF running THEN [host EXCEPT ![w.s.proc] = "stopping"] ELSE host
  BY <1>1 DEF Processes
<1> DEFINE v == [w EXCEPT !.s.dead = d, !.s.timer = o, !.s.attempt = "none", !.s.proc = 0,
                          !.s.retiring = r, !.log.owed = o]
           x == IF r # 0 THEN [v EXCEPT !.close = "retire"]
                ELSE [v EXCEPT !.close = "unlock", !.s.lock = o]
<1>7. w.close = "graceful"
  BY <1>1 DEF CloseSession
<1>8. v = [CloseFences(w) EXCEPT !.s.retiring = IF running THEN w.s.proc ELSE @]
  BY <1>1, <1>2, <1>3, <1>5 DEF CloseFences, Worlds, Records
<1>9. /\ v.s = [w.s EXCEPT !.dead = d, !.timer = o, !.attempt = "none", !.proc = 0,
                           !.retiring = r]
      /\ v.log = [w.log EXCEPT !.owed = o]
      /\ v.act = w.act /\ v.waiting = w.waiting /\ v.joined = w.joined
      /\ v.move = w.move /\ v.release = w.release /\ v.close = w.close
  BY <1>1 DEF Worlds
<1>10. v \in Worlds /\ v.s \in Records
  <2>1. v.s \in Records
    <3>1. 0 \in 0 .. MaxHosts /\ "none" \in {"none", "live", "accounted"}
      BY HostFacts
    <3> HIDE DEF v
    <3>2. [w.s EXCEPT !.dead = d, !.timer = o, !.attempt = "none", !.proc = 0, !.retiring = r]
            \in Records
      BY <1>1, <3>1 DEF Records
    <3> QED
      BY <1>9, <3>2
  <2>2. v.log \in Logs
    BY <1>1, <1>9 DEF Logs
  <2> QED
    BY <1>1, <2>1, <2>2, <1>9 DEF Worlds
<1>11. host' = q /\ Becomes(x)
  <2>1. v.s.retiring = r
    <3> HIDE DEF v
    <3> QED
      BY <1>1, <1>9 DEF Records
  <2>2. /\ host' = IF running THEN [host EXCEPT ![w.s.proc] = "stopping"] ELSE host
        /\ LET u == [CloseFences(w) EXCEPT !.s.retiring = IF running THEN w.s.proc ELSE @]
           IN  Becomes(IF u.s.retiring # 0 THEN [u EXCEPT !.close = "retire"]
                       ELSE [u EXCEPT !.close = "unlock", !.s.lock = FALSE])
    BY <1>0, <1>1, <1>4 DEF CloseSession, Alive, Lives
  <2> HIDE DEF v
  <2>3. Becomes(IF v.s.retiring # 0 THEN [v EXCEPT !.close = "retire"]
                ELSE [v EXCEPT !.close = "unlock", !.s.lock = FALSE])
    BY <1>8, <2>2
  <2> QED
    BY <1>2, <1>6, <2>1, <2>2, <2>3
<1> HIDE DEF v
<1>12. /\ x.s = IF r # 0 THEN v.s ELSE [v.s EXCEPT !.lock = o]
       /\ x.close = (IF r # 0 THEN "retire" ELSE "unlock") /\ x.log = [w.log EXCEPT !.owed = o]
       /\ x.act = w.act /\ x.waiting = w.waiting /\ x.joined = w.joined
       /\ x.move = w.move /\ x.release = w.release
  BY <1>9, <1>10 DEF Worlds
<1>13. x \in Worlds
  <2>1. [v.s EXCEPT !.lock = o] \in Records
    BY <1>10 DEF Records
  <2> QED
    BY <1>10, <2>1 DEF Worlds
<1> HIDE DEF x
<1>14. /\ v.s.proc = 0 /\ v.s.retiring = r /\ v.s.chain = w.s.chain
      /\ v.s.attempt = "none" /\ v.s.dead /\ v.s.lock = w.s.lock
      /\ v.s.ready = w.s.ready /\ v.s.closing = w.s.closing /\ ~v.s.timer
      /\ v.s.avail = w.s.avail /\ v.s.fence = w.s.fence /\ v.s.recon = w.s.recon
      /\ v.s.rapid = w.s.rapid /\ v.s.status = w.s.status
  BY <1>1, <1>2, <1>3, <1>9 DEF Records
<1>15. /\ x.s.proc = 0 /\ x.s.retiring = r /\ x.s.chain = w.s.chain
       /\ x.s.attempt = "none" /\ x.s.dead /\ (r # 0 => x.s.lock = w.s.lock) /\ (r = 0 => ~x.s.lock)
       /\ x.s.ready = w.s.ready /\ x.s.closing = w.s.closing /\ ~x.s.timer
       /\ x.s.avail = w.s.avail /\ x.s.fence = w.s.fence /\ x.s.recon = w.s.recon
       /\ x.s.rapid = w.s.rapid /\ x.s.status = w.s.status
  BY <1>2, <1>10, <1>14, <1>12 DEF Records
<1>16. /\ x.log.charged = w.log.charged /\ x.log.restarts = w.log.restarts
  BY <1>1, <1>12 DEF Logs
<1>17. w.s.proc # 0 => w.s.proc \in Hosts /\ w.s.retiring = 0
  BY <1>1, HostFacts DEF Good, Core, Placed, Records
<1>18. ~w.s.dead /\ w.s.closing
  BY <1>1, <1>7 DEF Good, Core, Ended
<1>19. /\ \A g \in Hosts : q[g] = "unborn" => host[g] = "unborn"
       /\ \A g \in Hosts : g # w.s.proc => q[g] = host[g]
       /\ running => q[w.s.proc] = "stopping" /\ w.act.phase # "prepare"
  <2>1. running => w.act.phase # "prepare"
    BY <1>1, <1>4 DEF Good, Core, Installed
  <2> QED
    BY <1>1, <1>4, <1>6, <2>1 DEF Processes, Lives
<1>20. Placed(x, q)
  <2>1. \A h \in Hosts : Lives(q, h) => h = r
    <3> SUFFICES ASSUME NEW h \in Hosts, Lives(q, h) PROVE h = r
      OBVIOUS
    <3>1. CASE h = w.s.proc
      BY <1>4, <1>5, <1>6, <3>1, HostFacts
    <3>2. CASE h # w.s.proc
      <4>1. h = w.s.retiring /\ h # 0
        BY <1>1, <1>19, <3>2, HostFacts DEF Good, Core, Placed, Lives
      <4> QED
        BY <1>4, <1>5, <1>17, <4>1
    <3> QED
      BY <3>1, <3>2
  <2>2. r # 0 => q[r] = "stopping" /\ w.act.phase # "prepare"
    <3>1. CASE running
      BY <1>5, <1>19, <3>1
    <3>2. CASE ~running
      BY <1>1, <1>5, <1>6, <3>2 DEF Good, Core, Placed
    <3> QED
      BY <3>1, <3>2
  <2> QED
    BY <1>12, <1>15, <2>1, <2>2 DEF Placed
<1>21. Installed(x, q)
  BY <1>15 DEF Installed
<1>22. Forked(x, q)
  BY <1>1, <1>12, <1>19, HostFacts DEF Good, Core, Forked, Acts
<1>23. Locked(x, q)
  <2>1. r # 0 => w.s.lock
    BY <1>1, <1>4, <1>5 DEF Good, Core, Locked, Lives
  <2> QED
    BY <1>1, <1>2, <1>12, <1>15, <2>1 DEF Good, Core, Locked
<1>24. Ended(x) /\ Idle(x)
  BY <1>1, <1>12, <1>15, <1>18 DEF Good, Core, Ended, Idle
<1>25. Shown(x) /\ Charged(x, q)
  BY <1>1, <1>12, <1>15, <1>16, <1>19 DEF Good, Core, Shown, Charged
<1>26. Paid(x)
  <2>1. /\ w.log.restarts \in Nat /\ w.s.rapid \in Nat /\ MaxAttempts \in Nat
        /\ Capped(w.s.rapid) \in Nat
    BY <1>1, LifecycleAssumption DEF Logs, Records, Capped
  <2>2. w.s.attempt = "accounted" => ~w.s.chain
    BY <1>1 DEF Good, Core, Idle
  <2> QED
    BY <1>1, <1>15, <1>16, <2>1, <2>2 DEF Good, Core, Paid, Pays
<1>27. Known(x)
  BY <1>1, <1>12, <1>15 DEF Good, Known, Awaits
<1>28. Tidy(x) /\ Justified(x)
  <2>1. w.s.retiring # 0 => r # 0
    BY <1>4, <1>5, <1>17
  <2>2. w.act.phase = "boot" => r # 0
    <3>1. CASE w.s.proc = 0
      BY <1>1, <1>18, <3>1 DEF Good, Rested, Tidy
    <3>2. CASE w.s.proc # 0
      BY <1>1, <1>4, <1>5, <1>17, <3>2 DEF Good, Core, Installed, Lives
    <3> QED
      BY <2>1, <3>1, <3>2
  <2>3. Tidy(x)
    BY <1>1, <1>12, <1>15, <2>1, <2>2 DEF Good, Rested, Tidy, Owing
  <2>4. Justified(x)
    BY <1>2, <1>12, <1>15 DEF Justified
  <2> QED
    BY <2>3, <2>4
<1>29. Good(x, q)
  BY <1>13, <1>20, <1>21, <1>22, <1>23, <1>24, <1>25, <1>26, <1>27, <1>28
     DEF Good, Core, Rested
<1> QED
  BY <1>1, <1>11, <1>29, BecomesGood

\* The record is forgotten.
LEMMA CloseDoneGood ==
    ASSUME LifeInv, CloseDone PROVE LifeInv'
<1>0. PICK w : w = World
  OBVIOUS
<1>1. /\ plan \in Plans /\ Good(w, host) /\ w \in Worlds /\ close = w.close
  BY <1>0, Unpacked
<1> DEFINE x == [w EXCEPT !.close = "closed"]
<1>2. w.close = "unlock" /\ host' = host /\ Becomes(x)
  BY <1>0, <1>1 DEF CloseDone
<1>3. /\ x.s = w.s /\ x.close = "closed" /\ x \in Worlds
      /\ x.act = w.act /\ x.waiting = w.waiting /\ x.joined = w.joined
      /\ x.move = w.move /\ x.release = w.release /\ x.log = w.log
  BY <1>1 DEF Worlds
<1> HIDE DEF x
<1>4. Placed(x, host) /\ Installed(x, host) /\ Forked(x, host) /\ Locked(x, host)
  BY <1>1, <1>2, <1>3 DEF Good, Core, Placed, Installed, Forked, Locked
<1>5. Ended(x) /\ Idle(x) /\ Shown(x) /\ Charged(x, host) /\ Paid(x)
  BY <1>1, <1>2, <1>3 DEF Good, Core, Ended, Idle, Shown, Charged, Paid
<1>6. Known(x)
  BY <1>1, <1>3 DEF Good, Known, Awaits
<1>7. Tidy(x) /\ Justified(x)
  BY <1>1, <1>2, <1>3 DEF Good, Rested, Tidy, Owing, Justified
<1>8. Good(x, host)
  BY <1>1, <1>3, <1>4, <1>5, <1>6, <1>7 DEF Good, Core, Rested
<1> QED
  BY <1>1, <1>2, <1>8, BecomesGood

-----------------------------------------------------------------------------
(***************************************************************************)
(* The inductive invariant of the specification.                           *)
(***************************************************************************)
\* A cold record.
LEMMA InitGood ==
    ASSUME Init PROVE LifeInv
<1>0. PICK o \in BOOLEAN : o = FALSE
  OBVIOUS
<1>1. 0 \in 0 .. MaxHosts /\ 0 \in 0 .. MaxAttempts + 1 /\ MaxAttempts \in Nat \ {0}
  BY LifecycleAssumption
<1>2. /\ s = [proc |-> 0, ready |-> o, status |-> "cold", avail |-> "unavailable",
              retiring |-> 0, chain |-> o, timer |-> o, attempt |-> "none",
              rapid |-> 0, dead |-> o, closing |-> o, lock |-> o, recon |-> o,
              checkout |-> "old", fence |-> o, visit |-> None, touched |-> o,
              returned |-> o, tombs |-> {}]
      /\ act = NoAct /\ waiting = <<>> /\ joined = {}
      /\ move = Resting /\ release = NoRelease /\ close = "no"
      /\ host = [h \in Hosts |-> "unborn"]
      /\ log = [charged |-> [h \in Hosts |-> 0], cwd |-> [h \in Hosts |-> None],
                visit |-> [h \in Hosts |-> None], used |-> [h \in Hosts |-> o],
                restarts |-> 0, owed |-> o]
  BY <1>0 DEF Init
<1>3. s \in Records
  BY <1>1, <1>2 DEF Records
<1>4. act \in Acts /\ move \in Moves /\ release \in Releases
  BY <1>1, <1>2 DEF Acts, Moves, Releases, NoAct, Resting, NoRelease
<1>5. log \in Logs
  <2>1. /\ [h \in Hosts |-> 0] \in [Hosts -> Nat]
        /\ [h \in Hosts |-> None] \in [Hosts -> {"old", "new", None}]
        /\ [h \in Hosts |-> None] \in [Hosts -> Visits \cup {None}]
        /\ [h \in Hosts |-> o] \in [Hosts -> BOOLEAN]
    OBVIOUS
  <2> QED
    BY <1>2, <2>1 DEF Logs
<1>6. waiting \in Seq(Waiters) /\ joined \in SUBSET Callers /\ host \in Processes
  BY <1>2 DEF Processes
<1>7. PICK w : w = World
  OBVIOUS
<1>8. w \in Worlds
  BY <1>2, <1>3, <1>4, <1>5, <1>6, <1>7 DEF World, Worlds
<1>9. /\ w.s = s /\ w.act = NoAct /\ w.waiting = <<>> /\ w.joined = {}
      /\ w.move = Resting /\ w.release = NoRelease /\ w.close = "no" /\ w.log = log
  BY <1>2, <1>7 DEF World
<1>10. /\ s.proc = 0 /\ s.retiring = 0 /\ ~s.chain /\ ~s.timer /\ s.attempt = "none"
       /\ s.rapid = 0 /\ ~s.dead /\ ~s.closing /\ ~s.lock /\ ~s.recon /\ ~s.fence /\ ~s.ready
       /\ s.avail = "unavailable"
       /\ log.restarts = 0 /\ \A h \in Hosts : log.charged[h] = 0
  BY <1>0, <1>2
<1>11. \A h \in Hosts : host[h] = "unborn"
  BY <1>2
<1>12. Placed(w, host) /\ Installed(w, host) /\ Forked(w, host) /\ Locked(w, host)
  BY <1>9, <1>10, <1>11 DEF Placed, Installed, Forked, Locked, Lives, NoAct, NoRelease
<1>13. Ended(w) /\ Idle(w) /\ Shown(w) /\ Charged(w, host)
  BY <1>9, <1>10, <1>11 DEF Ended, Idle, Shown, Charged, NoAct, NoRelease, Resting
<1>14. Paid(w)
  BY <1>1, <1>9, <1>10 DEF Paid, Pays, Capped
<1>15. Known(w)
  BY <1>9, <1>10 DEF Known, Awaits, NoAct
<1>16. Tidy(w) /\ Justified(w)
  BY <1>9, <1>10 DEF Tidy, Justified, NoAct, NoRelease
<1>17. plan \in Plans
  BY DEF Init
<1> QED
  BY <1>6, <1>7, <1>8, <1>12, <1>13, <1>14, <1>15, <1>16, <1>17 DEF LifeInv, Good, Core, Rested

\* A stutter.
LEMMA StillGood ==
    ASSUME LifeInv, UNCHANGED vars PROVE LifeInv'
<1>1. Becomes(World) /\ host' = host
  BY DEF Becomes, World, vars
<1>2. plan \in Plans /\ Good(World, host)
  BY DEF LifeInv
<1> QED
  BY <1>1, <1>2, BecomesGood

\* Every step of an activation keeps the invariant.
LEMMA SettleGood ==
    ASSUME LifeInv, Settle PROVE LifeInv'
<1>1. CASE Spawn
  BY <1>1, SpawnGood
<1>2. CASE Withdraw
  BY <1>2, WithdrawGood
<1>3. CASE PrepareFails
  BY <1>3, PrepareFailsGood
<1>4. CASE BootReady
  BY <1>4, BootReadyGood
<1>5. CASE BootFails
  BY <1>5, BootFailsGood
<1>6. CASE Recovered
  BY <1>6, RecoveredGood
<1>7. CASE RecoveryFails
  BY <1>7, RecoveryFailsGood
<1>8. CASE \E ok \in BOOLEAN : Resynced(ok)
  BY <1>8, ResyncedGood
<1>9. CASE UnlockedAfterFailure
  BY <1>9, UnlockedAfterFailureGood
<1> QED
  BY <1>1, <1>2, <1>3, <1>4, <1>5, <1>6, <1>7, <1>8, <1>9 DEF Settle

\* The exit of a process runs every continuation of its retirement.
LEMMA ExitGood ==
    ASSUME LifeInv, Exit PROVE LifeInv'
<1>0. PICK w : w = World
  OBVIOUS
<1>1. /\ plan \in Plans /\ Good(w, host) /\ w \in Worlds /\ w.s \in Records
      /\ w.act \in Acts /\ host \in Processes /\ s = w.s
  BY <1>0, Unpacked
<1>2. PICK h \in Hosts, rapid \in BOOLEAN :
        /\ host[h] = "stopping" /\ w.s.retiring = h /\ host' = [host EXCEPT ![h] = "gone"]
        /\ Becomes(Retired(w, rapid))
  BY <1>0, <1>1 DEF Exit
<1> DEFINE q == [host EXCEPT ![h] = "gone"]
           x == [w EXCEPT !.s.retiring = 0]
<1>3. q \in Processes /\ q[h] = "gone" /\ \A g \in Hosts : g # h => q[g] = host[g]
  BY <1>1 DEF Processes
<1>4. host' = q
  BY <1>2
<1> HIDE DEF q
<1>5. h # 0 /\ w.s.proc = 0 /\ w.act.phase # "prepare"
  BY <1>1, <1>2, HostFacts DEF Good, Core, Placed
<1>6. /\ x.s = [w.s EXCEPT !.retiring = 0]
      /\ x.act = w.act /\ x.waiting = w.waiting /\ x.joined = w.joined
      /\ x.move = w.move /\ x.release = w.release /\ x.close = w.close /\ x.log = w.log
  BY <1>1 DEF Worlds
<1>7. x \in Worlds
  <2>1. [w.s EXCEPT !.retiring = 0] \in Records
    BY <1>1, HostFacts DEF Records
  <2> QED
    BY <1>1, <2>1 DEF Worlds
<1>8. Emptied(x, q) /\ (~plan.retained => Dues(x))
  <2> HIDE DEF x
  <2>1. /\ x.s.proc = 0 /\ x.s.retiring = 0 /\ x.s.chain = w.s.chain
        /\ x.s.attempt = w.s.attempt /\ x.s.dead = w.s.dead /\ x.s.lock = w.s.lock
        /\ x.s.ready = w.s.ready /\ x.s.closing = w.s.closing /\ x.s.timer = w.s.timer
        /\ x.s.avail = w.s.avail /\ x.s.fence = w.s.fence /\ x.s.recon = w.s.recon
        /\ x.s.rapid = w.s.rapid
    BY <1>1, <1>5, <1>6 DEF Records
  <2>2. Placed(x, q)
    BY <1>1, <1>2, <1>3, <1>5, <2>1 DEF Good, Core, Placed, Lives
  <2>3. Installed(x, q) /\ Locked(x, q) /\ Ended(x) /\ Idle(x)
    BY <1>1, <1>6, <2>1 DEF Installed, Good, Core, Locked, Ended, Idle
  <2>4. Forked(x, q)
    BY <1>1, <1>3, <1>6, HostFacts DEF Good, Core, Forked, Acts
  <2>5. Shown(x) /\ Paid(x)
    BY <1>1, <1>6, <2>1 DEF Good, Core, Shown, Paid
  <2>6. Charged(x, q)
    <3>1. \A g \in Hosts : q[g] = "unborn" => host[g] = "unborn"
      BY <1>3
    <3> QED
      BY <1>1, <1>6, <2>1, <3>1 DEF Good, Core, Charged
  <2>7. Known(x)
    BY <1>1, <1>6, <2>1 DEF Good, Known, Awaits
  <2>8. x.waiting # <<>> => x.act.phase = "none"
    BY <1>1, <1>6 DEF Good, Rested, Tidy
  <2>9. ~plan.retained => Dues(x)
    <3>1. w.s.dead => w.s.closing
      BY <1>1 DEF Good, Core, Ended
    <3> QED
      BY <1>1, <1>2, <1>5, <1>6, <2>1, <3>1 DEF Good, Rested, Tidy, Owing, Dues, Excuse
  <2> QED
    BY <1>3, <1>7, <2>1, <2>2, <2>3, <2>4, <2>5, <2>6, <2>7, <2>8, <2>9 DEF Emptied, Core
<1>9. LET z == Retired(w, rapid) IN Core(z, q) /\ Known(z) /\ Rested(z)
  BY <1>8, RetiredKeeps
<1>10. Good(Retired(w, rapid), q)
  BY <1>9 DEF Good
<1> QED
  BY <1>1, <1>2, <1>4, <1>10, BecomesGood

\* Every step keeps the invariant.
LEMMA NextGood ==
    ASSUME LifeInv, Next PROVE LifeInv'
<1>1. CASE \E v \in Visits \cup {None} : Activate(v)
  BY <1>1, ActivateGood
<1>2. CASE TimerFires
  BY <1>2, TimerFiresGood
<1>3. CASE Settle
  BY <1>3, SettleGood
<1>4. CASE Unresponsive
  BY <1>4, UnresponsiveGood
<1>5. CASE Crash
  BY <1>5, CrashGood
<1>6. CASE Exit
  BY <1>6, ExitGood
<1>7. CASE \E a \in {"snapshot", "lost"} : Availability(a)
  BY <1>7, AvailabilityGood
<1>8. CASE MoveStart
  BY <1>8, MoveStartGood
<1>9. CASE MoveRefused
  BY <1>9, MoveRefusedGood
<1>10. CASE MoveDetach
  BY <1>10, MoveDetachGood
<1>11. CASE Interact
  BY <1>11, InteractGood
<1>12. CASE Return
  BY <1>12, ReturnGood
<1>13. CASE \E v \in Visits : Release(v) \/ TombExpires(v)
  BY <1>13, ReleaseGood, TombExpiresGood
<1>14. CASE ReleaseProbes
  BY <1>14, ReleaseProbesGood
<1>15. CASE ReleaseAdmits
  BY <1>15, ReleaseAdmitsGood
<1>16. CASE ReleaseRefused
  BY <1>16, ReleaseRefusedGood
<1>17. CASE ReleaseDetach
  BY <1>17, ReleaseDetachGood
<1>18. CASE ReleaseDone
  BY <1>18, ReleaseDoneGood
<1>19. CASE CloseStart
  BY <1>19, CloseStartGood
<1>20. CASE CloseSession
  BY <1>20, CloseSessionGood
<1>21. CASE CloseDone
  BY <1>21, CloseDoneGood
<1>22. CASE Finish
  BY <1>22, StillGood DEF Finish
<1> QED
  BY <1>1, <1>2, <1>3, <1>4, <1>5, <1>6, <1>7, <1>8, <1>9, <1>10, <1>11, <1>12, <1>13, <1>14,
     <1>15, <1>16, <1>17, <1>18, <1>19, <1>20, <1>21, <1>22 DEF Next

\* Every step keeps the invariant.
LEMMA LifeStep == LifeInv /\ [Next]_vars => LifeInv'
BY NextGood, StillGood

-----------------------------------------------------------------------------
(***************************************************************************)
(* What the invariant says of the properties the runs check.               *)
(***************************************************************************)
\* Its types are those of TypeOK.
LEMMA LifeGivesTypes ==
    ASSUME LifeInv PROVE TypeOK
<1>1. /\ s \in Records /\ act \in Acts /\ move \in Moves /\ release \in Releases
      /\ host \in Processes
  BY Typed
<1>2. joined \subseteq Callers /\ close \in {"no", "graceful", "retire", "unlock", "closed"}
  BY DEF LifeInv, Good, Core, Worlds, World
<1>3. /\ s.proc \in 0 .. MaxHosts /\ s.retiring \in 0 .. MaxHosts
      /\ s.status \in {"cold", "starting", "ready", "failed"}
      /\ s.avail \in {"unavailable", "transitioning", "available"}
      /\ s.attempt \in {"none", "live", "accounted"} /\ s.rapid \in 0 .. MaxAttempts + 1
      /\ s.checkout \in {"old", "new"} /\ s.visit \in Visits \cup {None} /\ s.tombs \subseteq Visits
  BY <1>1 DEF Records
<1>4. {s.ready, s.chain, s.timer, s.dead, s.closing, s.lock, s.recon, s.fence} \subseteq BOOLEAN
  BY <1>1 DEF Records
<1>5. /\ act.phase \in {"none", "prepare", "boot", "recover", "resync", "drop", "fail", "unlock"}
      /\ move.phase \in {"none", "admit", "retire", "destination", "rollback"}
      /\ release.phase \in {"none", "wait", "probe", "permit", "retire", "unlock"}
  BY <1>1 DEF Acts, Moves, Releases
<1> QED
  BY <1>1, <1>2, <1>3, <1>4, <1>5 DEF TypeOK, Processes

\* Placed and Locked give one locked process, Justified the reason of the lock.
LEMMA LifeGivesOneHost ==
    ASSUME LifeInv PROVE OneLockedHost
<1>0. PICK w : w = World
  OBVIOUS
<1>1. /\ plan \in Plans /\ Good(w, host) /\ w \in Worlds /\ w.s \in Records /\ host \in Processes
      /\ s = w.s /\ act = w.act /\ waiting = w.waiting /\ release = w.release /\ close = w.close
  BY <1>0, Unpacked
<1>2. \A h \in Hosts : Alive(h) <=> Lives(host, h)
  BY DEF Alive, Lives
<1>3. /\ \A h \in Hosts : Alive(h) => h = w.s.proc \/ h = w.s.retiring
      /\ w.s.proc = 0 \/ w.s.retiring = 0
  BY <1>1, <1>2 DEF Good, Core, Placed
<1>4. NoOverlap
  <2> SUFFICES ASSUME NEW g \in Hosts, NEW h \in Hosts, Alive(g), Alive(h) PROVE g = h
    BY DEF NoOverlap
  <2>1. g # 0 /\ h # 0
    BY HostFacts
  <2> QED
    BY <1>3, <2>1
<1>5. LockOutlivesHost
  <2> SUFFICES ASSUME NEW h \in Hosts, Alive(h) PROVE w.s.lock
    BY <1>1 DEF LockOutlivesHost
  <2>1. h # 0 /\ host[h] # "gone"
    BY HostFacts DEF Alive
  <2> QED
    BY <1>1, <1>3, <2>1 DEF Good, Core, Locked
<1>6. NoIdleLock
  BY <1>1 DEF Good, Rested, Justified, NoIdleLock, NoAct
<1>7. NoDeadAuthority
  BY <1>1 DEF Good, Core, Installed, NoDeadAuthority, NoAct
<1>8. ClosedStaysEmpty
  <2> SUFFICES ASSUME w.close = "closed"
               PROVE  /\ \A h \in Hosts : ~Alive(h)
                      /\ ~w.s.lock /\ ~w.s.timer /\ w.act.phase # "boot"
    BY <1>1 DEF ClosedStaysEmpty
  <2>1. w.s.dead /\ ~w.s.lock /\ ~w.s.timer
    BY <1>1 DEF Good, Core, Ended, Locked
  <2>2. w.s.proc = 0 /\ w.s.retiring = 0
    BY <1>1, <2>1 DEF Good, Core, Installed, Locked
  <2>3. \A h \in Hosts : ~Alive(h)
    BY <1>3, <2>2, HostFacts
  <2>4. w.act.phase # "boot"
    BY <1>1, <2>2 DEF Good, Rested, Tidy
  <2> QED
    BY <2>1, <2>3, <2>4
<1> QED
  BY <1>4, <1>5, <1>6, <1>7, <1>8, LifeGivesTypes DEF OneLockedHost

\* Charged and Paid give the budget.
LEMMA LifeGivesBudget ==
    ASSUME LifeInv PROVE CrashBudget
<1>0. PICK w : w = World
  OBVIOUS
<1>1. Good(w, host) /\ w.s \in Records /\ w.log \in Logs /\ log = w.log
  BY <1>0, Unpacked
<1>2. ChargedOnce
  BY <1>1 DEF Good, Core, Charged, ChargedOnce
<1>3. CrashLoopBounded
  <2>1. w.log.restarts \in Nat /\ w.s.rapid \in Nat /\ MaxAttempts \in Nat
    BY <1>1, LifecycleAssumption DEF Logs, Records
  <2> QED
    BY <1>1, <2>1 DEF Good, Core, Paid, Pays, Capped, CrashLoopBounded
<1> QED
  BY <1>2, <1>3 DEF CrashBudget

\* One host per session under one lock: whichever way activations, failures,
\* retirements, restarts, moves, releases and the close interleave, at most one
\* process of the session lives, the lock is held as long as it does and never
\* without a reason, what is shown is alive, and nothing comes back after the
\* close (activateSession, handleRuntimeFailure, setWorktreeAndRespawn,
\* releaseActivationVisit, closeSession).
THEOREM LifeIsLocked == Spec => []OneLockedHost
<1>1. Init => LifeInv
  BY InitGood
<1>2. LifeInv /\ [Next]_vars => LifeInv'
  BY LifeStep
<1>3. LifeInv => OneLockedHost
  BY LifeGivesOneHost
<1> QED
  BY <1>1, <1>2, <1>3, PTL DEF Spec

\* A physical failure is charged once, and a session that keeps failing rapidly
\* is given up after MaxAttempts restarts and the one a timer had already armed
\* (accountRapidFailure, scheduleAutomaticRestart).
THEOREM CrashesAreCharged == Spec => []CrashBudget
<1>1. Init => LifeInv
  BY InitGood
<1>2. LifeInv /\ [Next]_vars => LifeInv'
  BY LifeStep
<1>3. LifeInv => CrashBudget
  BY LifeGivesBudget
<1> QED
  BY <1>1, <1>2, <1>3, PTL DEF Spec

-----------------------------------------------------------------------------
(***************************************************************************)
(* Visits.  A visit owns only the process that its activation forked, and  *)
(* what is known of a process under release is still true when it is asked *)
(* to stop.  Of what the helpers do to a registry only a little matters    *)
(* here: Calls(x, w) says that x comes from w without a new process, with  *)
(* the visit of w or that of a new activation.                             *)
(***************************************************************************)
Visited(w, p) ==
    /\ w.s.visit # None /\ w.s.proc # 0 =>
         /\ w.log.visit[w.s.proc] = w.s.visit
         /\ w.log.used[w.s.proc] => w.s.touched
    /\ w.act.phase = "prepare" => w.s.visit \in {None, w.act.visit}
    /\ \A h \in Hosts : p[h] = "unborn" => ~w.log.used[h]
    /\ w.release.phase \in {"probe", "permit"} => p[w.release.host] \in {"up", "stopping", "gone"}
    /\ w.release.phase = "permit" /\ p[w.release.host] = "up" => w.s.visit = w.release.visit
    /\ w.release.phase \in {"wait", "probe", "permit"} => w.release.visit # None

\* The fields of a registry, of whatever value.
Shaped(w) ==
    /\ DOMAIN w = {"s", "act", "waiting", "joined", "move", "release", "close", "log"}
    /\ DOMAIN w.s = {"proc", "ready", "status", "avail", "retiring", "chain", "timer", "attempt",
                     "rapid", "dead", "closing", "lock", "recon", "checkout", "fence", "visit",
                     "touched", "returned", "tombs"}
    /\ DOMAIN w.act = {"phase", "host", "caller", "visit"}
    /\ DOMAIN w.move = {"phase", "host"}
    /\ DOMAIN w.release = {"phase", "visit", "host"}
    /\ DOMAIN w.log = {"charged", "cwd", "visit", "used", "restarts", "owed"}

\* An installed process is at work, or starting.
Calm(w) == w.s.proc # 0 => w.s.status \in {"starting", "ready"}

\* x has the process, visit and activation of w.
Same(x, w) ==
    /\ Shaped(x) /\ x.act = w.act /\ x.release = w.release
    /\ x.s.proc = w.s.proc /\ x.s.visit = w.s.visit /\ x.s.touched = w.s.touched
    /\ x.s.status = w.s.status /\ x.joined = w.joined
    /\ x.log.visit = w.log.visit /\ x.log.used = w.log.used

\* x has come from w by calls of the registry's own.
Calls(x, w) ==
    /\ Shaped(x)
    /\ x.s.proc \in {0, w.s.proc} /\ (Calm(w) => Calm(x))
    /\ x.log.visit = w.log.visit /\ x.log.used = w.log.used
    /\ x.release = w.release \/ x.release.phase \in {"none", "unlock"}
    /\ \/ /\ x.s.visit = w.s.visit /\ x.s.touched = w.s.touched
          /\ x.act.phase = "prepare" => w.act.phase = "prepare" /\ x.act.visit = w.act.visit
       \/ x.s.proc = 0 /\ (x.act.phase = "prepare" => x.s.visit \in {None, x.act.visit})

\* Calls come one after the other.
LEMMA CallsChain ==
    ASSUME NEW x, NEW y, NEW w, Calls(x, y), Calls(y, w)
    PROVE  Calls(x, w)
BY DEF Calls

\* What changes nothing that matters here is a call.
LEMMA SameCalls ==
    ASSUME NEW x, NEW w, Same(x, w)
    PROVE  Calls(x, w)
BY DEF Same, Calls, Calm

\* accountRapidFailure, scheduleAutomaticRestart and the end of a move.
LEMMA SmallSame ==
    ASSUME NEW w, Shaped(w)
    PROVE  /\ Same(Scheduled(w), w) /\ Same(MoveEnded(w), w)
           /\ \A h, rapid : Same(Accounted(w, h, rapid), w)
<1>1. Same(Scheduled(w), w)
  BY DEF Scheduled, Same, Shaped
<1>2. Same(MoveEnded(w), w)
  BY DEF MoveEnded, Resting, Same, Shaped
<1>3. ASSUME NEW h, NEW rapid PROVE Same(Accounted(w, h, rapid), w)
  BY DEF Accounted, Same, Shaped
<1> QED BY <1>1, <1>2, <1>3

\* activateSession, where it is admitted: no process is installed, or the
\* activation that runs is joined.
LEMMA BegunCalls ==
    ASSUME NEW w, Shaped(w), w.s.proc = 0, NEW c, NEW v
    PROVE  Calls(Begun(w, c, v), w)
BY DEF Begun, Calls, Calm, Shaped

\* activateSession joins the running activation, waits for a retirement, or begins.
LEMMA EnterCalls ==
    ASSUME NEW w, Shaped(w), w.s.proc = 0 \/ w.act # NoAct, NEW c, NEW v
    PROVE  Calls(Enter(w, c, v), w)
<1> DEFINE y == [w EXCEPT !.s.timer = FALSE]
<1>1. CASE w.act # NoAct
  BY <1>1 DEF Enter, Calls, Calm, Shaped
<1>2. CASE w.act = NoAct /\ w.s.retiring # 0
  BY <1>2 DEF Enter, Calls, Calm, Shaped
<1>3. CASE w.act = NoAct /\ w.s.retiring = 0
  <2>1. Shaped(y) /\ y.s.proc = 0 /\ Same(y, w)
    BY <1>3 DEF Shaped, Same
  <2>2. Enter(w, c, v) = Begun(y, c, v)
    BY <1>3 DEF Enter
  <2> HIDE DEF y
  <2> QED BY <2>1, <2>2, BegunCalls, SameCalls, CallsChain
<1> QED BY <1>1, <1>2, <1>3

\* What a caller does with the outcome of an activation: a process that is
\* installed is at work, so nobody begins another activation over it.
LEMMA RolledBackCalls ==
    ASSUME NEW w, Shaped(w), Calm(w)
    PROVE  Calls(RolledBack(w), w)
<1> DEFINE x == [w EXCEPT !.s.checkout = "old", !.move.phase = "rollback"]
<1>1. Same(x, w)
  BY DEF Same, Shaped
<1>2. Running(w) <=> w.s.proc # 0
  BY DEF Running, Calm
<1>3. CASE Running(w) /\ w.act = NoAct
  <2>1. RolledBack(w) = [x EXCEPT !.move = Resting]
    BY <1>3 DEF RolledBack
  <2>2. Same([x EXCEPT !.move = Resting], w)
    BY <1>1 DEF Same, Shaped, Resting
  <2> QED BY <2>1, <2>2, SameCalls
<1>4. CASE ~(Running(w) /\ w.act = NoAct)
  <2>1. RolledBack(w) = Enter(x, "rollback", None)
    BY <1>4 DEF RolledBack
  <2>2. Shaped(x) /\ (x.s.proc = 0 \/ x.act # NoAct)
    BY <1>1, <1>2, <1>4 DEF Same
  <2> HIDE DEF x
  <2> QED BY <1>1, <2>1, <2>2, EnterCalls, SameCalls, CallsChain
<1> QED BY <1>3, <1>4

\* The automatic restart settles: nothing, or another one is scheduled.
LEMMA AutoSettledCalls ==
    ASSUME NEW w, Shaped(w), NEW ok, NEW h, NEW rapid
    PROVE  Same(AutoSettled(w, ok, h, rapid), w)
<1> DEFINE x == [w EXCEPT !.s.attempt = "none"]
<1>1. Same(x, w) /\ Same(w, w)
  BY DEF Same, Shaped
<1>2. Same(Scheduled(x), w) /\ Same(Accounted(x, h, rapid), w)
  <2>1. Shaped(x)
    BY <1>1 DEF Same
  <2> HIDE DEF x
  <2>2. Same(Scheduled(x), x) /\ Same(Accounted(x, h, rapid), x)
    BY <2>1, SmallSame
  <2> QED BY <1>1, <2>2 DEF Same
<1>3. Same(Scheduled(Accounted(x, h, rapid)), w)
  <2> DEFINE y == Accounted(x, h, rapid)
  <2>1. Same(y, w)
    BY <1>2
  <2> HIDE DEF y
  <2>2. Same(Scheduled(y), w)
    BY <2>1, SmallSame DEF Same
  <2> QED BY <2>2 DEF y
<1> HIDE DEF x
<1>4. AutoSettled(w, ok, h, rapid) \in {w, x, Scheduled(x), Scheduled(Accounted(x, h, rapid))}
  BY DEF AutoSettled, x
<1> QED BY <1>1, <1>2, <1>3, <1>4

\* Whoever asked for an activation settles: a restart, a move or its rollback.
LEMMA SettledCalls ==
    ASSUME NEW w, Shaped(w), Calm(w), NEW c, NEW ok, NEW h, NEW rapid
    PROVE  Calls(Settled(w, c, ok, h, rapid), w)
<1>1. Calls(w, w) /\ Calls(MoveEnded(w), w) /\ Calls(AutoSettled(w, ok, h, rapid), w)
      /\ Calls(RolledBack(w), w)
  <2>1. Same(w, w)
    BY DEF Same
  <2> QED BY <2>1, SmallSame, SameCalls, AutoSettledCalls, RolledBackCalls
<1>2. Settled(w, c, ok, h, rapid)
        \in {w, MoveEnded(w), AutoSettled(w, ok, h, rapid), RolledBack(w)}
  BY DEF Settled, DestinationSettled
<1> QED BY <1>1, <1>2

\* The finally of activateSession.
LEMMA FinishedCalls ==
    ASSUME NEW w, Shaped(w), Calm(w), NEW ok, NEW rapid
    PROVE  Calls(Finished(w, ok, rapid), w)
<1> DEFINE x == [w EXCEPT !.act = NoAct, !.joined = {}]
           J(y, c) == IF c \in w.joined THEN Settled(y, c, TRUE, 0, rapid) ELSE y
<1>1. Calls(x, w) /\ Shaped(x) /\ Calm(x)
  BY DEF Calls, Shaped, Calm, NoAct
<1>2. ASSUME NEW y, Calls(y, w), NEW c, NEW r, NEW h
      PROVE  Calls(Settled(y, c, r, h, rapid), w)
  <2>1. Shaped(y) /\ Calm(y)
    BY <1>2 DEF Calls
  <2> QED BY <1>2, <2>1, SettledCalls, CallsChain
<1>3. ASSUME NEW y, Calls(y, w), NEW c PROVE Calls(J(y, c), w)
  BY <1>2, <1>3
<1>4. Finished(w, ok, rapid)
        = Settled(J(J(J(x, "auto"), "destination"), "rollback"), w.act.caller, ok, w.act.host, rapid)
  BY DEF Finished
<1> HIDE DEF x, J
<1>5. Calls(J(J(J(x, "auto"), "destination"), "rollback"), w)
  BY <1>1, <1>3
<1> QED BY <1>2, <1>4, <1>5

\* The catch of activateSession and handleRuntimeFailure leave no process.
LEMMA FailingCalls ==
    ASSUME NEW w, Shaped(w), w.s.proc = 0
    PROVE  Calls(Failing(w), w)
BY DEF Failing, Calls, Calm, Shaped

\* handleRuntimeFailure: the process is given up.
LEMMA RuntimeFailedCalls ==
    ASSUME NEW w, Shaped(w), NEW h, NEW gone, NEW recon, NEW rapid
    PROVE  /\ Calls(RuntimeFailed(w, h, gone, recon, rapid), w)
           /\ RuntimeFailed(w, h, gone, recon, rapid).s.proc = 0
<1> DEFINE d == Detach(w, h, gone, recon)
           x == Accounted(d, h, rapid)
           y == [x EXCEPT !.s.attempt = "accounted"]
<1>1. Calls(d, w) /\ Shaped(d) /\ d.s.proc = 0
  BY DEF Detach, Calls, Calm, Shaped
<1>2. Same(x, d)
  <2> HIDE DEF d
  <2> QED BY <1>1, SmallSame
<1>3. RuntimeFailed(w, h, gone, recon, rapid) \in {Scheduled(x), y}
  BY DEF RuntimeFailed
<1> HIDE DEF d, x
<1>4. Same(Scheduled(x), x)
  BY <1>2, SmallSame DEF Same
<1>5. Same(y, x)
  BY <1>2 DEF Same, Shaped
<1> HIDE DEF y
<1>6. Same(Scheduled(x), d) /\ Same(y, d)
  BY <1>2, <1>4, <1>5 DEF Same
<1>7. Calls(Scheduled(x), w) /\ Calls(y, w) /\ Scheduled(x).s.proc = 0 /\ y.s.proc = 0
  <2>1. Scheduled(x).s.proc = 0 /\ y.s.proc = 0
    BY <1>1, <1>6 DEF Same
  <2> QED BY <1>1, <1>6, <2>1, SameCalls, CallsChain
<1> QED BY <1>3, <1>7

\* What a retirement resumes when it ends: no process is installed then.
LEMMA RetiredCalls ==
    ASSUME NEW w, Shaped(w), w.s.proc = 0, NEW rapid
    PROVE  Calls(Retired(w, rapid), w)
<1>1. ASSUME NEW y, Calls(y, w) PROVE Shaped(y) /\ y.s.proc = 0 /\ Calm(y)
  BY <1>1 DEF Calls, Calm
<1> DEFINE x0 == [w EXCEPT !.s.retiring = 0]
<1>2. Calls(x0, w)
  BY DEF Calls, Calm, Shaped
<1>3. ASSUME NEW y, Calls(y, w) PROVE Calls(AfterChain(y), w)
  <2> DEFINE z == [y EXCEPT !.s.chain = FALSE]
  <2>1. Shaped(y)
    BY <1>1, <1>3
  <2>2. Same(z, y)
    BY <2>1 DEF Same, Shaped
  <2> HIDE DEF z
  <2>3. Calls(z, w) /\ Calls(Scheduled(z), z)
    BY <1>3, <2>2, SmallSame, SameCalls, CallsChain DEF Same
  <2> QED BY <1>3, <2>3, CallsChain DEF AfterChain, z
<1>4. ASSUME NEW y, Calls(y, w) PROVE Calls(AfterMove(y), w)
  <2> DEFINE z == [y EXCEPT !.s.checkout = "new", !.move.phase = "destination"]
  <2>1. Shaped(y) /\ y.s.proc = 0
    BY <1>1, <1>4
  <2>2. Same(z, y)
    BY <2>1 DEF Same, Shaped
  <2>3. AfterMove(y) \in {y, MoveEnded(z), Enter(z, "destination", None)}
    BY DEF AfterMove
  <2> HIDE DEF z
  <2>4. Shaped(z) /\ z.s.proc = 0 /\ Calls(z, w)
    BY <1>4, <2>1, <2>2, SameCalls, CallsChain DEF Same
  <2>5. Calls(MoveEnded(z), z) /\ Calls(Enter(z, "destination", None), z)
    BY <2>4, SmallSame, SameCalls, EnterCalls
  <2> QED BY <1>4, <2>3, <2>4, <2>5, CallsChain
<1>5. ASSUME NEW y, Calls(y, w) PROVE Calls(AfterRelease(y), w)
  <2>1. Shaped(y)
    BY <1>1, <1>5
  <2>2. Calls(AfterRelease(y), y)
    BY <2>1 DEF AfterRelease, Calls, Calm, Shaped
  <2> QED BY <1>5, <2>2, CallsChain
<1>6. ASSUME NEW y, Calls(y, w) PROVE Calls(AfterActivation(y, rapid), w)
  <2> DEFINE z == [y EXCEPT !.s.avail = "unavailable"]
  <2>1. Shaped(y) /\ y.s.proc = 0 /\ Calm(y)
    BY <1>1, <1>6
  <2>2. Same(z, y)
    BY <2>1 DEF Same, Shaped
  <2>3. AfterActivation(y, rapid) \in {y, Failing(y), Finished(y, TRUE, rapid), Finished(z, TRUE, rapid)}
    BY DEF AfterActivation
  <2> HIDE DEF z
  <2>4. Calls(z, w)
    BY <1>6, <2>2, SameCalls, CallsChain
  <2>5. Shaped(z) /\ Calm(z)
    BY <1>1, <2>4
  <2>6. Calls(Failing(y), y) /\ Calls(Finished(y, TRUE, rapid), y) /\ Calls(Finished(z, TRUE, rapid), z)
    BY <2>1, <2>5, FailingCalls, FinishedCalls
  <2>7. /\ Calls(y, w) /\ Calls(Failing(y), w) /\ Calls(Finished(y, TRUE, rapid), w)
        /\ Calls(Finished(z, TRUE, rapid), w)
    BY <1>6, <2>4, <2>6, CallsChain
  <2> QED BY <2>3, <2>7
<1>7. ASSUME NEW y, Calls(y, w) PROVE Calls(AfterWaiting(y), w)
  <2>1. Shaped(y) /\ y.s.proc = 0
    BY <1>1, <1>7
  <2> DEFINE later == {y.waiting[i].caller : i \in 1 .. Len(y.waiting)}
             c == y.waiting[1].caller
             v == y.waiting[1].visit
             b == Begun(y, c, v)
             e == [y EXCEPT !.waiting = <<>>]
             j == [y EXCEPT !.waiting = <<>>, !.joined = y.joined \cup later]
             g == [b EXCEPT !.waiting = <<>>, !.joined = later \ {c}]
  <2>2. AfterWaiting(y) \in {y, e, j, g}
    BY DEF AfterWaiting
  <2>3. Calls(b, y) /\ Shaped(b)
    BY <2>1, BegunCalls DEF Calls
  <2> HIDE DEF later, b, c, v
  <2>4. Calls(e, y) /\ Calls(j, y)
    BY <2>1 DEF Calls, Calm, Shaped
  <2>5. Calls(g, b)
    BY <2>3 DEF Calls, Calm, Shaped
  <2> HIDE DEF e, j, g
  <2> QED BY <1>7, <2>2, <2>3, <2>4, <2>5, CallsChain
<1>8. ASSUME NEW y, Calls(y, w) PROVE Calls(AfterClose(y), w)
  <2>1. Shaped(y)
    BY <1>1, <1>8
  <2>2. Calls(AfterClose(y), y)
    BY <2>1 DEF AfterClose, Calls, Calm, Shaped
  <2> QED BY <1>8, <2>2, CallsChain
<1>9. Retired(w, rapid) = AfterClose(AfterWaiting(AfterActivation(AfterRelease(AfterMove(
                            AfterChain(x0))), rapid)))
  BY DEF Retired
<1> HIDE DEF x0
<1>10. Calls(AfterRelease(AfterMove(AfterChain(x0))), w)
  BY <1>2, <1>3, <1>4, <1>5
<1> QED BY <1>6, <1>7, <1>8, <1>9, <1>10

(***************************************************************************)
(* The visits' part of the invariant, step by step.                        *)
(***************************************************************************)

\* Processes that only stop.
Ages(q, p) ==
    \A h \in Hosts : q[h] = p[h] \/ (p[h] # "unborn" /\ q[h] \in {"stopping", "gone"})

\* What a step has to show of visits.
Spared ==
    /\ Visited(World', host')
    /\ release.phase = "permit" /\ release'.phase = "retire" =>
         /\ release.host = s.proc /\ log.visit[s.proc] = release.visit
         /\ ~log.used[s.proc]

\* A registry of the invariant has the shape, and its processes their types.
LEMMA LifeFacts ==
    ASSUME LifeInv
    PROVE  /\ Shaped(World) /\ Core(World, host) /\ World \in Worlds
           /\ s \in Records /\ act \in Acts /\ release \in Releases /\ log \in Logs
           /\ host \in Processes
<1>1. Core(World, host)
  BY DEF LifeInv, Good
<1>2. World \in Worlds /\ host \in Processes
  BY <1>1 DEF Core
<1>3. s \in Records /\ act \in Acts /\ move \in Moves /\ release \in Releases /\ log \in Logs
  BY <1>2 DEF World, Worlds
<1>4. Shaped(World)
  BY <1>3 DEF World, Shaped, Records, Acts, Moves, Releases, Logs
<1> QED BY <1>1, <1>2, <1>3, <1>4

\* The registry's own calls leave every visit with its process.
LEMMA CallsSpare ==
    ASSUME LifeInv, LifeInv', Visited(World, host), NEW x, Becomes(x), Calls(x, World),
           Ages(host', host)
    PROVE  Spared
<1>1. /\ Core(World, host) /\ host \in Processes /\ release \in Releases /\ s \in Records
  BY LifeFacts
<1>2. /\ s' = x.s /\ act' = x.act /\ release' = x.release /\ log' = x.log
  BY DEF Becomes
<1>3. /\ s'.proc \in {0, s.proc} /\ log'.visit = log.visit /\ log'.used = log.used
      /\ release' = release \/ release'.phase \in {"none", "unlock"}
      /\ \/ /\ s'.visit = s.visit /\ s'.touched = s.touched
            /\ act'.phase = "prepare" => act.phase = "prepare" /\ act'.visit = act.visit
         \/ s'.proc = 0 /\ (act'.phase = "prepare" => s'.visit \in {None, act'.visit})
  BY <1>2 DEF Calls, World
<1>4. /\ Visited(World, host)
      /\ \A h \in Hosts : host'[h] = "up" => h = s'.proc
  <2>1. (Core(World, host))'
    BY DEF LifeInv, Good
  <2> QED BY <2>1, HostFacts DEF Core, Placed, World, Lives, Worlds, Records
<1>5. release.phase \in {"probe", "permit"} => release.host \in Hosts
  BY <1>1, HostFacts DEF Core, Shown, World, Releases
<1>6. 0 \notin Hosts
  BY HostFacts
<1>7. Visited(World', host')
  <2>1. s'.visit # None /\ s'.proc # 0 =>
          log'.visit[s'.proc] = s'.visit /\ (log'.used[s'.proc] => s'.touched)
    BY <1>3, <1>4 DEF Visited, World
  <2>2. act'.phase = "prepare" => s'.visit \in {None, act'.visit}
    BY <1>3, <1>4 DEF Visited, World
  <2>3. \A h \in Hosts : host'[h] = "unborn" => ~log'.used[h]
    BY <1>3, <1>4 DEF Visited, World, Ages
  <2>4. release'.phase \in {"probe", "permit"} => host'[release'.host] \in {"up", "stopping", "gone"}
    BY <1>3, <1>4, <1>5 DEF Visited, World, Ages
  <2>5. release'.phase = "permit" /\ host'[release'.host] = "up" => s'.visit = release'.visit
    BY <1>3, <1>4, <1>5, <1>6 DEF Visited, World, Ages
  <2>6. release'.phase \in {"wait", "probe", "permit"} => release'.visit # None
    BY <1>3, <1>4 DEF Visited, World
  <2> QED BY <2>1, <2>2, <2>3, <2>4, <2>5, <2>6 DEF Visited, World
<1>8. release.phase = "permit" => release'.phase # "retire"
  BY <1>3
<1> QED BY <1>7, <1>8 DEF Spared

\* What the invariant says of the present process: without one, or outside an
\* activation, it is not in anybody's way.
LEMMA ProcessFacts ==
    ASSUME LifeInv
    PROVE  /\ World.s = s /\ World.act = act /\ World.release = release /\ World.log = log
           /\ World.move = move /\ World.close = close
           /\ s.dead \/ act.phase \in {"prepare", "unlock", "fail", "drop"} => s.proc = 0
           /\ s.retiring # 0 => s.proc = 0
           /\ act.phase \in {"recover", "resync"} /\ s.proc # 0 => act.host = s.proc
           /\ s.proc # 0 /\ act.phase \in {"none", "resync"} => s.status = "ready"
           /\ act.phase = "none" => act = NoAct
           /\ release.phase = "unlock" => s.proc = 0
           /\ s.proc \in 0 .. MaxHosts /\ act.host \in 0 .. MaxHosts
<1>1. Core(World, host) /\ s \in Records /\ act \in Acts
  BY LifeFacts
<1> QED BY <1>1 DEF Core, World, Placed, Installed, Locked, Idle, Records, Acts

\* A step that changes nothing that matters here.
LEMMA SameSpares ==
    ASSUME LifeInv, LifeInv', Visited(World, host), NEW x, Becomes(x), Same(x, World),
           Ages(host', host)
    PROVE  Spared
BY CallsSpare, SameCalls

\* A step that leaves the processes alone.
LEMMA StillAges == host' = host => Ages(host', host)
BY DEF Ages

\* Steps of activations.
LEMMA ActivateSpares ==
    ASSUME LifeInv, LifeInv', Visited(World, host), NEW v, Activate(v)
    PROVE  Spared
<1> DEFINE t == [World EXCEPT !.s.tombs = s.tombs \ {v}]
           w == [World EXCEPT !.log.restarts = 0]
<1>1. Ages(host', host)
  BY StillAges DEF Activate
<1>2. Same(t, World) /\ Same(w, World)
  BY LifeFacts DEF Same, Shaped
<1>3. Becomes(t) \/ ((act # NoAct \/ ~Running(World)) /\ Becomes(Enter(w, "user", v)))
  BY ProcessFacts DEF Activate
<1>4. CASE Becomes(t)
  <2> HIDE DEF t
  <2> QED BY <1>1, <1>2, <1>4, SameSpares
<1>5. CASE (act # NoAct \/ ~Running(World)) /\ Becomes(Enter(w, "user", v))
  <2>1. s.proc = 0 \/ act # NoAct
    BY <1>5, ProcessFacts DEF Running, NoAct
  <2>2. Shaped(w) /\ (w.s.proc = 0 \/ w.act # NoAct)
    BY <1>2, <2>1, ProcessFacts DEF Same
  <2> HIDE DEF w
  <2>3. Calls(Enter(w, "user", v), World)
    BY <1>2, <2>2, EnterCalls, SameCalls, CallsChain
  <2> QED BY <1>1, <1>5, <2>3, CallsSpare
<1> QED BY <1>3, <1>4, <1>5

\* The restart timer: a new activation, without a visit.
LEMMA TimerFiresSpares ==
    ASSUME LifeInv, LifeInv', Visited(World, host), TimerFires
    PROVE  Spared
<1> DEFINE w == [World EXCEPT !.s.timer = FALSE]
           a == [w EXCEPT !.s.attempt = "live", !.log.restarts = w.log.restarts + 1]
<1>1. Ages(host', host)
  BY StillAges DEF TimerFires
<1>2. Same(w, World) /\ Same(a, World)
  BY LifeFacts DEF Same, Shaped
<1>3. Becomes(w) \/ (s.proc = 0 /\ Becomes(Enter(a, "auto", None)))
  BY DEF TimerFires
<1>4. CASE Becomes(w)
  <2> HIDE DEF w
  <2> QED BY <1>1, <1>2, <1>4, SameSpares
<1>5. CASE s.proc = 0 /\ Becomes(Enter(a, "auto", None))
  <2>1. Shaped(a) /\ a.s.proc = 0
    BY <1>2, <1>5, ProcessFacts DEF Same
  <2> HIDE DEF a
  <2>2. Calls(Enter(a, "auto", None), World)
    BY <1>2, <2>1, EnterCalls, SameCalls, CallsChain
  <2> QED BY <1>1, <1>5, <2>2, CallsSpare
<1> QED BY <1>3, <1>4, <1>5

\* An activation ends, or its process is given up.
LEMMA EndsSpare ==
    ASSUME LifeInv, LifeInv', Visited(World, host),
           Withdraw \/ PrepareFails \/ BootFails \/ UnlockedAfterFailure
    PROVE  Spared
<1>1. Shaped(World)
  BY LifeFacts
<1>2. CASE Withdraw
  <2>1. Calm(World) /\ Becomes(Finished(World, TRUE, FALSE)) /\ Ages(host', host)
    BY <1>2, ProcessFacts, StillAges DEF Withdraw, Calm
  <2> QED BY <1>1, <2>1, FinishedCalls, CallsSpare
<1>3. CASE PrepareFails
  <2>1. World.s.proc = 0 /\ Becomes(Failing(World)) /\ Ages(host', host)
    BY <1>3, ProcessFacts, StillAges DEF PrepareFails
  <2> QED BY <1>1, <2>1, FailingCalls, CallsSpare
<1>4. CASE BootFails
  <2> DEFINE x == [World EXCEPT !.act.phase = "fail", !.s.proc = 0, !.s.retiring = act.host]
  <2>1. Becomes(x)
    BY <1>4 DEF BootFails
  <2>2. Ages(host', host)
    BY <1>4, LifeFacts DEF BootFails, Ages, Processes
  <2>3. Calls(x, World)
    BY <1>1 DEF Calls, Calm, Shaped
  <2> HIDE DEF x
  <2> QED BY <2>1, <2>2, <2>3, CallsSpare
<1>5. CASE UnlockedAfterFailure
  <2> DEFINE w == [World EXCEPT !.s.avail = "unavailable"]
  <2>1. PICK rapid \in BOOLEAN : Becomes(Finished(w, FALSE, rapid))
    BY <1>5 DEF UnlockedAfterFailure
  <2>2. Same(w, World)
    BY <1>1 DEF Same, Shaped
  <2>3. Shaped(w) /\ Calm(w)
    BY <1>5, <2>2, ProcessFacts DEF Same, Calm, UnlockedAfterFailure
  <2>4. Ages(host', host)
    BY <1>5, StillAges DEF UnlockedAfterFailure
  <2> HIDE DEF w
  <2>5. Calls(Finished(w, FALSE, rapid), World)
    BY <2>2, <2>3, FinishedCalls, SameCalls, CallsChain
  <2> QED BY <2>1, <2>4, <2>5, CallsSpare
<1> QED BY <1>2, <1>3, <1>4, <1>5

\* A superseded process: the activation waits for it, or ends without one.
LEMMA SupersededCalls ==
    ASSUME NEW w, Shaped(w), w.s.proc = 0, NEW rapid
    PROVE  Calls(Superseded(w, rapid), w)
<1>1. Calls(Finished(w, TRUE, rapid), w)
  BY FinishedCalls DEF Calm
<1>2. Calls([w EXCEPT !.act.phase = "drop"], w)
  BY DEF Calls, Calm, Shaped
<1> QED BY <1>1, <1>2 DEF Superseded

\* The recovery of the editor ends, or fails.
LEMMA RecoverySpares ==
    ASSUME LifeInv, LifeInv', Visited(World, host), Recovered \/ RecoveryFails
    PROVE  Spared
<1>1. Shaped(World) /\ host \in Processes
  BY LifeFacts
<1>2. CASE Recovered
  <2> DEFINE w == [World EXCEPT !.s.recon = FALSE]
  <2>1. Same(w, World)
    BY <1>1 DEF Same, Shaped
  <2>2. PICK rapid \in BOOLEAN :
          Becomes(IF s.dead \/ s.proc # act.host THEN Superseded(w, rapid) ELSE Readied(w))
    BY <1>2 DEF Recovered
  <2>3. Ages(host', host) /\ act.phase = "recover"
    BY <1>2, StillAges DEF Recovered
  <2>4. Shaped(w) /\ w.s.proc = s.proc
    BY <2>1, ProcessFacts DEF Same
  <2> HIDE DEF w
  <2>5. CASE s.dead \/ s.proc # act.host
    <3>1. Calls(Superseded(w, rapid), World)
      BY <2>1, <2>3, <2>4, <2>5, ProcessFacts, SupersededCalls, SameCalls, CallsChain
    <3> QED BY <2>2, <2>3, <2>5, <3>1, CallsSpare
  <2>6. CASE ~(s.dead \/ s.proc # act.host)
    <3>1. Calls(Readied(w), w)
      BY <2>4 DEF Readied, Calls, Calm, Shaped
    <3>2. Calls(Readied(w), World)
      BY <2>1, <3>1, SameCalls, CallsChain
    <3> QED BY <2>2, <2>3, <2>6, <3>2, CallsSpare
  <2> QED BY <2>5, <2>6
<1>3. CASE RecoveryFails
  <2> DEFINE stops == s.proc = act.host /\ Alive(act.host) /\ ~s.dead
             w == [World EXCEPT !.s.proc = 0, !.s.retiring = IF stops THEN act.host ELSE s.retiring]
             f == [w EXCEPT !.act.phase = "fail"]
  <2>1. Calls(w, World) /\ Shaped(w) /\ w.s.proc = 0
    BY <1>1 DEF Calls, Calm, Shaped
  <2>2. Ages(host', host)
    BY <1>1, <1>3 DEF RecoveryFails, Ages, Alive, Processes
  <2>3. PICK rapid \in BOOLEAN :
          Becomes(IF s.dead THEN Finished(World, TRUE, rapid)
                  ELSE IF w.s.retiring # 0 THEN f ELSE Failing(w))
    BY <1>3, ProcessFacts DEF RecoveryFails
  <2> HIDE DEF w
  <2>4. Calls(f, w)
    BY <2>1 DEF Calls, Calm, Shaped
  <2> HIDE DEF f
  <2>5. Calls(f, World) /\ Calls(Failing(w), World)
    BY <2>1, <2>4, FailingCalls, CallsChain
  <2>6. s.dead => Calls(Finished(World, TRUE, rapid), World)
    BY <1>1, ProcessFacts, FinishedCalls DEF Calm
  <2> QED BY <2>2, <2>3, <2>5, <2>6, CallsSpare
<1> QED BY <1>2, <1>3

\* The first resync is answered.
LEMMA ResyncedSpares ==
    ASSUME LifeInv, LifeInv', Visited(World, host), NEW ok \in BOOLEAN, Resynced(ok)
    PROVE  Spared
<1> DEFINE a == IF ok /\ ~s.closing /\ ~s.dead /\ s.proc = act.host
                  THEN SnapshotAvailability(World) ELSE "unavailable"
           w == [World EXCEPT !.s.avail = a]
<1>1. PICK rapid \in BOOLEAN : Becomes(IF s.dead \/ s.proc # act.host THEN Superseded(w, rapid)
                                       ELSE Finished(w, TRUE, rapid))
  BY DEF Resynced
<1>2. Ages(host', host) /\ act.phase = "resync"
  BY StillAges DEF Resynced
<1> HIDE DEF a
<1>3. Same(w, World)
  BY LifeFacts DEF Same, Shaped
<1>4. Shaped(w) /\ w.s.proc = s.proc /\ Calm(w)
  BY <1>2, <1>3, ProcessFacts DEF Same, Calm
<1> HIDE DEF w
<1>5. Calls(Finished(w, TRUE, rapid), World)
  BY <1>3, <1>4, FinishedCalls, SameCalls, CallsChain
<1>6. s.dead \/ s.proc # act.host => Calls(Superseded(w, rapid), World)
  BY <1>2, <1>3, <1>4, ProcessFacts, SupersededCalls, SameCalls, CallsChain
<1> QED BY <1>1, <1>2, <1>5, <1>6, CallsSpare

\* Steps of processes: a failure, an exit, a boot that ends.
LEMMA FailureSpares ==
    ASSUME LifeInv, LifeInv', Visited(World, host), Unresponsive \/ Crash \/ Exit
    PROVE  Spared
<1>1. Shaped(World) /\ host \in Processes /\ s.proc \in 0 .. MaxHosts
  BY LifeFacts, ProcessFacts
<1>2. CASE Unresponsive
  <2>1. PICK rapid \in BOOLEAN, recon \in {FALSE, plan.retained} :
          Becomes(RuntimeFailed(World, s.proc, FALSE, recon, rapid))
    BY <1>2 DEF Unresponsive
  <2>2. Ages(host', host)
    BY <1>1, <1>2 DEF Unresponsive, Ages, Processes
  <2> QED BY <1>1, <2>1, <2>2, RuntimeFailedCalls, CallsSpare
<1>3. CASE Crash
  <2>1. PICK rapid \in BOOLEAN, recon \in {FALSE, plan.retained} :
          Becomes(ExitHandled(World, s.proc, recon, rapid))
    BY <1>3 DEF Crash
  <2>2. Ages(host', host)
    BY <1>1, <1>3 DEF Crash, Ages, Processes
  <2> DEFINE x == [World EXCEPT !.s.proc = 0]
             y == RuntimeFailed(World, s.proc, TRUE, recon, rapid)
  <2>3. ExitHandled(World, s.proc, recon, rapid) \in {Failing(x), World, Finished(y, TRUE, rapid), y}
    BY DEF ExitHandled
  <2>4. Calls(x, World) /\ Shaped(x) /\ x.s.proc = 0
    BY <1>1 DEF Calls, Calm, Shaped
  <2>5. Calls(y, World) /\ y.s.proc = 0
    BY <1>1, RuntimeFailedCalls
  <2> HIDE DEF x, y
  <2>6. Shaped(y) /\ Calm(y)
    BY <2>5 DEF Calls, Calm
  <2>7. Calls(Failing(x), World) /\ Calls(Finished(y, TRUE, rapid), World)
    BY <2>4, <2>5, <2>6, FailingCalls, FinishedCalls, CallsChain
  <2>8. Calls(World, World)
    BY <1>1, SameCalls DEF Same
  <2> QED BY <2>1, <2>2, <2>3, <2>5, <2>7, <2>8, CallsSpare
<1>4. CASE Exit
  <2>1. PICK h \in Hosts : host[h] = "stopping" /\ s.retiring = h /\ host' = [host EXCEPT ![h] = "gone"]
                           /\ \E rapid \in BOOLEAN : Becomes(Retired(World, rapid))
    BY <1>4 DEF Exit
  <2>2. PICK rapid \in BOOLEAN : Becomes(Retired(World, rapid))
    BY <2>1
  <2>3. Ages(host', host) /\ World.s.proc = 0
    BY <1>1, <2>1, ProcessFacts, HostFacts DEF Ages, Processes
  <2> QED BY <1>1, <2>2, <2>3, RetiredCalls, CallsSpare
<1> QED BY <1>2, <1>3, <1>4

\* A process that has booted keeps its visit; it was not under release before.
LEMMA BootReadySpares ==
    ASSUME LifeInv, LifeInv', Visited(World, host), BootReady
    PROVE  Spared
<1>1. Shaped(World) /\ host \in Processes
  BY LifeFacts
<1> DEFINE x == [World EXCEPT !.act.phase = "recover"]
<1>2. host' = [host EXCEPT ![act.host] = "up"] /\ host[act.host] = "booting" /\ act.phase = "boot"
  BY DEF BootReady
<1>3. Becomes(x) \/ Becomes(Readied(World))
  BY DEF BootReady
<1>4. /\ s'.visit = s.visit /\ s'.proc = s.proc /\ s'.touched = s.touched
      /\ act'.phase # "prepare" /\ log' = log /\ release' = release
  <2> DEFINE y == Readied(World)
  <2>1. /\ x.s = s /\ x.act.phase = "recover" /\ x.log = log /\ x.release = release
    BY <1>1, ProcessFacts DEF Shaped
  <2>2. /\ y.s.visit = s.visit /\ y.s.proc = s.proc /\ y.s.touched = s.touched
        /\ y.act.phase = "resync" /\ y.log = log /\ y.release = release
    BY <1>1, ProcessFacts DEF Readied, Shaped
  <2> HIDE DEF x, y
  <2>3. CASE Becomes(x)
    BY <2>1, <2>3 DEF Becomes
  <2>4. CASE Becomes(y)
    BY <2>2, <2>4 DEF Becomes
  <2> QED BY <1>3, <2>3, <2>4 DEF x, y
<1>5. \A h \in Hosts : host'[h] = host[h] \/ (host[h] = "booting" /\ host'[h] = "up")
  BY <1>1, <1>2 DEF Processes
<1>6. release.phase \in {"probe", "permit"} => host'[release.host] = host[release.host]
  BY <1>1, <1>2 DEF Visited, World, Processes
<1>7. Visited(World', host')
  BY <1>4, <1>5, <1>6 DEF Visited, World
<1> QED BY <1>4, <1>7 DEF Spared

\* A new process belongs to the visit of its activation, and nobody has used it.
LEMMA SpawnSpares ==
    ASSUME LifeInv, LifeInv', Visited(World, host), Spawn
    PROVE  Spared
<1>1. /\ Shaped(World) /\ host \in Processes /\ log \in Logs /\ release \in Releases
      /\ LifecycleAssumption /\ plan \in Plans
  BY LifeFacts, LifecycleAssumption DEF LifeInv
<1>2. PICK h \in 1 .. plan.hosts :
        /\ Spawned = 1 .. (h - 1) /\ host' = [host EXCEPT ![h] = "booting"]
        /\ Becomes([World EXCEPT !.act.phase = "boot", !.act.host = h, !.s.proc = h,
                                 !.s.lock = TRUE, !.log.cwd[h] = s.checkout,
                                 !.log.visit[h] = act.visit])
  BY DEF Spawn
<1>3. act.phase = "prepare"
  BY DEF Spawn
<1>4. h \in Hosts /\ h # 0 /\ host[h] = "unborn"
  <2>1. h \in Hosts /\ h \notin Spawned
    BY <1>1, <1>2 DEF LifecycleAssumption, Hosts
  <2> QED BY <1>1, <2>1, HostFacts DEF Spawned
<1>5. /\ s'.visit = s.visit /\ s'.proc = h /\ s'.touched = s.touched /\ act'.phase = "boot"
      /\ release' = release /\ log'.used = log.used /\ log'.visit[h] = act.visit
  <2> DEFINE a == [World EXCEPT !.act.phase = "boot", !.act.host = h, !.s.proc = h, !.s.lock = TRUE]
             x == [a EXCEPT !.log.cwd[h] = s.checkout, !.log.visit[h] = act.visit]
             l == [log EXCEPT !.cwd[h] = s.checkout, !.visit[h] = act.visit]
  <2>1. /\ a.s.visit = s.visit /\ a.s.proc = h /\ a.s.touched = s.touched /\ a.act.phase = "boot"
        /\ a.release = release /\ a.log = log /\ DOMAIN a = DOMAIN World
    BY <1>1, ProcessFacts DEF Shaped
  <2>2. l.used = log.used /\ l.visit[h] = act.visit
    BY <1>1, <1>4 DEF Logs
  <2>3. Becomes(x)
    BY <1>2
  <2>4. x.s = a.s /\ x.act = a.act /\ x.release = a.release /\ x.log = l
    <3> HIDE DEF a
    <3>1. /\ "log" \in DOMAIN a
          /\ DOMAIN log = {"charged", "cwd", "visit", "used", "restarts", "owed"}
      BY <1>1, <2>1 DEF Shaped, Logs
    <3> HIDE DEF a
    <3>2. x = [a EXCEPT !.log = [[a.log EXCEPT !.cwd[h] = s.checkout] EXCEPT !.visit[h] = act.visit]]
      BY <3>1, <2>1
    <3>3. x.log = l
      BY <2>1, <3>1, <3>2
    <3> QED BY <2>1, <3>1, <3>2, <3>3
  <2> HIDE DEF a, x, l
  <2> QED BY <2>1, <2>2, <2>3, <2>4 DEF Becomes
<1>6. \A g \in Hosts : host'[g] = host[g] \/ (host[g] = "unborn" /\ host'[g] = "booting")
  BY <1>1, <1>2, <1>4 DEF Processes
<1>7. release.phase \in {"probe", "permit"} => host'[release.host] = host[release.host]
  BY <1>1, <1>2, <1>4 DEF Visited, World, Processes
<1>8. Visited(World', host')
  BY <1>3, <1>4, <1>5, <1>6, <1>7 DEF Visited, World
<1> QED BY <1>5, <1>8 DEF Spared

\* What the user does marks the visit and its process together.
LEMMA UseSpares ==
    ASSUME LifeInv, LifeInv', Visited(World, host), Interact \/ MoveStart
    PROVE  Spared
<1>1. /\ Shaped(World) /\ host \in Processes /\ log \in Logs /\ s.proc \in 0 .. MaxHosts
      /\ host' = host
  BY LifeFacts, ProcessFacts DEF Interact, MoveStart
<1>2. /\ s'.visit = s.visit /\ s'.proc = s.proc /\ s'.touched = (s.visit # None)
      /\ act' = act /\ release' = release /\ log'.visit = log.visit
      /\ log'.used = log.used \/ (s.proc # 0 /\ log'.used = [log.used EXCEPT ![s.proc] = TRUE])
  <2>1. CASE Interact
    BY <1>1, <2>1 DEF Interact, Becomes, Shaped, World
  <2>2. CASE MoveStart
    BY <1>1, <2>2 DEF MoveStart, Becomes, Shaped, World
  <2> QED BY <2>1, <2>2
<1>3. s.proc # 0 => host[s.proc] # "unborn"
  BY <1>1, LifeFacts DEF Core, Installed, World
<1>4. Visited(World', host')
  BY <1>1, <1>2, <1>3 DEF Visited, World, Logs
<1> QED BY <1>2, <1>4 DEF Spared

\* Steps that move what is shown, the flags of a close or of a visit, or give up
\* the process.
LEMMA QuietSpares ==
    ASSUME LifeInv, LifeInv', Visited(World, host),
           \/ \E a \in {"snapshot", "lost"} : Availability(a)
           \/ MoveRefused \/ Return \/ CloseStart \/ CloseDone
           \/ \E v \in Visits : TombExpires(v)
    PROVE  Spared
<1>1. Shaped(World) /\ Ages(host', host)
  BY LifeFacts, StillAges DEF Availability, MoveRefused, Return, CloseStart, CloseDone, TombExpires
<1>2. \E x : Becomes(x) /\ Same(x, World)
  <2>1. CASE \E a \in {"snapshot", "lost"} : Availability(a)
    <3>1. PICK b : Becomes([World EXCEPT !.s.avail = b])
      BY <2>1 DEF Availability
    <3> QED BY <1>1, <3>1 DEF Same, Shaped
  <2>2. CASE MoveRefused
    <3> DEFINE b == IF ~s.closing /\ s.ready /\ s.avail = "transitioning" THEN "available" ELSE s.avail
               x == [World EXCEPT !.move = Resting, !.s.fence = FALSE, !.s.avail = b]
    <3>1. Becomes(x) \/ Becomes(MoveEnded(World))
      BY <2>2, ProcessFacts DEF MoveRefused
    <3> HIDE DEF b
    <3>2. Same(x, World) /\ Same(MoveEnded(World), World)
      BY <1>1, SmallSame DEF Same, Shaped, Resting
    <3> HIDE DEF x
    <3> QED BY <3>1, <3>2
  <2>3. CASE Return
    BY <1>1, <2>3 DEF Return, Same, Shaped
  <2>4. CASE CloseStart
    <3> DEFINE x == [World EXCEPT !.s.closing = TRUE, !.close = "graceful"]
    <3>1. Becomes(x)
      BY <2>4 DEF CloseStart
    <3>2. Same(x, World)
      BY <1>1 DEF Same, Shaped
    <3> HIDE DEF x
    <3> QED BY <3>1, <3>2
  <2>5. CASE CloseDone
    BY <1>1, <2>5 DEF CloseDone, Same, Shaped
  <2>6. CASE \E v \in Visits : TombExpires(v)
    <3>1. PICK v : Becomes([World EXCEPT !.s.tombs = s.tombs \ {v}])
      BY <2>6, ProcessFacts DEF TombExpires
    <3> QED BY <1>1, <3>1 DEF Same, Shaped
  <2> QED BY <2>1, <2>2, <2>3, <2>4, <2>5, <2>6
<1> QED BY <1>1, <1>2, SameSpares

\* Moves, closes and finished releases give the process up.
LEMMA StopsSpare ==
    ASSUME LifeInv, LifeInv', Visited(World, host), MoveDetach \/ CloseSession \/ ReleaseDone
    PROVE  Spared
<1>1. Shaped(World) /\ host \in Processes /\ s.proc \in 0 .. MaxHosts
  BY LifeFacts, ProcessFacts
<1>2. CASE MoveDetach
  <2> DEFINE w == [World EXCEPT !.s.fence = FALSE, !.s.proc = 0, !.s.ready = FALSE,
                                !.s.retiring = s.proc, !.move.phase = "retire"]
  <2>1. PICK rapid \in BOOLEAN : Becomes(Retired(w, rapid)) \/ Becomes(w)
    BY <1>2 DEF MoveDetach
  <2>2. Ages(host', host)
    <3>1. s.proc # 0 => host[s.proc] # "unborn"
      BY LifeFacts DEF Core, Installed, World
    <3> QED BY <1>1, <1>2, <3>1, HostFacts DEF MoveDetach, Ages, Processes
  <2>3. Calls(w, World) /\ Shaped(w) /\ w.s.proc = 0
    BY <1>1 DEF Calls, Calm, Shaped
  <2> HIDE DEF w
  <2>4. Calls(Retired(w, rapid), World)
    BY <2>3, RetiredCalls, CallsChain
  <2> QED BY <2>1, <2>2, <2>3, <2>4, CallsSpare
<1>3. CASE CloseSession
  <2> DEFINE running == s.proc # 0 /\ Alive(s.proc)
             f == CloseFences(World)
             w == [f EXCEPT !.s.retiring = IF running THEN s.proc ELSE f.s.retiring]
             r == [w EXCEPT !.close = "retire"]
             u == [w EXCEPT !.close = "unlock", !.s.lock = FALSE]
  <2>1. Becomes(r) \/ Becomes(u)
    BY <1>3 DEF CloseSession
  <2>2. Ages(host', host)
    BY <1>1, <1>3 DEF CloseSession, Ages, Alive, Processes
  <2>3. Calls(f, World) /\ Shaped(f)
    BY <1>1 DEF CloseFences, Calls, Calm, Shaped
  <2> HIDE DEF f
  <2>4. Same(w, f) /\ Shaped(w)
    BY <2>3 DEF Same, Shaped
  <2> HIDE DEF w
  <2>5. Same(r, w) /\ Same(u, w)
    BY <2>4 DEF Same, Shaped
  <2> HIDE DEF r, u
  <2>6. Calls(r, World) /\ Calls(u, World)
    BY <2>3, <2>4, <2>5, SameCalls, CallsChain
  <2> QED BY <2>1, <2>2, <2>6, CallsSpare
<1>4. CASE ReleaseDone
  <2> DEFINE x == [World EXCEPT !.release = NoRelease, !.s.status = "cold", !.s.avail = "unavailable"]
  <2>1. Becomes(x) /\ Ages(host', host) /\ s.proc = 0
    BY <1>4, ProcessFacts, StillAges DEF ReleaseDone
  <2>2. Calls(x, World)
    BY <1>1, <2>1, ProcessFacts DEF Calls, Calm, Shaped, NoRelease
  <2> HIDE DEF x
  <2> QED BY <2>1, <2>2, CallsSpare
<1> QED BY <1>2, <1>3, <1>4

\* A release that is given up, at once or later, forgets the visit or leaves it alone.
LEMMA AbandonedSpares ==
    ASSUME LifeInv, LifeInv', Visited(World, host), host' = host,
           NEW w, Shaped(w), w.s = s, w.act = act, w.log = log, Becomes(Abandoned(w))
    PROVE  Spared
<1> DEFINE a == Abandoned(w)
<1>1. /\ a.s.proc = s.proc /\ a.act = act /\ a.log = log /\ a.release.phase = "none"
      /\ a.s.visit = None \/ (a.s.visit = s.visit /\ a.s.touched = s.touched)
  BY DEF Abandoned, Shaped, NoRelease
<1> HIDE DEF a
<1>2. /\ s'.proc = s.proc /\ act' = act /\ log' = log /\ release'.phase = "none"
      /\ s'.visit = None \/ (s'.visit = s.visit /\ s'.touched = s.touched)
  BY <1>1 DEF Becomes, a
<1> QED BY <1>2 DEF Spared, Visited, World

\* Each step of a release asks again what the step before it found.
LEMMA ReleaseSpares ==
    ASSUME LifeInv, LifeInv', Visited(World, host),
           \/ \E v \in Visits : Release(v)
           \/ ReleaseProbes \/ ReleaseAdmits \/ ReleaseRefused
    PROVE  Spared
<1>1. Shaped(World) /\ Core(World, host) /\ host' = host
  BY LifeFacts DEF Release, ReleaseProbes, ReleaseAdmits, ReleaseRefused
<1>2. CASE \E v \in Visits : Release(v)
  <2> PICK v \in Visits : Release(v)
    BY <1>2
  <2> DEFINE w == [World EXCEPT !.release = [phase |-> "wait", visit |-> v, host |-> 0]]
             t == [World EXCEPT !.s.tombs = s.tombs \cup {v}]
  <2>1. Becomes(w) \/ Becomes(Abandoned(w)) \/ Becomes(t)
    BY ProcessFacts DEF Release
  <2>2. v # None
    BY LifecycleAssumption DEF LifeInv, Visits
  <2>3. Same(t, World) /\ Ages(host', host)
    BY <1>1, StillAges DEF Same, Shaped
  <2>4. /\ w.s = s /\ w.act = act /\ w.log = log /\ w.release.phase = "wait" /\ w.release.visit = v
        /\ Shaped(w)
    BY <1>1, ProcessFacts DEF Shaped
  <2> HIDE DEF w, t
  <2>5. CASE Becomes(w)
    <3>1. s' = s /\ act' = act /\ log' = log /\ release'.phase = "wait" /\ release'.visit = v
      BY <2>4, <2>5 DEF Becomes
    <3> QED BY <1>1, <2>2, <3>1 DEF Spared, Visited, World
  <2>6. CASE Becomes(Abandoned(w))
    BY <1>1, <2>4, <2>6, AbandonedSpares
  <2>7. CASE Becomes(t)
    BY <2>3, <2>7, SameSpares
  <2> QED BY <2>1, <2>5, <2>6, <2>7
<1>3. CASE ReleaseProbes
  <2>1. CASE Becomes(Abandoned(World))
    BY <1>1, <2>1, ProcessFacts, AbandonedSpares
  <2>2. CASE ~Becomes(Abandoned(World))
    <3>1. /\ Becomes([World EXCEPT !.release.phase = "probe", !.release.host = s.proc])
          /\ s.proc # 0 /\ act = NoAct /\ release.phase = "wait"
      BY <1>3, <2>2 DEF ReleaseProbes
    <3>2. host[s.proc] \in {"up", "gone"} /\ release.phase = "wait"
      BY <1>1, <3>1 DEF Core, Installed, World, NoAct
    <3>3. /\ s' = s /\ act' = act /\ log' = log
          /\ release'.phase = "probe" /\ release'.host = s.proc /\ release'.visit = release.visit
      BY <1>1, <3>1 DEF Becomes, Shaped, World
    <3> QED BY <1>1, <3>2, <3>3 DEF Spared, Visited, World
  <2> QED BY <2>1, <2>2
<1>4. CASE ReleaseAdmits
  <2>1. CASE Becomes(Abandoned(World))
    BY <1>1, <2>1, ProcessFacts, AbandonedSpares
  <2>2. CASE ~Becomes(Abandoned(World))
    <3>1. PICK b : Becomes([World EXCEPT !.release.phase = "permit", !.s.avail = b])
      BY <1>4, <2>2 DEF ReleaseAdmits
    <3>2. s.visit = release.visit /\ host[release.host] = "up" /\ release.phase = "probe"
      BY <1>4, <2>2 DEF ReleaseAdmits, StillUnused, World
    <3>3. /\ s'.proc = s.proc /\ s'.visit = s.visit /\ s'.touched = s.touched
          /\ act' = act /\ log' = log
          /\ release'.phase = "permit" /\ release'.host = release.host
          /\ release'.visit = release.visit
      BY <1>1, <3>1 DEF Becomes, Shaped, World
    <3> QED BY <1>1, <3>2, <3>3 DEF Spared, Visited, World
  <2> QED BY <2>1, <2>2
<1>5. CASE ReleaseRefused
  BY <1>1, <1>5, ProcessFacts, AbandonedSpares DEF ReleaseRefused
<1> QED BY <1>2, <1>3, <1>4, <1>5

\* The process that is stopped is the visit's own, and nobody has touched it: a
\* living process is the installed one, and a mark on it marks the visit.
LEMMA ReleaseDetachSpares ==
    ASSUME LifeInv, LifeInv', Visited(World, host), ReleaseDetach
    PROVE  Spared
<1>1. /\ Shaped(World) /\ Core(World, host) /\ host \in Processes /\ release \in Releases
      /\ release.phase = "permit" /\ host[release.host] = "up"
  BY LifeFacts DEF ReleaseDetach
<1>2. CASE ~Releasable(World)
  BY <1>1, <1>2, ProcessFacts, AbandonedSpares DEF ReleaseDetach
<1>3. CASE Releasable(World)
  <2>1. /\ host' = [host EXCEPT ![release.host] = "stopping"]
        /\ Becomes([World EXCEPT !.release.phase = "retire", !.s.visit = None, !.s.proc = 0,
                                 !.s.ready = FALSE, !.s.retiring = release.host])
    BY <1>3 DEF ReleaseDetach
  <2>2. s'.visit = None /\ act' = act /\ log' = log /\ release'.phase = "retire"
    BY <1>1, <2>1 DEF Becomes, Shaped, World
  <2>3. release.host \in Hosts /\ release.host = s.proc
    <3>1. release.host \in Hosts
      BY <1>1, HostFacts DEF Core, Shown, World, Releases
    <3> QED BY <1>1, <3>1, HostFacts DEF Core, Placed, Lives, World
  <2>4. Visited(World', host')
    BY <1>1, <2>1, <2>2 DEF Visited, World, Processes
  <2>5. s.visit = release.visit /\ ~s.touched
    BY <1>1, <1>3 DEF Visited, World, Releasable
  <2>6. s.visit # None /\ s.proc # 0
    BY <1>1, <2>3, <2>5, HostFacts DEF Visited, World
  <2> QED BY <2>3, <2>4, <2>5, <2>6 DEF Spared, Visited, World
<1> QED BY <1>2, <1>3

\* The same for every step.
LEMMA StepSpares ==
    ASSUME LifeInv, Visited(World, host), [Next]_vars
    PROVE  Spared
<1>0. LifeInv'
  BY LifeStep
<1>1. CASE UNCHANGED vars
  <2>1. World' = World /\ host' = host /\ release' = release
    BY <1>1 DEF vars, World
  <2> QED BY <2>1 DEF Spared
<1>2. CASE \E v \in Visits \cup {None} : Activate(v)
  BY <1>0, <1>2, ActivateSpares
<1>3. CASE TimerFires
  BY <1>0, <1>3, TimerFiresSpares
<1>4. CASE Settle
  BY <1>0, <1>4, SpawnSpares, EndsSpare, BootReadySpares, RecoverySpares, ResyncedSpares DEF Settle
<1>5. CASE Unresponsive \/ Crash \/ Exit
  BY <1>0, <1>5, FailureSpares
<1>6. CASE \/ \E a \in {"snapshot", "lost"} : Availability(a)
           \/ MoveRefused \/ Return \/ CloseStart \/ CloseDone
           \/ \E v \in Visits : TombExpires(v)
  BY <1>0, <1>6, QuietSpares
<1>7. CASE MoveStart \/ Interact
  BY <1>0, <1>7, UseSpares
<1>8. CASE MoveDetach \/ CloseSession \/ ReleaseDone
  BY <1>0, <1>8, StopsSpare
<1>9. CASE (\E v \in Visits : Release(v)) \/ ReleaseProbes \/ ReleaseAdmits \/ ReleaseRefused
  BY <1>0, <1>9, ReleaseSpares
<1>10. CASE ReleaseDetach
  BY <1>0, <1>10, ReleaseDetachSpares
<1>11. CASE Finish
  BY <1>1, <1>11 DEF Finish
<1> QED
  BY <1>1, <1>2, <1>3, <1>4, <1>5, <1>6, <1>7, <1>8, <1>9, <1>10, <1>11 DEF Next

\* A visit owns only the process its own activation forked, and the release of a
\* visit stops only that process, and only if the user has never touched it since
\* it was forked, whatever crashes, restarts, moves and returns come between the
\* probe, the permit and the stop (releaseActivationVisit, markVisitInteracted).
THEOREM VisitsAreSparing == Spec => VisitsSpareOthers
<1> DEFINE V == LifeInv /\ Visited(World, host)
           R == release.phase = "permit" /\ release'.phase = "retire" =>
                  /\ release.host = s.proc /\ log.visit[s.proc] = release.visit
                  /\ ~log.used[s.proc]
<1>1. Init => V
  <2> SUFFICES ASSUME Init PROVE V
    OBVIOUS
  <2>1. s.proc = 0 /\ act.phase = "none" /\ release.phase = "none" /\ \A h \in Hosts : ~log.used[h]
    BY DEF Init, NoAct, NoRelease
  <2> QED BY <2>1, InitGood DEF Visited, World
<1>2. V /\ [Next]_vars => V'
  <2> SUFFICES ASSUME V, [Next]_vars PROVE V'
    OBVIOUS
  <2>1. LifeInv' /\ Spared
    BY LifeStep, StepSpares
  <2>2. (Visited(World, host))'
    BY <2>1 DEF Spared, Visited, World
  <2> QED BY <2>1, <2>2
<1>3. V /\ [Next]_vars => [R]_vars
  BY StepSpares DEF Spared
<1>4. V => VisitOwnsItsHost
  BY DEF Visited, World, VisitOwnsItsHost
<1> QED
  BY <1>1, <1>2, <1>3, <1>4, PTL DEF Spec, VisitsSpareOthers, ReleaseSparesUsed

=============================================================================
