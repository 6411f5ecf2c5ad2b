-------------------------- MODULE SessionLocksProofs --------------------------
(***************************************************************************)
(* The locks of session files, for any number of sessions, files, hosts    *)
(* and transitions, with or without rivals, as long as no two sessions can *)
(* come to the same file (FilesApart).  Without that hypothesis a session  *)
(* can lose its lock to another one, as the run locks_shared shows.        *)
(***************************************************************************)
EXTENDS SessionLocks, TLAPS, FiniteSetTheorems

\* The files that record r may come to have.
Reach(r) == (Openings[r] \ {None}) \cup Targets[r]
FilesApart == \A r, q \in Records : r # q => Reach(r) \cap Reach(q) = {}

(***************************************************************************)
(* The inductive invariant.  Its record part says of each record x by      *)
(* itself what its fields have to do with one another; the rest relates    *)
(* the records to the routing map, to the acquisitions in flight and to    *)
(* the files.                                                              *)
(***************************************************************************)
Steps == {"idle", "asks", "prepare", "run", "denied", "successor", "commit", "refused", "lost"}
Recs ==
    [known : {"unopened", "open", "closed"}, status : {"cold", "starting", "ready", "failed"},
     file : Files \cup {None}, hasLock : BOOLEAN, lockPath : Files \cup {None},
     token : 0..MaxTokens, tlock : Reservations \cup {None}, trans : 0..MaxTransitions,
     tid : 0..MaxTransitions, dead : BOOLEAN, comp : BOOLEAN, proc : Nat, hosts : Nat,
     ready : BOOLEAN, phase : {"idle", "locking", "starting", "failing"}, retiring : BOOLEAN,
     restart : BOOLEAN, close : {"no", "waiting", "released"}, reserved : BOOLEAN, step : Steps,
     target : Files \cup {None}]
Acquisitions ==
    [r : Records, role : Roles, path : Files, tid : 0..MaxTransitions, host : Nat,
     stage : {"mkdir", "probe"}]

\* A record has to do with its own files only.
Within(r, x) ==
    /\ {x.file, x.lockPath, x.target} \subseteq Reach(r) \cup {None}
    /\ x.tlock # None => x.tlock.target \in Reach(r) \cup {None}

\* The primary lock is that of the session's file; one that is still to be
\* taken is not held, and no host runs before it.
Locking(x) ==
    /\ x.hasLock <=> x.lockPath # None
    /\ x.hasLock => x.file = x.lockPath
    /\ x.phase = "locking" => ~x.hasLock /\ x.proc = 0 /\ ~x.retiring

\* A host is the last one that was started, of a record that is alive.
Hosting(x) ==
    /\ x.proc # 0 =>
         /\ x.proc = x.hosts /\ ~x.dead /\ ~x.retiring
         /\ x.phase = (IF x.ready THEN "idle" ELSE "starting")
    /\ x.ready => x.proc # 0
    /\ x.comp => x.dead
    /\ x.close # "no" => x.dead

\* A transition lock is the one of the transition under way, and an acquired
\* one never is the lock that the transition started from.
Replacing(x) ==
    /\ x.step # "idle" => x.ready /\ x.trans = x.tid /\ x.tid > 0
    /\ x.step \in {"idle", "asks"} => x.dead \/ x.tlock = None
    /\ x.step \notin {"idle", "asks"} => x.tlock # None
    /\ x.tlock # None =>
         /\ x.tlock.tid = x.tid /\ x.trans = x.tid /\ x.tid > 0
         /\ x.tlock.old = x.lockPath /\ x.phase = "idle"
         /\ x.tlock.token # 0 =>
              x.tlock.locked /\ x.tlock.target # None /\ x.tlock.target # x.tlock.old

\* A record that is not open has nothing, nor has one whose close has released,
\* and only one that has been opened can have been fenced.
Bare(x) == x.proc = 0 /\ ~x.hasLock /\ x.tlock = None
Ended(x) ==
    /\ x.close = "released" => Bare(x)
    /\ x.known # "open" => Bare(x) /\ ~x.retiring
    /\ x.known = "unopened" => ~x.comp

Sound(r, x) == Within(r, x) /\ Locking(x) /\ Hosting(x) /\ Replacing(x) /\ Ended(x)

\* The routing map has the file of an open record, and no other.
Routed(r, x, route) ==
    \A f \in Files : route[f] = r <=> x.known = "open" /\ f = x.file

\* What an acquisition in flight tells of its record x.
Started(o, x) ==
    /\ x.known = "open" /\ x.close # "released" /\ o.path \in Reach(o.r)
    /\ o.host <= x.hosts /\ o.tid <= x.tid
    /\ o.role = "primary" => x.phase = "locking" /\ o.path = x.file
    /\ o.role = "initial" =>
         /\ o.host # 0
         /\ o.host = x.proc => ~x.ready /\ x.file = None /\ x.reserved
    /\ o.role = "successor" =>
         /\ x.tlock # None /\ x.tlock.tid = o.tid => x.tlock.target = o.path /\ o.path # x.tlock.old
         /\ x.step = "asks" => o.tid < x.tid

\* Of the acquisitions that would give x its first lock there is one at most.
First(o, x) == o.role = "primary" \/ (o.role = "initial" /\ o.host = x.proc)

Flights ==
    /\ ops \subseteq Acquisitions /\ IsFiniteSet(ops)
    /\ tokens \in Nat /\ tokens + Cardinality(ops) <= MaxTokens
    /\ \A o \in ops : Started(o, rec[o.r])
    /\ \A o, q \in ops :
         o.r = q.r /\ o.role = q.role /\ First(o, rec[o.r]) /\ First(q, rec[q.r]) => o = q

\* A lock directory of ours is there for one reason: it is listed, being removed
\* or just made.
Probed(f) == \E o \in ops : o.stage = "probe" /\ o.path = f
Slot(f) ==
    /\ dir[f] = "ours" <=> watched[f] # None \/ leaving[f] # None \/ Probed(f)
    /\ watched[f] # None => leaving[f] = None /\ ~Probed(f)
    /\ leaving[f] # None => ~Probed(f)
    /\ \A o, q \in ops : o.stage = "probe" /\ q.stage = "probe" /\ o.path = f /\ q.path = f => o = q

\* Record x has f as its primary or its successor lock, under identity w.
Holder(x, f, w) ==
    \/ x.hasLock /\ x.lockPath = f /\ x.token = w.token
    \/ /\ x.tlock # None /\ x.tlock.target = f /\ x.tlock.token = w.token
       /\ x.tlock.locked /\ w.role = "successor" /\ x.tlock.tid = w.tid

\* What the library lists has a holder, and no identity comes back.
Watching(f) ==
    /\ watched[f] # None =>
         /\ f \in Reach(watched[f].r) /\ rec[watched[f].r].known = "open"
         /\ Holder(rec[watched[f].r], f, watched[f])
         /\ watched[f].token <= tokens
    /\ late[f] # None =>
         late[f].token <= tokens /\ (watched[f] # None => watched[f].token # late[f].token)

\* Record x believes that it holds f with token t.
Claim(x, f, t) ==
    \/ x.hasLock /\ f = x.lockPath /\ t = x.token
    \/ x.tlock # None /\ x.tlock.token # 0 /\ f = x.tlock.target /\ t = x.tlock.token

\* What a record believes is true, unless a loss has fenced it.
Held(r) ==
    ~rec[r].comp =>
        \A f \in Files, t \in 0..MaxTokens :
            Claim(rec[r], f, t) => watched[f] # None /\ watched[f].r = r /\ watched[f].token = t

Shape ==
    /\ rec \in [Records -> Recs]
    /\ byFile \in [Files -> Records \cup {None}]
    /\ dir \in [Files -> {"free", "ours", "rival"}]
    /\ watched \in [Files -> Identities \cup {None}] /\ late \in [Files -> Identities \cup {None}]
    /\ leaving \in [Files -> Records \cup {None}]

RecordsFit == \A r \in Records : Sound(r, rec[r]) /\ Routed(r, rec[r], byFile)
Disk == (\A f \in Files : Slot(f) /\ Watching(f)) /\ (\A r \in Records : Held(r))

LocksInv == Shape /\ RecordsFit /\ Flights /\ Disk
-----------------------------------------------------------------------------
(***************************************************************************)
(* What a step keeps of the records, the routing map and the acquisitions. *)
(* Each lemma speaks of a step that changes record r, from rec[r] to y.    *)
(***************************************************************************)

(* The records, when the changed one is sound. *)
LEMMA RecordsKeep ==
    ASSUME LocksInv, NEW r \in Records, NEW y \in Recs, rec' = [rec EXCEPT ![r] = y],
           Sound(r, y)
    PROVE  /\ rec' \in [Records -> Recs] /\ rec'[r] = y
           /\ \A q \in Records : q # r => rec'[q] = rec[q]
           /\ \A q \in Records : Sound(q, rec'[q])
<1>1. rec \in [Records -> Recs]
  BY DEF LocksInv, Shape
<1>2. rec' \in [Records -> Recs] /\ rec'[r] = y /\ \A q \in Records : q # r => rec'[q] = rec[q]
  BY <1>1
<1>3. \A q \in Records : Sound(q, rec'[q])
  BY <1>2 DEF LocksInv, RecordsFit
<1> QED BY <1>2, <1>3

(* The routes, when the record keeps its file. *)
LEMMA RoutesKeep ==
    ASSUME LocksInv, NEW r \in Records, NEW y, rec'[r] = y,
           \A q \in Records : q # r => rec'[q] = rec[q],
           byFile' = byFile, y.known = rec[r].known, y.file = rec[r].file
    PROVE  \A q \in Records : Routed(q, rec'[q], byFile')
BY DEF LocksInv, RecordsFit, Routed

(* An acquisition is in flight at one record. *)
LEMMA FlightFacts ==
    ASSUME LocksInv
    PROVE  /\ ops \subseteq Acquisitions /\ IsFiniteSet(ops) /\ tokens \in Nat
           /\ Cardinality(ops) \in Nat /\ tokens + Cardinality(ops) <= MaxTokens
           /\ MaxTokens \in Nat
           /\ \A o \in ops : /\ o.r \in Records /\ o.path \in Files /\ o.host \in Nat
                             /\ o.tid \in 0..MaxTransitions
                             /\ Started(o, rec[o.r])
                             /\ tokens + 1 <= MaxTokens
<1>1. /\ ops \subseteq Acquisitions /\ IsFiniteSet(ops) /\ tokens \in Nat
      /\ tokens + Cardinality(ops) <= MaxTokens /\ \A o \in ops : Started(o, rec[o.r])
  BY DEF LocksInv, Flights
<1>2. Cardinality(ops) \in Nat /\ (ops # {} => Cardinality(ops) # 0)
  BY <1>1, FS_CardinalityType, FS_EmptySet
<1>3. MaxTokens \in Nat
  BY LocksAssumption DEF LocksAssumption
<1>4. ASSUME NEW o \in ops
      PROVE  /\ o.r \in Records /\ o.path \in Files /\ o.host \in Nat
             /\ o.tid \in 0..MaxTransitions /\ tokens + 1 <= MaxTokens
  BY <1>1, <1>2, <1>3 DEF Acquisitions
<1> QED BY <1>1, <1>2, <1>3, <1>4

(* The acquisitions, when none is added: the ones that stay go on being     *)
(* what their record expects.                                              *)
LEMMA FlightsKeep ==
    ASSUME LocksInv, NEW r \in Records, NEW y \in Recs, rec'[r] = y,
           \A q \in Records : q # r => rec'[q] = rec[q],
           \/ ops' = ops /\ tokens' = tokens
           \/ \E o \in ops : ops' = ops \ {o} /\ tokens' \in {tokens, tokens + 1},
           y.proc \in {0, rec[r].proc, rec[r].hosts + 1},
           \A o \in ops' : o.r = r => Started(o, y)
    PROVE  Flights'
<1>1. /\ ops \subseteq Acquisitions /\ IsFiniteSet(ops) /\ tokens \in Nat /\ MaxTokens \in Nat
      /\ Cardinality(ops) \in Nat /\ tokens + Cardinality(ops) <= MaxTokens
      /\ \A o \in ops : o.r \in Records /\ o.host \in Nat /\ Started(o, rec[o.r])
  BY FlightFacts
<1>2. rec[r] \in Recs
  BY DEF LocksInv, Shape
<1>3. /\ ops' \subseteq ops /\ IsFiniteSet(ops') /\ tokens' \in Nat
      /\ tokens' + Cardinality(ops') <= MaxTokens
  <2>1. CASE ops' = ops /\ tokens' = tokens
    BY <1>1, <2>1
  <2>2. CASE \E o \in ops : ops' = ops \ {o} /\ tokens' \in {tokens, tokens + 1}
    <3>1. PICK o \in ops : ops' = ops \ {o} /\ tokens' \in {tokens, tokens + 1}
      BY <2>2
    <3>2. IsFiniteSet(ops \ {o}) /\ Cardinality(ops \ {o}) = Cardinality(ops) - 1
      BY <1>1, FS_RemoveElement
    <3> QED BY <1>1, <3>1, <3>2
  <2> QED BY <2>1, <2>2
<1>4. \A o \in ops' : Started(o, rec'[o.r])
  BY <1>1, <1>3
<1>5. ASSUME NEW o \in ops', First(o, rec'[o.r]) PROVE First(o, rec[o.r])
  <2>1. CASE o.r = r
    <3>1. o.role = "initial" => o.host # 0 /\ o.host <= rec[r].hosts
      BY <1>1, <1>3, <2>1 DEF Started
    <3>2. rec[r].hosts \in Nat /\ o.host \in Nat
      BY <1>1, <1>2, <1>3 DEF Recs
    <3> QED BY <1>5, <2>1, <3>1, <3>2 DEF First
  <2>2. CASE o.r # r
    BY <1>1, <1>3, <1>5, <2>2
  <2> QED BY <2>1, <2>2
<1>6. ASSUME NEW o \in ops', NEW q \in ops', o.r = q.r, o.role = q.role,
             First(o, rec'[o.r]), First(q, rec'[q.r])
      PROVE  o = q
  <2>1. First(o, rec[o.r]) /\ First(q, rec[q.r])
    BY <1>5, <1>6
  <2> QED BY <1>3, <1>6, <2>1 DEF LocksInv, Flights
<1> QED BY <1>1, <1>3, <1>4, <1>6 DEF Flights

(* The acquisitions, when record r starts one more. *)
LEMMA FlightsMore ==
    ASSUME LocksInv, NEW r \in Records, NEW y \in Recs, rec'[r] = y,
           \A q \in Records : q # r => rec'[q] = rec[q],
           NEW n \in Acquisitions, n.r = r, ops' = ops \cup {n}, tokens' = tokens, MayAcquire,
           y.proc = rec[r].proc, Started(n, y),
           \A o \in ops : o.r = r => Started(o, y),
           \A o \in ops : o.r = r /\ o.role = n.role => ~First(o, rec[r])
    PROVE  Flights'
<1>1. /\ ops \subseteq Acquisitions /\ IsFiniteSet(ops) /\ tokens \in Nat /\ MaxTokens \in Nat
      /\ Cardinality(ops) \in Nat /\ tokens + Cardinality(ops) <= MaxTokens
      /\ \A o \in ops : o.r \in Records /\ o.host \in Nat /\ Started(o, rec[o.r])
  BY FlightFacts
<1>2. IsFiniteSet(ops \cup {n}) /\ Cardinality(ops \cup {n}) <= Cardinality(ops) + 1
      /\ Cardinality(ops \cup {n}) \in Nat
  <2>1. /\ IsFiniteSet(ops \cup {n})
        /\ Cardinality(ops \cup {n}) = IF n \in ops THEN Cardinality(ops) ELSE Cardinality(ops) + 1
    BY <1>1, FS_AddElement, Zenon
  <2> QED BY <1>1, <2>1
<1>3. tokens + Cardinality(ops) < MaxTokens
  BY DEF MayAcquire
<1>4. ops' \subseteq Acquisitions /\ tokens' \in Nat /\ tokens' + Cardinality(ops') <= MaxTokens
  BY <1>1, <1>2, <1>3
<1>5. \A o \in ops' : Started(o, rec'[o.r])
  BY <1>1
<1>6. \A o \in ops : First(o, rec'[o.r]) <=> First(o, rec[o.r])
  BY <1>1 DEF First
<1>7. ASSUME NEW o \in ops', NEW q \in ops', o.r = q.r, o.role = q.role,
             First(o, rec'[o.r]), First(q, rec'[q.r])
      PROVE  o = q
  <2>1. CASE o \in ops /\ q \in ops
    <3>1. First(o, rec[o.r]) /\ First(q, rec[q.r])
      BY <1>6, <1>7, <2>1
    <3> QED BY <1>7, <2>1, <3>1 DEF LocksInv, Flights
  <2>2. CASE o = n /\ q \in ops
    BY <1>6, <1>7, <2>2
  <2>3. CASE q = n /\ o \in ops
    BY <1>6, <1>7, <2>3
  <2> QED BY <2>1, <2>2, <2>3
<1> QED BY <1>2, <1>4, <1>5, <1>7 DEF Flights

(***************************************************************************)
(* What a step keeps of the files: the lock directories, what the library  *)
(* lists, and what the records believe of it.                              *)
(***************************************************************************)

(* Two records do not have a file in common. *)
LEMMA Apart ==
    ASSUME LocksInv, FilesApart, NEW r \in Records, NEW f \in Files, f \in Reach(r),
           watched[f] # None
    PROVE  watched[f].r = r
BY DEF LocksInv, Shape, Disk, Watching, FilesApart, Identities

\* Record r changes to y and lets go of the paths U; of the files G it has lost
\* the directory.  What it still believes of a file it believed before and has
\* not let go of, and what stays listed for it is still its lock.
Parts(r, y, U, G, listed) ==
    /\ U \subseteq Reach(r) \cup {None} /\ G \subseteq Files
    /\ \A f \in Files : listed[f] = IF f \in G THEN None ELSE watched[f]
    /\ UnlockListed(r, U, listed) /\ tokens' = tokens
    /\ \A f \in Files : dir'[f] = IF f \in G THEN "rival" ELSE dir[f]
    /\ \A f \in G : watched[f] # None /\ watched[f].r = r
    /\ \A f \in Files \ (U \cup G) : watched[f] # None /\ watched[f].r = r =>
           Holder(y, f, watched[f]) /\ y.known = "open"
    /\ ~y.comp => \A f \in Files, t \in 0..MaxTokens :
           Claim(y, f, t) => ~rec[r].comp /\ Claim(rec[r], f, t) /\ f \notin U \cup G

\* No lock directory was made, or listed, in the step.
SameProbes == \A o : o \in ops /\ o.stage = "probe" <=> o \in ops' /\ o.stage = "probe"

(* Such a step keeps the files. *)
LEMMA DiskKeeps ==
    ASSUME LocksInv, FilesApart, NEW r \in Records, NEW y \in Recs, rec'[r] = y,
           \A q \in Records : q # r => rec'[q] = rec[q],
           NEW U, NEW G, NEW listed, Parts(r, y, U, G, listed), SameProbes
    PROVE  Disk'
<1> USE DEF Parts, SameProbes
<1>1. /\ watched \in [Files -> Identities \cup {None}] /\ late \in [Files -> Identities \cup {None}]
      /\ tokens \in Nat /\ \A f \in Files : Slot(f) /\ Watching(f)
      /\ \A q \in Records : Held(q)
  BY FlightFacts DEF LocksInv, Shape, Disk
<1> DEFINE V == {f \in U \cap Files : listed[f] # None}
<1>2. /\ watched' = [f \in Files |-> IF f \in V THEN None ELSE listed[f]]
      /\ leaving' = [f \in Files |-> IF f \in V THEN r ELSE leaving[f]]
      /\ late' = [f \in Files |-> IF f \in V THEN listed[f] ELSE late[f]]
  BY DEF UnlockListed
<1>3. \A f \in Files : /\ f \in V => f \notin G /\ watched[f] # None /\ watched[f].r = r
                       /\ f \in V <=> f \in U /\ f \notin G /\ watched[f] # None
  BY Apart, LocksAssumption DEF LocksAssumption
<1> HIDE DEF V
<1>4. r # None
  BY LocksAssumption DEF LocksAssumption
<1>5. ASSUME NEW f \in Files PROVE Slot(f)'
  <2>1. Probed(f)' <=> Probed(f)
    BY DEF Probed
  <2>2. Slot(f)
    BY <1>1
  <2>3. \A o, q \in ops' : o.stage = "probe" /\ q.stage = "probe" /\ o.path = f /\ q.path = f => o = q
    BY <2>2 DEF Slot
  <2>4. CASE f \in G
    BY <1>2, <1>3, <2>1, <2>2, <2>3, <2>4 DEF Slot
  <2>5. CASE f \in V
    BY <1>2, <1>3, <1>4, <2>1, <2>2, <2>3, <2>5 DEF Slot
  <2>6. CASE f \notin G /\ f \notin V
    BY <1>2, <1>3, <2>1, <2>2, <2>3, <2>6 DEF Slot
  <2> QED BY <2>4, <2>5, <2>6
<1>6. ASSUME NEW f \in Files PROVE Watching(f)'
  <2>1. Watching(f)
    BY <1>1
  <2>2. CASE f \in G
    BY <1>2, <1>3, <2>1, <2>2 DEF Watching
  <2>3. CASE f \in V
    BY <1>1, <1>2, <1>3, <2>1, <2>3 DEF Watching
  <2>4. CASE f \notin G /\ f \notin V
    <3>1. watched'[f] = watched[f] /\ late'[f] = late[f]
      BY <1>2, <2>4
    <3>2. CASE watched[f] # None /\ watched[f].r = r
      BY <1>3, <2>1, <2>4, <3>1, <3>2 DEF Watching
    <3>3. CASE watched[f] # None /\ watched[f].r # r
      <4>1. watched[f].r \in Records
        BY <1>1, <3>3 DEF Identities
      <4> QED BY <2>1, <3>1, <3>3, <4>1 DEF Watching
    <3>4. CASE watched[f] = None
      BY <2>1, <3>1, <3>4 DEF Watching
    <3> QED BY <3>2, <3>3, <3>4
  <2> QED BY <2>2, <2>3, <2>4
<1>7. ASSUME NEW q \in Records PROVE Held(q)'
  <2>1. Held(q)
    BY <1>1
  <2>2. CASE q = r
    BY <1>2, <1>3, <2>1, <2>2 DEF Held
  <2>3. CASE q # r
    BY <1>2, <1>3, <2>1, <2>3 DEF Held
  <2> QED BY <2>2, <2>3
<1> QED BY <1>5, <1>6, <1>7 DEF Disk

(* Record r changes to y as its acquisition o is listed. *)
LEMMA ListedKeeps ==
    ASSUME LocksInv, FilesApart, NEW o \in ops, o.stage = "probe", NEW y \in Recs, rec'[o.r] = y,
           \A q \in Records : q # o.r => rec'[q] = rec[q],
           ops' = ops \ {o}, Listed(o), y.known = "open",
           Holder(y, o.path, Identity(o)),
           \A f \in Files \ {o.path} : watched[f] # None /\ watched[f].r = o.r =>
               Holder(y, f, watched[f]),
           ~y.comp => ~rec[o.r].comp /\
               \A f \in Files, t \in 0..MaxTokens :
                   Claim(y, f, t) => \/ Claim(rec[o.r], f, t) /\ f # o.path
                                     \/ f = o.path /\ t = tokens + 1
    PROVE  Disk'
<1>1. /\ watched \in [Files -> Identities \cup {None}] /\ late \in [Files -> Identities \cup {None}]
      /\ \A f \in Files : Slot(f) /\ Watching(f)
      /\ \A q \in Records : Held(q)
  BY DEF LocksInv, Shape, Disk
<1>2. /\ o.r \in Records /\ o.path \in Files /\ o.path \in Reach(o.r) /\ tokens \in Nat
      /\ tokens + 1 <= MaxTokens
  BY FlightFacts DEF Started
<1> DEFINE w == Identity(o)
<1>3. w.r = o.r /\ w.token = tokens + 1
  BY DEF Identity
<1>4. w \in Identities /\ w # None
  <2>1. /\ o.role \in Roles /\ o.tid \in 0..MaxTransitions /\ MaxTokens \in Nat
    BY FlightFacts DEF Acquisitions
  <2> QED BY <1>2, <2>1, LocksAssumption DEF Identity, Identities, LocksAssumption
<1>5. /\ watched'[o.path] = w /\ \A f \in Files : f # o.path => watched'[f] = watched[f]
      /\ dir' = dir /\ leaving' = leaving /\ late' = late /\ tokens' = tokens + 1
  BY <1>1, <1>2 DEF Listed
<1>6. Slot(o.path) /\ Probed(o.path) /\ watched[o.path] = None
  BY <1>1, <1>2 DEF Slot, Probed
<1> HIDE DEF w
<1>7. ASSUME NEW f \in Files PROVE Slot(f)'
  <2>1. Slot(f)
    BY <1>1
  <2>2. CASE f = o.path
    <3>1. ~Probed(f)'
      BY <2>1, <2>2 DEF Probed, Slot
    <3> QED BY <1>4, <1>5, <1>6, <2>1, <2>2, <3>1 DEF Slot
  <2>3. CASE f # o.path
    <3>1. Probed(f)' <=> Probed(f)
      BY <2>3 DEF Probed
    <3> QED BY <1>5, <2>1, <2>3, <3>1 DEF Slot
  <2> QED BY <2>2, <2>3
<1>8. ASSUME NEW f \in Files PROVE Watching(f)'
  <2>1. Watching(f) /\ (watched[f] # None => watched[f].token \in Nat /\ watched[f].r \in Records)
        /\ (late[f] # None => late[f].token \in Nat)
    BY <1>1 DEF Identities
  <2>2. CASE f = o.path
    BY <1>2, <1>3, <1>4, <1>5, <2>1, <2>2 DEF Watching, w
  <2>3. CASE f # o.path
    BY <1>2, <1>5, <2>1, <2>3 DEF Watching
  <2> QED BY <2>2, <2>3
<1>9. ASSUME NEW q \in Records PROVE Held(q)'
  <2>1. Held(q)
    BY <1>1
  <2>2. CASE q = o.r
    BY <1>3, <1>4, <1>5, <2>1, <2>2 DEF Held
  <2>3. CASE q # o.r
    BY <1>5, <1>6, <2>1, <2>3 DEF Held
  <2> QED BY <2>2, <2>3
<1> QED BY <1>7, <1>8, <1>9 DEF Disk

(* Record r changes to y as its acquisition o is listed and undone at once. *)
LEMMA UndoneKeeps ==
    ASSUME LocksInv, NEW o \in ops, o.stage = "probe", NEW y \in Recs, rec'[o.r] = y,
           \A q \in Records : q # o.r => rec'[q] = rec[q],
           ops' = ops \ {o}, ListedThenUnlocked(o), y.known = rec[o.r].known,
           \A f \in Files : watched[f] # None /\ watched[f].r = o.r => Holder(y, f, watched[f]),
           ~y.comp => \A f \in Files, t \in 0..MaxTokens :
               Claim(y, f, t) => ~rec[o.r].comp /\ Claim(rec[o.r], f, t)
    PROVE  Disk'
<1>1. /\ watched \in [Files -> Identities \cup {None}] /\ late \in [Files -> Identities \cup {None}]
      /\ leaving \in [Files -> Records \cup {None}]
      /\ \A f \in Files : Slot(f) /\ Watching(f)
      /\ \A q \in Records : Held(q)
  BY DEF LocksInv, Shape, Disk
<1>2. o.r \in Records /\ o.path \in Files /\ tokens \in Nat
  BY FlightFacts
<1> DEFINE w == Identity(o)
<1>3. w.token = tokens + 1
  BY DEF Identity
<1>4. o.r # None
  BY <1>2, LocksAssumption DEF LocksAssumption
<1>5. /\ late'[o.path] = w /\ \A f \in Files : f # o.path => late'[f] = late[f]
      /\ leaving'[o.path] = o.r /\ \A f \in Files : f # o.path => leaving'[f] = leaving[f]
      /\ dir' = dir /\ watched' = watched /\ tokens' = tokens + 1
  BY <1>1, <1>2 DEF ListedThenUnlocked
<1>6. Slot(o.path) /\ Probed(o.path) /\ watched[o.path] = None
  BY <1>1, <1>2 DEF Slot, Probed
<1> HIDE DEF w
<1>7. ASSUME NEW f \in Files PROVE Slot(f)'
  <2>1. Slot(f)
    BY <1>1
  <2>2. CASE f = o.path
    <3>1. ~Probed(f)'
      BY <2>1, <2>2 DEF Probed, Slot
    <3> QED BY <1>4, <1>5, <1>6, <2>1, <2>2, <3>1 DEF Slot
  <2>3. CASE f # o.path
    <3>1. Probed(f)' <=> Probed(f)
      BY <2>3 DEF Probed
    <3> QED BY <1>5, <2>1, <2>3, <3>1 DEF Slot
  <2> QED BY <2>2, <2>3
<1>8. ASSUME NEW f \in Files PROVE Watching(f)'
  <2>1. Watching(f) /\ (watched[f] # None => watched[f].token \in Nat /\ watched[f].r \in Records)
        /\ (late[f] # None => late[f].token \in Nat)
    BY <1>1 DEF Identities
  <2>2. CASE f = o.path
    BY <1>2, <1>3, <1>5, <1>6, <2>2 DEF Watching
  <2>3. CASE f # o.path
    BY <1>2, <1>5, <2>1, <2>3 DEF Watching
  <2> QED BY <2>2, <2>3
<1>9. ASSUME NEW q \in Records PROVE Held(q)'
  <2>1. Held(q)
    BY <1>1
  <2> QED BY <1>5, <2>1 DEF Held
<1> QED BY <1>7, <1>8, <1>9 DEF Disk

(***************************************************************************)
(* Whole steps.  A record changes to one that is sound, no file is routed  *)
(* anew, and what it unlocks it no longer believes in.                     *)
(***************************************************************************)

\* Record x, which unlocks U, may become y: its other locks go on being its own.
Frees(r, x, y, U) ==
    /\ Bare(x) \/ y.known = x.known
    /\ U \subseteq Reach(r) \cup {None}
    /\ \A f \in Files \ U, w \in Identities : Holder(x, f, w) => Holder(y, f, w)
    /\ \A f \in Files, t \in 0..MaxTokens :
         Claim(y, f, t) => Claim(x, f, t) /\ f \notin U /\ (x.comp => y.comp)

\* And its file stays the same.
Yields(r, x, y, U) ==
    /\ y.known = x.known /\ y.file = x.file /\ y.proc \in {0, x.proc, x.hosts + 1}
    /\ Frees(r, x, y, U)

(* Such a step keeps the files. *)
LEMMA FreesKeeps ==
    ASSUME LocksInv, FilesApart, NEW r \in Records, NEW y \in Recs, NEW U, rec'[r] = y,
           \A q \in Records : q # r => rec'[q] = rec[q],
           Frees(r, rec[r], y, U), UnlockListed(r, U, watched), dir' = dir, tokens' = tokens,
           SameProbes
    PROVE  Disk'
<1>1. ASSUME NEW f \in Files \ U, watched[f] # None, watched[f].r = r
      PROVE  Holder(y, f, watched[f]) /\ y.known = "open"
  <2>1. Watching(f) /\ watched[f] \in Identities
    BY <1>1 DEF LocksInv, Disk, Shape
  <2> QED BY <1>1, <2>1 DEF Watching, Frees, Bare, Holder
<1>2. Parts(r, y, U, {}, watched)
  BY <1>1 DEF Parts, Frees
<1> QED BY <1>2, DiskKeeps

(* The whole step, when the files are routed as they should. *)
LEMMA RouteStep ==
    ASSUME LocksInv, FilesApart, NEW r \in Records, NEW y \in Recs, NEW U,
           rec' = [rec EXCEPT ![r] = y], Sound(r, y), Frees(r, rec[r], y, U),
           y.proc \in {0, rec[r].proc, rec[r].hosts + 1},
           \A q \in Records : Routed(q, rec'[q], byFile'), byFile' \in [Files -> Records \cup {None}],
           dir' = dir, tokens' = tokens, UnlockListed(r, U, watched),
           ops' = ops \/ \E o \in ops : o.stage # "probe" /\ ops' = ops \ {o},
           \A o \in ops' : o.r = r => Started(o, y)
    PROVE  LocksInv'
<1>1. /\ rec' \in [Records -> Recs] /\ rec'[r] = y
      /\ \A q \in Records : q # r => rec'[q] = rec[q]
      /\ \A q \in Records : Sound(q, rec'[q])
  BY RecordsKeep
<1>2. Flights'
  BY <1>1, FlightsKeep
<1>3. Disk'
  <2>1. SameProbes
    BY DEF SameProbes
  <2> QED BY <1>1, <2>1, FreesKeeps
<1>4. Shape'
  <2>1. /\ watched \in [Files -> Identities \cup {None}] /\ late \in [Files -> Identities \cup {None}]
        /\ leaving \in [Files -> Records \cup {None}]
        /\ dir \in [Files -> {"free", "ours", "rival"}]
    BY DEF LocksInv, Shape
  <2>2. /\ watched' \in [Files -> Identities \cup {None}] /\ late' \in [Files -> Identities \cup {None}]
        /\ leaving' \in [Files -> Records \cup {None}]
    BY <2>1 DEF UnlockListed
  <2> QED BY <1>1, <2>1, <2>2 DEF Shape
<1> QED BY <1>1, <1>2, <1>3, <1>4 DEF LocksInv, RecordsFit

(* The same, when they are routed as before. *)
LEMMA RecordStep ==
    ASSUME LocksInv, FilesApart, NEW r \in Records, NEW y \in Recs, NEW U,
           rec' = [rec EXCEPT ![r] = y], Sound(r, y), Yields(r, rec[r], y, U),
           byFile' = byFile, dir' = dir, tokens' = tokens, UnlockListed(r, U, watched),
           ops' = ops \/ \E o \in ops : o.stage # "probe" /\ ops' = ops \ {o},
           \A o \in ops' : o.r = r => Started(o, y)
    PROVE  LocksInv'
<1>1. /\ rec'[r] = y /\ \A q \in Records : q # r => rec'[q] = rec[q]
  BY RecordsKeep
<1>2. \A q \in Records : Routed(q, rec'[q], byFile')
  BY <1>1, RoutesKeep DEF Yields
<1>3. byFile' \in [Files -> Records \cup {None}]
  BY DEF LocksInv, Shape
<1>4. Frees(r, rec[r], y, U) /\ y.proc \in {0, rec[r].proc, rec[r].hosts + 1}
  BY DEF Yields
<1> QED BY <1>2, <1>3, <1>4, RouteStep

(* The files do not change at all: nothing is unlocked. *)
LEMMA NothingUnlocked ==
    ASSUME LocksInv, NEW r \in Records, DiskUnchanged
    PROVE  UnlockListed(r, {}, watched) /\ dir' = dir /\ tokens' = tokens
<1>1. /\ watched = [f \in Files |-> watched[f]] /\ late = [f \in Files |-> late[f]]
      /\ leaving = [f \in Files |-> leaving[f]]
  BY DEF LocksInv, Shape
<1> QED BY <1>1 DEF UnlockListed, DiskUnchanged

(* The record starts an acquisition. *)
LEMMA AcquireStep ==
    ASSUME LocksInv, FilesApart, NEW r \in Records, NEW y \in Recs, NEW n \in Acquisitions,
           rec' = [rec EXCEPT ![r] = y], Sound(r, y), Yields(r, rec[r], y, {}),
           byFile' = byFile, DiskUnchanged, MayAcquire,
           n.r = r, n.stage = "mkdir", ops' = ops \cup {n}, y.proc = rec[r].proc, Started(n, y),
           \A o \in ops : o.r = r => Started(o, y),
           \A o \in ops : o.r = r /\ o.role = n.role => ~First(o, rec[r])
    PROVE  LocksInv'
<1>1. /\ rec' \in [Records -> Recs] /\ rec'[r] = y
      /\ \A q \in Records : q # r => rec'[q] = rec[q]
      /\ \A q \in Records : Sound(q, rec'[q])
  BY RecordsKeep
<1>2. \A q \in Records : Routed(q, rec'[q], byFile')
  BY <1>1, RoutesKeep DEF Yields
<1>3. Flights'
  BY <1>1, FlightsMore DEF DiskUnchanged
<1>4. Disk'
  <2>1. SameProbes
    BY DEF SameProbes
  <2>2. UnlockListed(r, {}, watched) /\ dir' = dir /\ tokens' = tokens
    BY NothingUnlocked
  <2> QED BY <1>1, <2>1, <2>2, FreesKeeps DEF Yields
<1>5. Shape'
  BY <1>1 DEF LocksInv, Shape, DiskUnchanged
<1> QED BY <1>1, <1>2, <1>3, <1>4, <1>5 DEF LocksInv, RecordsFit

(***************************************************************************)
(* One lemma per action.                                                   *)
(***************************************************************************)

(* What the invariant says of one record. *)
LEMMA RecordFacts ==
    ASSUME LocksInv, NEW r \in Records
    PROVE  /\ rec[r] \in Recs /\ Sound(r, rec[r]) /\ rec \in [Records -> Recs]
           /\ \A o \in ops : o.r = r => Started(o, rec[r])
           /\ r # None /\ None \notin Reservations /\ {MaxTokens, MaxHosts, MaxTransitions} \subseteq Nat
BY LocksAssumption, FlightFacts DEF LocksInv, Shape, RecordsFit, LocksAssumption

(* The host is ready. *)
LEMMA HostReadyStep ==
    ASSUME LocksInv, FilesApart, NEW r \in Records, HostReady(r)
    PROVE  LocksInv'
<1> DEFINE x == rec[r]
           y == [x EXCEPT !.phase = "idle", !.ready = TRUE, !.status = "ready"]
<1>1. x \in Recs /\ Sound(r, x) /\ rec' = [rec EXCEPT ![r] = y]
  BY RecordFacts DEF HostReady
<1>2. y \in Recs
  BY <1>1 DEF Recs
<1>3. Sound(r, y)
  BY <1>1, <1>2 DEF HostReady, Recs, Sound, Within, Locking, Hosting, Replacing, Ended, Bare
<1>4. Yields(r, x, y, {})
  BY <1>1 DEF Yields, Frees, Recs, Holder, Claim
<1>5. \A o \in ops : o.r = r => Started(o, y)
  BY <1>1, RecordFacts DEF Started, Recs, HostReady, Sound, Locking
<1> QED BY <1>1, <1>2, <1>3, <1>4, <1>5, RecordStep, NothingUnlocked DEF HostReady, DiskUnchanged

(* The host dies before it is ready. *)
LEMMA StartFailsStep ==
    ASSUME LocksInv, FilesApart, NEW r \in Records, StartFails(r)
    PROVE  LocksInv'
<1> DEFINE x == rec[r]
           y == [x EXCEPT !.phase = "failing", !.proc = 0, !.retiring = TRUE]
<1>1. x \in Recs /\ Sound(r, x) /\ rec' = [rec EXCEPT ![r] = y]
  BY RecordFacts DEF StartFails
<1>2. y \in Recs
  BY <1>1 DEF Recs
<1>3. Sound(r, y)
  BY <1>1, <1>2 DEF StartFails, Recs, Sound, Within, Locking, Hosting, Replacing, Ended, Bare
<1>4. Yields(r, x, y, {})
  BY <1>1 DEF Yields, Frees, Recs, Holder, Claim
<1>5. \A o \in ops : o.r = r => Started(o, y)
  BY <1>1, RecordFacts DEF Started, Recs, StartFails
<1> QED BY <1>1, <1>2, <1>3, <1>4, <1>5, RecordStep, NothingUnlocked DEF StartFails, DiskUnchanged

(* What the registry's fragments make of a record. *)
LEMMA FragmentsFit ==
    ASSUME NEW x \in Recs, MaxTokens \in Nat, MaxTransitions \in Nat
    PROVE  /\ Detached(x) \in Recs /\ Released(x) \in Recs /\ [x EXCEPT !.tlock = None] \in Recs
           /\ [x EXCEPT !.trans = 0, !.step = "idle", !.target = None] \in Recs
<1>1. "idle" \in Steps /\ 0 \in 0..MaxTokens /\ 0 \in 0..MaxTransitions
  BY DEF Steps
<1>2. Detached(x) \in Recs
  BY <1>1 DEF Detached, Recs
<1>3. Released(x) \in Recs
  BY <1>1 DEF Released, Recs
<1>4. [x EXCEPT !.tlock = None] \in Recs
  BY DEF Recs
<1>5. [x EXCEPT !.trans = 0, !.step = "idle", !.target = None] \in Recs
  BY <1>1 DEF Recs
<1> QED BY <1>2, <1>3, <1>4, <1>5

(* An abort unlocks no lock of another record, and no lock the record keeps. *)
LEMMA AbortYields ==
    ASSUME NEW r \in Records, NEW x \in Recs, Sound(r, x),
           None \notin Reservations, MaxTokens \in Nat
    PROVE  /\ Aborted(x, x.trans) \in Recs /\ Aborted(x, x.trans) = [x EXCEPT !.tlock = None]
           /\ AbortedPaths(x, x.trans) \subseteq Reach(r) \cup {None}
           /\ \A f \in Files \ AbortedPaths(x, x.trans), w \in Identities :
                  Holder(x, f, w) => x.hasLock /\ x.lockPath = f /\ x.token = w.token
           /\ x.hasLock => x.lockPath \notin AbortedPaths(x, x.trans)
<1>1. x.tlock # None => x.tlock.tid = x.trans
  BY DEF Sound, Replacing
<1>2. Aborted(x, x.trans) = [x EXCEPT !.tlock = None]
  BY <1>1 DEF Aborted, Recs
<1>3. Aborted(x, x.trans) \in Recs
  BY <1>2 DEF Recs
<1>4. AbortedPaths(x, x.trans) = IF x.tlock # None /\ x.tlock.target # x.tlock.old
                                   THEN {x.tlock.target} ELSE {}
  BY <1>1 DEF AbortedPaths
<1>5. \A f \in Files \ AbortedPaths(x, x.trans), w \in Identities :
          Holder(x, f, w) => x.hasLock /\ x.lockPath = f /\ x.token = w.token
  BY <1>4 DEF Holder, Identities, Sound, Replacing
<1> QED BY <1>2, <1>3, <1>4, <1>5 DEF Sound, Replacing, Within

(* A ready host fails. *)
LEMMA RuntimeFailureStep ==
    ASSUME LocksInv, FilesApart, NEW r \in Records, RuntimeFailure(r)
    PROVE  LocksInv'
<1> DEFINE x == rec[r]
           y == Detached(Aborted(x, x.trans))
           U == AbortedPaths(x, x.trans)
<1>1. /\ x \in Recs /\ Sound(r, x) /\ rec' = [rec EXCEPT ![r] = y]
      /\ None \notin Reservations /\ MaxTokens \in Nat
  BY RecordFacts DEF RuntimeFailure
<1>2. /\ Aborted(x, x.trans) = [x EXCEPT !.tlock = None] /\ U \subseteq Reach(r) \cup {None}
      /\ \A f \in Files \ U, w \in Identities :
             Holder(x, f, w) => x.hasLock /\ x.lockPath = f /\ x.token = w.token
      /\ x.hasLock => x.lockPath \notin U
  BY <1>1, AbortYields
<1> HIDE DEF U
<1>3. y \in Recs
  BY <1>1, <1>2, RecordFacts, FragmentsFit
<1>4. Sound(r, y)
  BY <1>1, <1>2 DEF RuntimeFailure, Recs, Sound, Within, Locking, Hosting, Replacing, Ended, Bare, Detached
<1>5. Yields(r, x, y, U)
  BY <1>1, <1>2 DEF Yields, Frees, Recs, Holder, Claim, Detached, Sound, Locking
<1>6. \A o \in ops : o.r = r => Started(o, y)
  BY <1>1, <1>2, RecordFacts DEF Started, Recs, RuntimeFailure, Detached
<1>7. /\ ops' = ops /\ byFile' = byFile /\ dir' = dir /\ tokens' = tokens
      /\ UnlockListed(r, U, watched)
  BY DEF RuntimeFailure, UnlockPaths, U
<1> QED BY <1>1, <1>3, <1>4, <1>5, <1>6, <1>7, RecordStep

(* The child announces a transition. *)
LEMMA BeginTransitionStep ==
    ASSUME LocksInv, FilesApart, NEW r \in Records, BeginTransition(r)
    PROVE  LocksInv'
<1> DEFINE x == rec[r]
           y == [x EXCEPT !.tid = x.tid + 1, !.trans = x.tid + 1, !.step = "asks"]
<1>1. x \in Recs /\ Sound(r, x) /\ rec' = [rec EXCEPT ![r] = y] /\ MaxTransitions \in Nat
  BY RecordFacts DEF BeginTransition
<1>2. y \in Recs
  <2>1. x.tid + 1 \in 0..MaxTransitions /\ "asks" \in Steps
    BY <1>1 DEF Recs, Steps, BeginTransition
  <2> QED BY <1>1, <2>1 DEF Recs
<1>3. Sound(r, y)
  BY <1>1, <1>2 DEF BeginTransition, Recs, Sound, Within, Locking, Hosting, Replacing, Ended, Bare
<1>4. Yields(r, x, y, {})
  BY <1>1 DEF Yields, Frees, Recs, Holder, Claim
<1>5. \A o \in ops : o.r = r => Started(o, y)
  BY <1>1, <1>3, RecordFacts, FlightFacts DEF Started, Recs, BeginTransition, Sound, Replacing
<1> QED BY <1>1, <1>2, <1>3, <1>4, <1>5, RecordStep, NothingUnlocked DEF BeginTransition, DiskUnchanged

(* The child gives a permit up. *)
LEMMA PermitLostStep ==
    ASSUME LocksInv, FilesApart, NEW r \in Records, PermitLost(r)
    PROVE  LocksInv'
<1> DEFINE x == rec[r]
           s == IF x.step = "prepare" THEN "denied" ELSE "lost"
           y == [x EXCEPT !.step = s]
<1>1. x \in Recs /\ Sound(r, x) /\ rec' = [rec EXCEPT ![r] = y]
  BY RecordFacts DEF PermitLost
<1>2. y \in Recs
  BY <1>1 DEF Recs, Steps
<1>3. Sound(r, y)
  BY <1>1, <1>2 DEF PermitLost, Recs, Sound, Within, Locking, Hosting, Replacing, Ended, Bare
<1>4. Yields(r, x, y, {})
  BY <1>1 DEF Yields, Frees, Recs, Holder, Claim
<1>5. \A o \in ops : o.r = r => Started(o, y)
  BY <1>1, RecordFacts DEF Started, Recs
<1> QED BY <1>1, <1>2, <1>3, <1>4, <1>5, RecordStep, NothingUnlocked DEF PermitLost, DiskUnchanged

(* A transition is cancelled. *)
LEMMA TransitionCancelledStep ==
    ASSUME LocksInv, FilesApart, NEW r \in Records, TransitionCancelled(r)
    PROVE  LocksInv'
<1> DEFINE x == rec[r]
           y == [Aborted(x, x.trans) EXCEPT !.trans = 0, !.step = "idle", !.target = None]
           U == AbortedPaths(x, x.trans)
<1>1. /\ x \in Recs /\ Sound(r, x) /\ rec' = [rec EXCEPT ![r] = y]
      /\ None \notin Reservations /\ MaxTokens \in Nat /\ MaxTransitions \in Nat
  BY RecordFacts DEF TransitionCancelled
<1>2. /\ Aborted(x, x.trans) = [x EXCEPT !.tlock = None] /\ U \subseteq Reach(r) \cup {None}
      /\ \A f \in Files \ U, w \in Identities :
             Holder(x, f, w) => x.hasLock /\ x.lockPath = f /\ x.token = w.token
      /\ x.hasLock => x.lockPath \notin U
  BY <1>1, AbortYields
<1> HIDE DEF U
<1>3. y \in Recs
  BY <1>1, <1>2, RecordFacts, FragmentsFit
<1>4. Sound(r, y)
  BY <1>1, <1>2 DEF TransitionCancelled, Recs, Sound, Within, Locking, Hosting, Replacing, Ended, Bare
<1>5. Yields(r, x, y, U)
  BY <1>1, <1>2 DEF Yields, Frees, Recs, Holder, Claim, Sound, Locking
<1>6. \A o \in ops : o.r = r => Started(o, y)
  BY <1>1, <1>2, RecordFacts DEF Started, Recs, TransitionCancelled
<1>7. /\ ops' = ops /\ byFile' = byFile /\ dir' = dir /\ tokens' = tokens
      /\ UnlockListed(r, U, watched)
  BY DEF TransitionCancelled, UnlockPaths, U
<1> QED BY <1>1, <1>3, <1>4, <1>5, <1>6, <1>7, RecordStep

(* A release unlocks every lock of the record, and no other one. *)
LEMMA ReleaseYields ==
    ASSUME NEW r \in Records, NEW x \in Recs, Sound(r, x)
    PROVE  /\ ReleasedPaths(x) \subseteq Reach(r) \cup {None}
           /\ \A f \in Files \ ReleasedPaths(x), w \in Identities : ~Holder(x, f, w)
BY DEF ReleasedPaths, Holder, Sound, Within

(* A stopped host has exited. *)
LEMMA HostExitedStep ==
    ASSUME LocksInv, FilesApart, NEW r \in Records, HostExited(r)
    PROVE  LocksInv'
<1> DEFINE x == [rec[r] EXCEPT !.retiring = FALSE]
           Releases(b) == \/ x.phase = "failing"
                          \/ x.restart /\ Live(r) /\ (b \/ x.dead)
           Z(b) == IF Releases(b) THEN Released(x) ELSE x
           Y(b) == [Z(b) EXCEPT !.status = IF x.phase = "failing" THEN "failed" ELSE Z(b).status,
                                !.phase = IF Z(b).phase = "failing" THEN "idle" ELSE Z(b).phase,
                                !.restart = Z(b).restart /\ Live(r) /\ ~Releases(b)]
           U(b) == IF Releases(b) THEN ReleasedPaths(x) ELSE {}
<1>1. PICK b \in BOOLEAN : UnlockPaths(r, U(b)) /\ rec' = [rec EXCEPT ![r] = Y(b)]
  BY DEF HostExited
<1>2. /\ rec[r] \in Recs /\ Sound(r, rec[r]) /\ rec[r].retiring
      /\ None \notin Reservations /\ MaxTokens \in Nat /\ MaxTransitions \in Nat
  BY RecordFacts DEF HostExited
<1>3. x \in Recs
  BY <1>2 DEF Recs
<1> DEFINE rel == Releases(b)
           z == Z(b)
           y == Y(b)
           st == IF x.phase = "failing" THEN "failed" ELSE z.status
           ph == IF z.phase = "failing" THEN "idle" ELSE z.phase
           re == z.restart /\ Live(r) /\ ~rel
<1>4. z = IF rel THEN Released(x) ELSE x
  OBVIOUS
<1>5. z \in Recs
  BY <1>2, <1>3, <1>4, FragmentsFit
<1>6. /\ rel \in BOOLEAN /\ Live(r) /\ rec[r].proc = 0 /\ ~rec[r].ready
      /\ rec[r].step = "idle" /\ rec[r].phase # "locking" /\ (rec[r].dead \/ rec[r].tlock = None)
  BY <1>2 DEF Sound, Hosting, Ended, Locking, Replacing, Recs, Live
<1>7. y = [z EXCEPT !.status = st, !.phase = ph, !.restart = re]
  OBVIOUS
<1>8. /\ st \in {"cold", "starting", "ready", "failed"} /\ re \in BOOLEAN
      /\ ph \in {"idle", "locking", "starting", "failing"} /\ (ph = z.phase \/ ph = "idle")
  BY <1>5 DEF Recs
<1> HIDE DEF y, st, ph, re, rel, z
<1>9. y \in Recs
  BY <1>5, <1>7, <1>8 DEF Recs
<1>10. /\ y.known = z.known /\ y.file = z.file /\ y.hasLock = z.hasLock /\ y.lockPath = z.lockPath
       /\ y.token = z.token /\ y.tlock = z.tlock /\ y.trans = z.trans /\ y.tid = z.tid
       /\ y.dead = z.dead /\ y.comp = z.comp /\ y.proc = z.proc /\ y.hosts = z.hosts
       /\ y.ready = z.ready /\ y.retiring = z.retiring /\ y.close = z.close
       /\ y.reserved = z.reserved /\ y.step = z.step /\ y.target = z.target
       /\ (y.phase = z.phase \/ y.phase = "idle")
  BY <1>5, <1>7, <1>8 DEF Recs
<1>11. /\ z.known = rec[r].known /\ z.file = rec[r].file /\ z.trans = rec[r].trans
       /\ z.tid = rec[r].tid /\ z.dead = rec[r].dead /\ z.comp = rec[r].comp
       /\ z.proc = rec[r].proc /\ z.hosts = rec[r].hosts /\ z.ready = rec[r].ready
       /\ z.retiring = FALSE /\ z.close = rec[r].close /\ z.step = rec[r].step
       /\ z.target = rec[r].target /\ z.phase = rec[r].phase
       /\ rel => ~z.hasLock /\ z.lockPath = None /\ z.tlock = None
       /\ ~rel => /\ z.hasLock = rec[r].hasLock /\ z.lockPath = rec[r].lockPath
                  /\ z.tlock = rec[r].tlock /\ z.token = rec[r].token
                  /\ z.reserved = rec[r].reserved
  BY <1>2, <1>4 DEF Recs, Released
<1>12. Sound(r, y)
  <2>1. Within(r, y) /\ Locking(y)
    BY <1>2, <1>6, <1>10, <1>11 DEF Sound, Within, Locking
  <2>2. Hosting(y) /\ Ended(y)
    BY <1>2, <1>6, <1>10, <1>11 DEF Sound, Hosting, Ended, Bare
  <2>3. Replacing(y)
    BY <1>2, <1>6, <1>10, <1>11 DEF Sound, Replacing
  <2> QED BY <2>1, <2>2, <2>3 DEF Sound
<1>13. Yields(r, rec[r], y, U(b))
  <2>1. CASE rel
    <3>1. U(b) = ReleasedPaths(rec[r])
      BY <1>2, <2>1 DEF ReleasedPaths, Recs, rel
    <3> HIDE DEF U
    <3> QED BY <1>2, <1>10, <1>11, <2>1, <3>1, ReleaseYields DEF Yields, Frees, Claim
  <2>2. CASE ~rel
    <3>1. U(b) = {}
      BY <2>2 DEF rel
    <3> HIDE DEF U
    <3> QED BY <1>10, <1>11, <2>2, <3>1 DEF Yields, Frees, Holder, Claim
  <2> QED BY <1>6, <2>1, <2>2
<1>14. \A o \in ops : o.r = r => Started(o, y)
  BY <1>2, <1>6, <1>10, <1>11, RecordFacts, FlightFacts DEF Started
<1>15. /\ ops' = ops /\ byFile' = byFile /\ dir' = dir /\ tokens' = tokens
       /\ UnlockListed(r, U(b), watched) /\ rec' = [rec EXCEPT ![r] = y]
  BY <1>1 DEF HostExited, UnlockPaths, y
<1> HIDE DEF U
<1> QED BY <1>9, <1>12, <1>13, <1>14, <1>15, RecordStep

(* A tab is closed. *)
LEMMA CloseSessionStep ==
    ASSUME LocksInv, FilesApart, NEW r \in Records, CloseSession(r)
    PROVE  LocksInv'
<1> DEFINE x == rec[r]
           ret == x.retiring \/ x.proc # 0
           ph == IF x.phase = "starting" THEN "idle" ELSE x.phase
           y == [x EXCEPT !.dead = TRUE, !.close = "waiting", !.proc = 0, !.retiring = ret,
                          !.step = "idle", !.target = None, !.ready = FALSE, !.phase = ph]
<1>1. x \in Recs /\ Sound(r, x) /\ rec' = [rec EXCEPT ![r] = y]
  BY RecordFacts DEF CloseSession
<1>2. y \in Recs
  <2>1. ret \in BOOLEAN /\ ph \in {"idle", "locking", "starting", "failing"} /\ "idle" \in Steps
    BY <1>1 DEF Recs, Steps
  <2> DEFINE m == [x EXCEPT !.dead = TRUE, !.close = "waiting", !.proc = 0, !.ready = FALSE]
  <2> HIDE DEF ret, ph
  <2>2. m \in Recs
    BY <1>1 DEF Recs
  <2>3. y = [m EXCEPT !.retiring = ret, !.step = "idle", !.target = None, !.phase = ph]
    BY <1>1 DEF Recs
  <2> HIDE DEF m, y
  <2> QED BY <2>1, <2>2, <2>3 DEF Recs
<1>3. Sound(r, y)
  <2>1. Within(r, y) /\ Locking(y)
    BY <1>1 DEF CloseSession, Recs, Sound, Within, Locking, Hosting
  <2>2. Hosting(y) /\ Ended(y)
    BY <1>1 DEF CloseSession, Recs, Sound, Hosting, Ended, Bare, Live
  <2>3. Replacing(y)
    BY <1>1 DEF CloseSession, Recs, Sound, Replacing
  <2> QED BY <2>1, <2>2, <2>3 DEF Sound
<1>4. Yields(r, x, y, {})
  BY <1>1 DEF Yields, Frees, Recs, Holder, Claim
<1>5. \A o \in ops : o.r = r => Started(o, y)
  BY <1>1, RecordFacts DEF Started, Recs, CloseSession
<1> QED BY <1>1, <1>2, <1>3, <1>4, <1>5, RecordStep, NothingUnlocked DEF CloseSession, DiskUnchanged

(* The close releases the locks. *)
LEMMA CloseReleasesStep ==
    ASSUME LocksInv, FilesApart, NEW r \in Records, CloseReleases(r)
    PROVE  LocksInv'
<1> DEFINE x == rec[r]
           y == [Released(x) EXCEPT !.close = "released"]
           U == ReleasedPaths(x)
<1>1. /\ x \in Recs /\ Sound(r, x) /\ rec' = [rec EXCEPT ![r] = y]
      /\ None \notin Reservations /\ MaxTokens \in Nat /\ MaxTransitions \in Nat
  BY RecordFacts DEF CloseReleases
<1>2. y \in Recs
  <2>1. Released(x) \in Recs
    BY <1>1, FragmentsFit
  <2> QED BY <2>1 DEF Recs
<1>3. Sound(r, y)
  BY <1>1, <1>2
     DEF CloseReleases, Settled, Recs, Sound, Within, Locking, Hosting, Replacing, Ended, Bare, Released
<1>4. Yields(r, x, y, U)
  BY <1>1, ReleaseYields DEF Yields, Frees, Recs, Claim, Released
<1>5. \A o \in ops : o.r # r
  BY DEF CloseReleases, Settled
<1>6. /\ ops' = ops /\ byFile' = byFile /\ dir' = dir /\ tokens' = tokens
      /\ UnlockListed(r, U, watched)
  BY DEF CloseReleases, UnlockPaths
<1> HIDE DEF y, U
<1> QED BY <1>1, <1>2, <1>3, <1>4, <1>5, <1>6, RecordStep

(* The record of an acquisition, and that no other one gives it its first lock. *)
LEMMA FlightRecord ==
    ASSUME LocksInv, NEW o \in ops
    PROVE  /\ o.r \in Records /\ rec[o.r] \in Recs /\ Sound(o.r, rec[o.r]) /\ Started(o, rec[o.r])
           /\ o.path \in Files /\ o.path \in Reach(o.r) /\ rec[o.r].known = "open"
           /\ \A q \in ops : q.r = o.r => Started(q, rec[o.r])
           /\ \A q \in ops : q.r = o.r /\ q.role = "primary" /\ o.role = "primary" => q = o
           /\ o.role \in Roles
<1>1. o.r \in Records /\ o.path \in Files /\ Started(o, rec[o.r]) /\ ops \subseteq Acquisitions
  BY FlightFacts
<1>2. rec[o.r] \in Recs /\ Sound(o.r, rec[o.r]) /\ \A q \in ops : q.r = o.r => Started(q, rec[o.r])
  BY <1>1, RecordFacts
<1>3. \A q \in ops : q.r = o.r /\ q.role = "primary" /\ o.role = "primary" => q = o
  BY DEF LocksInv, Flights, First
<1> QED BY <1>1, <1>2, <1>3 DEF Started, Acquisitions

(* The file of an activation is taken. *)
LEMMA PrimaryDeniedStep ==
    ASSUME LocksInv, FilesApart, NEW o \in ops, PrimaryDenied(o)
    PROVE  LocksInv'
<1> DEFINE r == o.r
           x == rec[r]
           U == IF x.dead THEN {} ELSE ReleasedPaths(x)
           z == Released(x)
           y == IF x.dead THEN [x EXCEPT !.phase = "idle", !.hasLock = FALSE]
                ELSE [z EXCEPT !.phase = "idle", !.status = "failed"]
<1>1. /\ r \in Records /\ x \in Recs /\ Sound(r, x) /\ rec' = [rec EXCEPT ![r] = y]
      /\ None \notin Reservations /\ MaxTokens \in Nat /\ MaxTransitions \in Nat
      /\ o.role = "primary" /\ Started(o, x)
  BY FlightRecord, RecordFacts DEF PrimaryDenied
<1>2. x.phase = "locking" /\ ~x.hasLock /\ x.proc = 0 /\ x.tlock = None /\ ~x.ready /\ x.step = "idle"
  BY <1>1 DEF Started, Sound, Locking, Hosting, Replacing, Recs
<1>3. z \in Recs
  BY <1>1, FragmentsFit
<1>4. y \in Recs
  <2>1. [x EXCEPT !.phase = "idle", !.hasLock = FALSE] \in Recs
    BY <1>1 DEF Recs
  <2> HIDE DEF z
  <2>2. [z EXCEPT !.phase = "idle", !.status = "failed"] \in Recs
    BY <1>3 DEF Recs
  <2> QED BY <2>1, <2>2
<1>5. Sound(r, y)
  <2>1. CASE x.dead
    BY <1>1, <1>2, <2>1 DEF Recs, Sound, Within, Locking, Hosting, Replacing, Ended, Bare
  <2>2. CASE ~x.dead
    BY <1>1, <1>2, <2>2 DEF Recs, Sound, Within, Locking, Hosting, Replacing, Ended, Bare, Released
  <2> QED BY <2>1, <2>2
<1>6. Yields(r, x, y, U)
  <2>1. CASE x.dead
    BY <1>1, <1>2, <2>1 DEF Recs, Yields, Frees, Holder, Claim
  <2>2. CASE ~x.dead
    BY <1>1, <1>2, <2>2, ReleaseYields DEF Recs, Yields, Frees, Claim, Released
  <2> QED BY <2>1, <2>2
<1>7. ops' = ops \ {o} /\ o.stage # "probe" /\ byFile' = byFile /\ dir' = dir /\ tokens' = tokens
      /\ UnlockListed(r, U, watched)
  BY DEF PrimaryDenied, UnlockPaths
<1>8. ASSUME NEW q \in ops', q.r = r PROVE Started(q, y)
  <2>1. Started(q, x) /\ q.role # "primary" /\ q.host \in Nat
    BY <1>1, <1>7, <1>8, FlightRecord, FlightFacts
  <2>2. CASE x.dead
    BY <1>1, <1>2, <2>1, <2>2 DEF Recs, Started
  <2>3. CASE ~x.dead
    BY <1>1, <1>2, <2>1, <2>3 DEF Recs, Started, Released
  <2> QED BY <2>2, <2>3
<1> HIDE DEF y, U, r
<1> QED BY <1>1, <1>4, <1>5, <1>6, <1>7, <1>8, RecordStep

(* The file of a new session is taken. *)
LEMMA InitialDeniedStep ==
    ASSUME LocksInv, FilesApart, NEW o \in ops, InitialDenied(o)
    PROVE  LocksInv'
<1> DEFINE r == o.r
           x == rec[r]
<1>1. /\ r \in Records /\ x \in Recs /\ Sound(r, x) /\ rec \in [Records -> Recs]
      /\ \A q \in ops : q.r = o.r => Started(q, x)
  BY FlightRecord, RecordFacts
<1>2. rec' = [rec EXCEPT ![r] = x]
  BY <1>1 DEF InitialDenied
<1>3. Yields(r, x, x, {})
  BY DEF Yields, Frees
<1>4. ops' = ops \ {o} /\ o.stage # "probe" /\ byFile' = byFile
      /\ UnlockListed(r, {}, watched) /\ dir' = dir /\ tokens' = tokens
  BY <1>1, NothingUnlocked DEF InitialDenied
<1> QED BY <1>1, <1>2, <1>3, <1>4, RecordStep

(* The child gets its answer. *)
LEMMA AnswerFits ==
    ASSUME NEW r \in Records, NEW x \in Recs, NEW o, NEW b \in BOOLEAN, Sound(r, x)
    PROVE  /\ AnswerChild(o, x, b) \in Recs /\ Sound(r, AnswerChild(o, x, b))
           /\ Yields(r, x, AnswerChild(o, x, b), {})
           /\ \A q : Started(q, x) => Started(q, AnswerChild(o, x, b))
<1> DEFINE s == Answered(x.step, b)
           y == [x EXCEPT !.step = s]
<1>1. s \in Steps /\ s \notin {"idle", "asks"}
  BY DEF Answered, Steps
<1> HIDE DEF s
<1>2. y \in Recs
  BY <1>1 DEF Recs
<1>3. x.step \in {"prepare", "successor"} => Sound(r, y)
  BY <1>1 DEF Recs, Sound, Within, Locking, Hosting, Replacing, Ended, Bare
<1>4. Yields(r, x, y, {})
  BY DEF Recs, Yields, Frees, Holder, Claim
<1>5. \A q : Started(q, x) => Started(q, y)
  BY <1>1 DEF Recs, Started
<1>6. AnswerChild(o, x, b) \in {x, y} /\ (AnswerChild(o, x, b) # x => x.step \in {"prepare", "successor"})
  BY DEF AnswerChild, s
<1>7. Yields(r, x, x, {})
  BY DEF Yields, Frees
<1> QED BY <1>2, <1>3, <1>4, <1>5, <1>6, <1>7

(* The successor's file is taken. *)
LEMMA SuccessorDeniedStep ==
    ASSUME LocksInv, FilesApart, NEW o \in ops, SuccessorDenied(o)
    PROVE  LocksInv'
<1> DEFINE r == o.r
           x == rec[r]
           y == AnswerChild(o, x, FALSE)
<1>1. /\ r \in Records /\ x \in Recs /\ Sound(r, x) /\ rec' = [rec EXCEPT ![r] = y]
      /\ \A q \in ops : q.r = o.r => Started(q, x)
  BY FlightRecord, RecordFacts DEF SuccessorDenied
<1>2. y \in Recs /\ Sound(r, y) /\ Yields(r, x, y, {}) /\ \A q \in ops : q.r = o.r => Started(q, y)
  BY <1>1, AnswerFits
<1>3. ops' = ops \ {o} /\ o.stage # "probe" /\ byFile' = byFile
      /\ UnlockListed(r, {}, watched) /\ dir' = dir /\ tokens' = tokens
  BY <1>1, NothingUnlocked DEF SuccessorDenied
<1> HIDE DEF y, r
<1> QED BY <1>1, <1>2, <1>3, RecordStep DEF r

(* An acquisition as it is started. *)
LEMMA AcquisitionFits ==
    ASSUME LocksInv, NEW r \in Records, NEW role \in Roles, NEW f \in Files,
           NEW t \in 0..MaxTransitions
    PROVE  /\ Acquisition(r, role, f, t) \in Acquisitions
           /\ Acquisition(r, role, f, t).r = r /\ Acquisition(r, role, f, t).stage = "mkdir"
           /\ Acquisition(r, role, f, t).role = role /\ Acquisition(r, role, f, t).path = f
           /\ Acquisition(r, role, f, t).tid = t /\ Acquisition(r, role, f, t).host = rec[r].proc
<1>1. rec[r].proc \in Nat
  BY RecordFacts DEF Recs
<1> QED BY <1>1 DEF Acquisition, Acquisitions

(* An activation locks the file of the session, or starts its host. *)
LEMMA ActivateStep ==
    ASSUME LocksInv, FilesApart, NEW r \in Records, Activate(r)
    PROVE  LocksInv'
<1> DEFINE x == rec[r]
           started == [x EXCEPT !.status = "starting", !.restart = FALSE]
<1>1. /\ x \in Recs /\ Sound(r, x) /\ \A o \in ops : o.r = r => Started(o, x)
      /\ MaxTransitions \in Nat
      /\ \A o \in ops : o.r = r => o.host \in Nat
  BY RecordFacts, FlightFacts
<1>2. /\ x.known = "open" /\ ~x.dead /\ ~x.comp /\ x.phase = "idle" /\ x.proc = 0 /\ ~x.retiring
      /\ ~x.ready /\ x.step = "idle" /\ x.tlock = None
  BY <1>1 DEF Activate, Live, Sound, Hosting, Replacing, Recs
<1>3. \A o \in ops : o.r = r => o.role # "primary"
  BY <1>1, <1>2 DEF Started
<1>4. CASE x.file # None /\ ~x.hasLock
  <2> DEFINE y == [started EXCEPT !.phase = "locking"]
             n == Acquisition(r, "primary", x.file, 0)
  <2>1. /\ rec' = [rec EXCEPT ![r] = y] /\ MayAcquire /\ ops' = ops \cup {n}
        /\ byFile' = byFile /\ DiskUnchanged
    BY <1>4 DEF Activate
  <2>2. x.file \in Files /\ x.file \in Reach(r)
    BY <1>1, <1>4 DEF Recs, Sound, Within
  <2>3. /\ n \in Acquisitions /\ n.r = r /\ n.stage = "mkdir" /\ n.role = "primary"
        /\ n.path = x.file /\ n.tid = 0 /\ n.host = x.proc
    BY <1>1, <2>2, AcquisitionFits DEF Roles
  <2>4. y \in Recs
    BY <1>1 DEF Recs
  <2>5. Sound(r, y)
    BY <1>1, <1>2, <1>4 DEF Recs, Sound, Within, Locking, Hosting, Replacing, Ended, Bare
  <2>6. Yields(r, x, y, {})
    BY <1>1 DEF Recs, Yields, Frees, Holder, Claim
  <2>7. y.proc = x.proc /\ \A o \in ops : o.r = r => Started(o, y)
    BY <1>1, <1>2, <1>3 DEF Recs, Started
  <2>8. Started(n, y)
    BY <1>1, <1>2, <2>2, <2>3 DEF Recs, Started, Sound, Ended, Hosting
  <2>9. \A o \in ops : o.r = r /\ o.role = n.role => ~First(o, x)
    BY <1>3, <2>3
  <2> HIDE DEF y, n
  <2> QED BY <2>1, <2>3, <2>4, <2>5, <2>6, <2>7, <2>8, <2>9, AcquireStep
<1>5. CASE ~(x.file # None /\ ~x.hasLock)
  <2> DEFINE y == [started EXCEPT !.phase = "starting", !.hosts = x.hosts + 1, !.proc = x.hosts + 1]
  <2>1. /\ rec' = [rec EXCEPT ![r] = y] /\ ops' = ops /\ byFile' = byFile /\ DiskUnchanged
    BY <1>1, <1>5 DEF Activate, Recs
  <2>2. y \in Recs
    <3> DEFINE h == x.hosts + 1
    <3>1. h \in Nat /\ started \in Recs
      <4>1. x.hosts \in Nat
        BY <1>1 DEF Recs
      <4>2. started \in Recs
        BY <1>1 DEF Recs
      <4> QED BY <4>1, <4>2
    <3> HIDE DEF started, h
    <3>2. [started EXCEPT !.phase = "starting", !.hosts = h] \in Recs
      BY <3>1 DEF Recs
    <3>3. [[started EXCEPT !.phase = "starting", !.hosts = h] EXCEPT !.proc = h] \in Recs
      BY <3>1, <3>2 DEF Recs
    <3>4. y = [[started EXCEPT !.phase = "starting", !.hosts = h] EXCEPT !.proc = h]
      BY DEF h
    <3> HIDE DEF y
    <3> QED BY <3>3, <3>4
  <2>3. Sound(r, y)
    BY <1>1, <1>2 DEF Recs, Sound, Within, Locking, Hosting, Replacing, Ended, Bare
  <2>4. Yields(r, x, y, {})
    BY <1>1 DEF Recs, Yields, Frees, Holder, Claim
  <2>5. \A o \in ops : o.r = r => Started(o, y)
    BY <1>1, <1>2, <1>3 DEF Recs, Started
  <2>6. UnlockListed(r, {}, watched) /\ dir' = dir /\ tokens' = tokens
    BY <2>1, NothingUnlocked
  <2> HIDE DEF y
  <2> QED BY <2>1, <2>2, <2>3, <2>4, <2>5, <2>6, RecordStep
<1> QED BY <1>4, <1>5

(* A new session asks for its file. *)
LEMMA InitialSessionFileStep ==
    ASSUME LocksInv, FilesApart, NEW r \in Records, NEW f \in Files, InitialSessionFile(r, f)
    PROVE  LocksInv'
<1> DEFINE x == rec[r]
           y == [x EXCEPT !.reserved = TRUE]
           n == Acquisition(r, "initial", f, 0)
<1>1. /\ x \in Recs /\ Sound(r, x) /\ \A o \in ops : o.r = r => Started(o, x)
      /\ MaxTransitions \in Nat /\ rec' = [rec EXCEPT ![r] = y]
  BY RecordFacts DEF InitialSessionFile
<1>2. y \in Recs
  BY <1>1 DEF Recs
<1>3. Sound(r, y)
  BY <1>1 DEF Recs, Sound, Within, Locking, Hosting, Replacing, Ended, Bare
<1>4. Yields(r, x, y, {})
  BY <1>1 DEF Recs, Yields, Frees, Holder, Claim
<1>5. y.proc = x.proc /\ \A o \in ops : o.r = r => Started(o, y)
  BY <1>1 DEF Recs, Started
<1>6. UnlockListed(r, {}, watched) /\ dir' = dir /\ tokens' = tokens /\ byFile' = byFile /\ DiskUnchanged
  BY NothingUnlocked DEF InitialSessionFile
<1>7. CASE ops' = ops
  BY <1>1, <1>2, <1>3, <1>4, <1>5, <1>6, <1>7, RecordStep
<1>8. CASE ops' = ops \cup {n}
  <2>1. /\ n \in Acquisitions /\ n.r = r /\ n.stage = "mkdir" /\ n.role = "initial"
        /\ n.path = f /\ n.tid = 0 /\ n.host = x.proc
    BY <1>1, AcquisitionFits DEF Roles
  <2>2. Started(n, y)
    BY <1>1, <2>1 DEF InitialSessionFile, Recs, Started, Sound, Ended, Hosting, Reach, Live
  <2>3. \A o \in ops : o.r = r /\ o.role = n.role => ~First(o, x)
    BY <1>1, <2>1 DEF InitialSessionFile, First, Started
  <2>4. MayAcquire
    BY DEF InitialSessionFile
  <2> HIDE DEF y, n
  <2> QED BY <1>1, <1>2, <1>3, <1>4, <1>5, <1>6, <1>8, <2>1, <2>2, <2>3, <2>4, AcquireStep
<1> QED BY <1>7, <1>8 DEF InitialSessionFile

\* Reservation l continues that of record x, or is its first one.
Continues(x, l) ==
    /\ l.tid = x.tid /\ l.old = x.lockPath
    /\ x.tlock = None => l.token = 0
    /\ x.tlock # None =>
         /\ l.token = x.tlock.token
         /\ x.tlock.target # None => l.target = x.tlock.target
         /\ x.tlock.locked => l.locked

\* The record under reservation l, its child at step st with file f.
Permit(x, l, st, f) == [x EXCEPT !.tlock = l, !.step = st, !.target = f]

(* A permit at work leaves the record's locks alone. *)
LEMMA PermitYields ==
    ASSUME LocksInv, NEW r \in Records, Permitted(r, rec[r].tid), rec[r].step \in {"asks", "run"},
           NEW l \in Reservations, Continues(rec[r], l), l.target \in Reach(r) \cup {None},
           NEW st \in Steps \ {"idle", "asks"},
           NEW f \in (Files \cap Reach(r)) \cup {None}
    PROVE  /\ Permit(rec[r], l, st, f) \in Recs /\ Sound(r, Permit(rec[r], l, st, f))
           /\ Yields(r, rec[r], Permit(rec[r], l, st, f), {})
           /\ Permit(rec[r], l, st, f).proc = rec[r].proc
           /\ \A o \in ops : o.r = r => Started(o, Permit(rec[r], l, st, f))
<1> DEFINE x == rec[r]
           y == Permit(x, l, st, f)
<1>1. /\ x \in Recs /\ Sound(r, x) /\ \A o \in ops : o.r = r => Started(o, x)
      /\ None \notin Reservations /\ MaxTransitions \in Nat /\ None \notin Files
  BY RecordFacts, LocksAssumption DEF LocksAssumption
<1>2. /\ x.known = "open" /\ ~x.dead /\ ~x.comp /\ x.proc # 0 /\ x.ready /\ x.trans = x.tid
      /\ x.tid > 0 /\ x.phase = "idle" /\ x.close = "no"
  BY <1>1 DEF Permitted, Live, Sound, Hosting, Replacing, Recs
<1>3. y \in Recs
  BY <1>1 DEF Recs, Permit
<1>4. /\ y.known = x.known /\ y.file = x.file /\ y.hasLock = x.hasLock /\ y.lockPath = x.lockPath
      /\ y.token = x.token /\ y.tlock = l /\ y.trans = x.trans /\ y.tid = x.tid
      /\ y.dead = x.dead /\ y.comp = x.comp /\ y.proc = x.proc /\ y.hosts = x.hosts
      /\ y.ready = x.ready /\ y.phase = x.phase /\ y.retiring = x.retiring /\ y.close = x.close
      /\ y.reserved = x.reserved /\ y.step = st /\ y.target = f
  BY <1>1 DEF Recs, Permit
<1>5. l # None
  BY <1>1
<1>6. /\ x.tlock # None => x.tlock.tid = x.tid /\ x.tlock.old = x.lockPath
      /\ x.tlock # None /\ x.tlock.token # 0 =>
           x.tlock.locked /\ x.tlock.target # None /\ x.tlock.target # x.tlock.old
      /\ x.step = "run" => x.tlock # None
  BY <1>1 DEF Sound, Replacing
<1>7. Replacing(y)
  BY <1>2, <1>4, <1>5, <1>6 DEF Replacing, Continues
<1>8. Within(r, y) /\ Locking(y) /\ Hosting(y) /\ Ended(y)
  BY <1>1, <1>2, <1>4 DEF Sound, Within, Locking, Hosting, Ended
<1>9. Yields(r, x, y, {})
  <2>1. \A g \in Files, w \in Identities : Holder(x, g, w) => Holder(y, g, w)
    <3>1. None \notin Files /\ \A w \in Identities : w.token # 0
      BY <1>1 DEF Identities
    <3> QED BY <1>4, <1>5, <1>6, <3>1 DEF Holder, Continues
  <2>2. \A g \in Files, t \in 0..MaxTokens : Claim(y, g, t) => Claim(x, g, t)
    BY <1>4, <1>6 DEF Claim, Continues
  <2> QED BY <1>4, <2>1, <2>2 DEF Yields, Frees
<1>10. ASSUME NEW o \in ops, o.r = r PROVE Started(o, y)
  <2>1. Started(o, x) /\ o.path \in Files
    BY <1>1, <1>10, FlightFacts
  <2>2. CASE o.role = "successor" /\ o.tid = x.tid
    <3>1. x.tlock # None
      <4>1. x.tid \in Nat
        BY <1>1 DEF Recs
      <4>2. x.step # "asks"
        BY <2>1, <2>2, <4>1 DEF Started
      <4> QED BY <1>6, <4>2
    <3>2. x.tlock.target = o.path /\ o.path # x.tlock.old
      BY <1>6, <2>1, <2>2, <3>1 DEF Started
    <3> QED BY <1>1, <1>4, <1>6, <2>1, <3>1, <3>2 DEF Started, Continues
  <2>3. CASE ~(o.role = "successor" /\ o.tid = x.tid)
    BY <1>4, <2>1, <2>3 DEF Started, Continues
  <2> QED BY <2>2, <2>3
<1> QED BY <1>3, <1>4, <1>7, <1>8, <1>9, <1>10 DEF Sound

(* One permit, asked for at prepare or for the successor. *)
LEMMA PermitStep ==
    ASSUME LocksInv, FilesApart, NEW r \in Records, NEW s, NEW f \in (Files \cap Reach(r)) \cup {None},
           \/ s = "prepare" /\ rec[r].step = "asks"
           \/ s = "successor" /\ rec[r].step = "run" /\ f # None,
           PermitTransition(r, s, f), byFile' = byFile, DiskUnchanged
    PROVE  LocksInv'
<1> DEFINE x == rec[r]
           lock == IF x.tlock # None THEN x.tlock
                   ELSE [tid |-> x.tid, old |-> x.lockPath, target |-> None,
                         locked |-> FALSE, token |-> 0]
           named == [lock EXCEPT !.target = f]
           own == [named EXCEPT !.locked = TRUE]
           Y(l, st) == Permit(x, l, st, f)
           n == Acquisition(r, "successor", f, x.tid)
<1>1. /\ x \in Recs /\ Sound(r, x) /\ Permitted(r, x.tid) /\ x.step \in {"asks", "run"}
      /\ None \notin Reservations /\ MaxTransitions \in Nat /\ None \notin Files /\ MaxTokens \in Nat
  BY RecordFacts, LocksAssumption DEF LocksAssumption, PermitTransition
<1>2. lock \in Reservations /\ lock.target \in Reach(r) \cup {None} /\ Continues(x, lock)
  BY <1>1 DEF Recs, Reservations, Sound, Within, Replacing, Continues
<1>3. UnlockListed(r, {}, watched) /\ dir' = dir /\ tokens' = tokens
  BY NothingUnlocked
<1>4. \A b \in BOOLEAN : Answered(s, b) \in Steps \ {"idle", "asks"}
  BY DEF Answered, Steps
<1>5. s \in Steps \ {"idle", "asks"}
  BY DEF Steps
<1>6. ASSUME NEW l \in Reservations, Continues(x, l), l.target \in Reach(r) \cup {None},
             NEW b \in BOOLEAN, rec' = [rec EXCEPT ![r] = Y(l, Answered(s, b))], ops' = ops
      PROVE  LocksInv'
  <2> DEFINE y == Y(l, Answered(s, b))
  <2>1. /\ y \in Recs /\ Sound(r, y) /\ Yields(r, x, y, {})
        /\ \A o \in ops : o.r = r => Started(o, y)
    BY <1>1, <1>4, <1>6, PermitYields
  <2> HIDE DEF y
  <2> QED BY <1>3, <1>6, <2>1, RecordStep DEF y
<1>7. CASE f = None
  BY <1>2, <1>6, <1>7 DEF PermitTransition, Permit
<1>8. CASE f # None /\ (byFile[f] \notin {None, r} \/ (lock.target # None /\ lock.target # f))
  BY <1>2, <1>6, <1>8 DEF PermitTransition, Permit
<1>9. CASE f # None /\ ~(byFile[f] \notin {None, r} \/ (lock.target # None /\ lock.target # f))
  <2>1. /\ named \in Reservations /\ named.target = f /\ Continues(x, named)
        /\ own \in Reservations /\ own.target = f /\ Continues(x, own) /\ f \in Files
    BY <1>1, <1>2, <1>9 DEF Reservations, Continues
  <2>2. CASE f = x.lockPath /\ x.hasLock
    <3>1. rec' = [rec EXCEPT ![r] = Y(own, Answered(s, TRUE))] /\ ops' = ops
      BY <1>9, <2>2 DEF PermitTransition, Permit
    <3> HIDE DEF own
    <3> QED BY <1>6, <2>1, <3>1
  <2>3. CASE ~(f = x.lockPath /\ x.hasLock)
    <3> DEFINE y == Y(named, s)
    <3>1. rec' = [rec EXCEPT ![r] = y] /\ ops' = ops \cup {n} /\ MayAcquire
      BY <1>9, <2>3 DEF PermitTransition, Permit
    <3>2. /\ y \in Recs /\ Sound(r, y) /\ Yields(r, x, y, {}) /\ y.proc = x.proc
          /\ \A o \in ops : o.r = r => Started(o, y)
      <4>1. /\ named \in Reservations /\ Continues(x, named) /\ named.target \in Reach(r) \cup {None}
            /\ s \in Steps \ {"idle", "asks"} /\ Permitted(r, x.tid) /\ x.step \in {"asks", "run"}
        BY <1>1, <1>5, <2>1
      <4> HIDE DEF named
      <4> QED BY <4>1, PermitYields
    <3>3. /\ n \in Acquisitions /\ n.r = r /\ n.stage = "mkdir" /\ n.role = "successor"
          /\ n.path = f /\ n.tid = x.tid /\ n.host = x.proc
      <4>1. x.tid \in 0..MaxTransitions /\ "successor" \in Roles
        BY <1>1 DEF Recs, Roles
      <4>2. f \in Files
        BY <2>1
      <4> QED BY <4>1, <4>2, AcquisitionFits
    <3>4. f # x.lockPath
      BY <1>1, <1>9, <2>3 DEF Sound, Locking
    <3>5. /\ y.known = x.known /\ y.close = x.close /\ y.hosts = x.hosts /\ y.tid = x.tid
          /\ y.step = s /\ y.tlock = named
      BY <1>1 DEF Recs, Permit
    <3>6. Started(n, y)
      <4>1. /\ x.known = "open" /\ x.close = "no" /\ x.proc = x.hosts /\ x.hosts \in Nat
            /\ x.tid \in Nat /\ f \in Reach(r)
        BY <1>1, <1>9 DEF Permitted, Live, Sound, Hosting, Recs
      <4> HIDE DEF y, n, named
      <4> QED BY <2>1, <3>3, <3>4, <3>5, <4>1 DEF Started, Continues
    <3>7. \A o \in ops : o.r = r /\ o.role = n.role => ~First(o, x)
      BY <3>3 DEF First
    <3> HIDE DEF y, n
    <3> QED BY <3>1, <3>2, <3>3, <3>6, <3>7, AcquireStep
  <2> QED BY <2>2, <2>3
<1> QED BY <1>7, <1>8, <1>9

(* The child asks for its first permit: the file may be reserved by now. *)
LEMMA PrepareStep ==
    ASSUME LocksInv, FilesApart, NEW r \in Records, Prepare(r)
    PROVE  LocksInv'
<1>1. PICK f \in {None} \cup (IF KnownTarget THEN Targets[r] ELSE {}) :
          PermitTransition(r, "prepare", f)
  BY DEF Prepare
<1>2. f \in (Files \cap Reach(r)) \cup {None}
  BY LocksAssumption DEF LocksAssumption, Reach
<1> QED BY <1>1, <1>2, PermitStep DEF Prepare

(* The child asks for its second permit, for the file that the SDK has made. *)
LEMMA SuccessorStep ==
    ASSUME LocksInv, FilesApart, NEW r \in Records, Successor(r)
    PROVE  LocksInv'
<1> DEFINE x == rec[r]
<1>1. PICK f \in IF x.target # None THEN {x.target} ELSE Targets[r] \cup ({x.lockPath} \ {None}) :
          PermitTransition(r, "successor", f)
  BY DEF Successor
<1>2. x \in Recs /\ Sound(r, x) /\ Targets[r] \subseteq Files /\ None \notin Files
  BY RecordFacts, LocksAssumption DEF LocksAssumption
<1>3. f \in (Files \cap Reach(r)) \cup {None} /\ f # None
  BY <1>2 DEF Recs, Sound, Within, Reach
<1> QED BY <1>1, <1>3, PermitStep DEF Successor

(* The lock directory of an acquisition is made. *)
LEMMA MkdirDoneStep ==
    ASSUME LocksInv, NEW o \in ops, MkdirDone(o)
    PROVE  LocksInv'
<1> DEFINE m == [o EXCEPT !.stage = "probe"]
<1>1. /\ ops' = (ops \ {o}) \cup {m} /\ dir[o.path] = "free"
      /\ dir' = [dir EXCEPT ![o.path] = "ours"] /\ o.stage = "mkdir"
      /\ rec' = rec /\ byFile' = byFile /\ watched' = watched /\ leaving' = leaving
      /\ late' = late /\ tokens' = tokens
  BY DEF MkdirDone
<1>2. /\ ops \subseteq Acquisitions /\ IsFiniteSet(ops) /\ tokens \in Nat /\ MaxTokens \in Nat
      /\ Cardinality(ops) \in Nat /\ tokens + Cardinality(ops) <= MaxTokens
      /\ \A q \in ops : Started(q, rec[q.r])
      /\ o.path \in Files
  BY FlightFacts
<1>3. /\ m \in Acquisitions /\ m.r = o.r /\ m.role = o.role /\ m.path = o.path /\ m.tid = o.tid
      /\ m.host = o.host /\ m.stage = "probe"
  BY <1>2 DEF Acquisitions
<1> HIDE DEF m
<1>4. Flights'
  <2>1. /\ IsFiniteSet(ops \ {o}) /\ Cardinality(ops \ {o}) = Cardinality(ops) - 1
    BY <1>2, FS_RemoveElement
  <2>2. /\ IsFiniteSet((ops \ {o}) \cup {m})
        /\ Cardinality((ops \ {o}) \cup {m}) =
             IF m \in ops \ {o} THEN Cardinality(ops \ {o}) ELSE Cardinality(ops \ {o}) + 1
    BY <2>1, FS_AddElement, Zenon
  <2>3. /\ ops' \subseteq Acquisitions /\ IsFiniteSet(ops') /\ tokens' \in Nat
        /\ tokens' + Cardinality(ops') <= MaxTokens
    BY <1>1, <1>2, <1>3, <2>1, <2>2
  <2>4. \A q \in ops' : Started(q, rec'[q.r])
    BY <1>1, <1>2, <1>3 DEF Started
  <2>5. ASSUME NEW p \in ops', NEW q \in ops', p.r = q.r, p.role = q.role,
               First(p, rec'[p.r]), First(q, rec'[q.r])
        PROVE  p = q
    <3> DEFINE Old(a) == IF a = m THEN o ELSE a
    <3>1. \A a \in ops' : /\ Old(a) \in ops /\ Old(a).r = a.r /\ Old(a).role = a.role
                          /\ Old(a).host = a.host
      BY <1>1, <1>3
    <3>2. First(Old(p), rec[Old(p).r]) /\ First(Old(q), rec[Old(q).r])
      BY <1>1, <2>5, <3>1 DEF First
    <3>3. Old(p) = Old(q)
      <4> HIDE DEF Old
      <4> QED BY <2>5, <3>1, <3>2 DEF LocksInv, Flights
    <3> QED BY <1>1, <2>5, <3>3
  <2> QED BY <2>3, <2>4, <2>5 DEF Flights
<1>5. Disk'
  <2>1. /\ dir \in [Files -> {"free", "ours", "rival"}]
        /\ \A f \in Files : Slot(f) /\ Watching(f)
        /\ \A q \in Records : Held(q)
    BY DEF LocksInv, Shape, Disk
  <2>2. ASSUME NEW f \in Files PROVE Slot(f)'
    <3>1. Slot(f)
      BY <2>1
    <3>2. CASE f = o.path
      <4>1. watched[f] = None /\ leaving[f] = None /\ ~Probed(f)
        BY <1>1, <3>1, <3>2 DEF Slot
      <4>2. \A q \in ops' : q.stage = "probe" /\ q.path = f => q = m
        BY <1>1, <4>1 DEF Probed
      <4>3. Probed(f)' /\ dir'[f] = "ours"
        BY <1>1, <1>3, <2>1, <3>2 DEF Probed
      <4> QED BY <1>1, <4>1, <4>2, <4>3 DEF Slot
    <3>3. CASE f # o.path
      <4>1. Probed(f)' <=> Probed(f)
        BY <1>1, <1>3, <3>3 DEF Probed
      <4>2. dir'[f] = dir[f]
        BY <1>1, <2>1, <3>3
      <4>3. \A p, q \in ops' : p.stage = "probe" /\ q.stage = "probe" /\ p.path = f /\ q.path = f => p = q
        BY <1>1, <1>3, <3>1, <3>3 DEF Slot
      <4> QED BY <1>1, <3>1, <4>1, <4>2, <4>3 DEF Slot
    <3> QED BY <3>2, <3>3
  <2>3. \A f \in Files : Watching(f)'
    BY <1>1, <2>1 DEF Watching
  <2>4. \A q \in Records : Held(q)'
    BY <1>1, <2>1 DEF Held
  <2> QED BY <2>2, <2>3, <2>4 DEF Disk
<1>6. Shape' /\ RecordsFit'
  BY <1>1 DEF LocksInv, Shape, RecordsFit
<1> QED BY <1>4, <1>5, <1>6 DEF LocksInv

\* Record x, whose acquisition o is listed, may become y: it has that lock, and
\* its other locks go on being its own.
Takes(o, x, y) ==
    /\ y.known = x.known /\ y.proc \in {x.proc, x.hosts + 1}
    /\ Holder(y, o.path, Identity(o))
    /\ \A f \in Files \ {o.path}, w \in Identities : Holder(x, f, w) => Holder(y, f, w)
    /\ y.comp = x.comp
    /\ \A f \in Files, t \in 0..MaxTokens :
         Claim(y, f, t) => \/ Claim(x, f, t) /\ f # o.path
                           \/ f = o.path /\ t = tokens + 1

(* An acquisition ends well: the file is listed for the record that asked. *)
LEMMA ListedStep ==
    ASSUME LocksInv, FilesApart, NEW o \in ops, o.stage = "probe", NEW y \in Recs,
           rec' = [rec EXCEPT ![o.r] = y], Sound(o.r, y), Takes(o, rec[o.r], y),
           \A q \in Records : Routed(q, rec'[q], byFile'), byFile' \in [Files -> Records \cup {None}],
           ops' = ops \ {o}, Listed(o),
           \A q \in ops' : q.r = o.r => Started(q, y)
    PROVE  LocksInv'
<1>1. o.r \in Records /\ o.path \in Files /\ rec[o.r].known = "open"
  BY FlightRecord
<1>2. /\ rec' \in [Records -> Recs] /\ rec'[o.r] = y
      /\ \A q \in Records : q # o.r => rec'[q] = rec[q]
      /\ \A q \in Records : Sound(q, rec'[q])
  BY <1>1, RecordsKeep
<1>3. Flights'
  <2>1. tokens' = tokens + 1
    BY DEF Listed
  <2>2. y.proc \in {0, rec[o.r].proc, rec[o.r].hosts + 1}
    BY DEF Takes
  <2> QED BY <1>1, <1>2, <2>1, <2>2, FlightsKeep
<1>4. Disk'
  <2>1. ASSUME NEW f \in Files \ {o.path}, watched[f] # None, watched[f].r = o.r
        PROVE  Holder(y, f, watched[f])
    <3>1. Watching(f) /\ watched[f] \in Identities
      BY <2>1 DEF LocksInv, Disk, Shape
    <3> QED BY <2>1, <3>1 DEF Watching, Takes
  <2> QED BY <1>1, <1>2, <2>1, ListedKeeps DEF Takes
<1>5. Shape'
  <2>1. Identity(o) \in Identities
    <3>1. /\ o.role \in Roles /\ o.tid \in 0..MaxTransitions /\ MaxTokens \in Nat /\ tokens \in Nat
          /\ tokens + 1 <= MaxTokens
      BY FlightFacts DEF Acquisitions
    <3> QED BY <1>1, <3>1 DEF Identity, Identities
  <2> QED BY <1>1, <1>2, <2>1 DEF LocksInv, Shape, Listed
<1> QED BY <1>2, <1>3, <1>4, <1>5 DEF LocksInv, RecordsFit

(* An acquisition that came too late is undone in the turn in which it ends. *)
LEMMA UndoneStep ==
    ASSUME LocksInv, FilesApart, NEW o \in ops, o.stage = "probe", NEW y \in Recs,
           rec' = [rec EXCEPT ![o.r] = y], Sound(o.r, y), Yields(o.r, rec[o.r], y, {}),
           byFile' = byFile, ops' = ops \ {o}, ListedThenUnlocked(o),
           \A q \in ops' : q.r = o.r => Started(q, y)
    PROVE  LocksInv'
<1>1. o.r \in Records /\ o.path \in Files /\ rec[o.r].known = "open"
  BY FlightRecord
<1>2. /\ rec' \in [Records -> Recs] /\ rec'[o.r] = y
      /\ \A q \in Records : q # o.r => rec'[q] = rec[q]
      /\ \A q \in Records : Sound(q, rec'[q])
  BY <1>1, RecordsKeep
<1>3. \A q \in Records : Routed(q, rec'[q], byFile')
  BY <1>1, <1>2, RoutesKeep DEF Yields, Frees
<1>4. Flights'
  <2>1. tokens' = tokens + 1
    BY DEF ListedThenUnlocked
  <2> QED BY <1>1, <1>2, <2>1, FlightsKeep DEF Yields, Frees
<1>5. Disk'
  <2>1. ASSUME NEW f \in Files, watched[f] # None, watched[f].r = o.r
        PROVE  Holder(y, f, watched[f])
    <3>1. Watching(f) /\ watched[f] \in Identities
      BY <2>1 DEF LocksInv, Disk, Shape
    <3> QED BY <2>1, <3>1 DEF Watching, Yields, Frees
  <2>2. /\ y.known = rec[o.r].known
        /\ ~y.comp => \A f \in Files, t \in 0..MaxTokens :
               Claim(y, f, t) => ~rec[o.r].comp /\ Claim(rec[o.r], f, t)
    BY DEF Yields, Frees
  <2> QED BY <1>1, <1>2, <2>1, <2>2, UndoneKeeps
<1>6. Shape'
  <2>1. Identity(o) \in Identities
    <3>1. /\ o.role \in Roles /\ o.tid \in 0..MaxTransitions /\ MaxTokens \in Nat /\ tokens \in Nat
          /\ tokens + 1 <= MaxTokens
      BY FlightFacts DEF Acquisitions
    <3> QED BY <1>1, <3>1 DEF Identity, Identities
  <2> QED BY <1>1, <1>2, <2>1 DEF LocksInv, Shape, ListedThenUnlocked
<1> QED BY <1>2, <1>3, <1>4, <1>5, <1>6 DEF LocksInv, RecordsFit

(* The file of an activation is locked, and its host is started; or the record *)
(* has died meanwhile and the lock is undone.                                 *)
LEMMA PrimaryLockedStep ==
    ASSUME LocksInv, FilesApart, NEW o \in ops, PrimaryLocked(o)
    PROVE  LocksInv'
<1> DEFINE r == o.r
           x == rec[r]
           t == tokens + 1
           h == x.hosts + 1
<1>1. /\ r \in Records /\ x \in Recs /\ Sound(r, x) /\ Started(o, x) /\ o.path \in Files
      /\ o.role = "primary" /\ o.stage = "probe" /\ ops' = ops \ {o} /\ byFile' = byFile
      /\ byFile \in [Files -> Records \cup {None}]
  BY FlightRecord DEF PrimaryLocked, LocksInv, Shape
<1>2. /\ x.phase = "locking" /\ ~x.hasLock /\ x.lockPath = None /\ x.proc = 0 /\ ~x.retiring
      /\ x.tlock = None /\ ~x.ready /\ x.step = "idle" /\ x.file = o.path /\ x.known = "open"
      /\ x.close # "released"
  BY <1>1 DEF Started, Sound, Locking, Hosting, Replacing, Recs
<1>3. \A q \in ops' : q.r = r => Started(q, x) /\ q.role # "primary" /\ q.host \in Nat
  BY <1>1, FlightRecord, FlightFacts
<1>4. CASE x.dead \/ x.comp
  <2> DEFINE y == [x EXCEPT !.phase = "idle"]
  <2>1. rec' = [rec EXCEPT ![r] = y] /\ ListedThenUnlocked(o)
    BY <1>4 DEF PrimaryLocked
  <2>2. y \in Recs
    BY <1>1 DEF Recs
  <2>3. Sound(r, y)
    BY <1>1, <1>2 DEF Recs, Sound, Within, Locking, Hosting, Replacing, Ended, Bare
  <2>4. Yields(r, x, y, {})
    BY <1>1 DEF Recs, Yields, Frees, Holder, Claim
  <2>5. \A q \in ops' : q.r = r => Started(q, y)
    BY <1>1, <1>3 DEF Recs, Started
  <2> HIDE DEF y
  <2> QED BY <1>1, <2>1, <2>2, <2>3, <2>4, <2>5, UndoneStep
<1>5. CASE ~(x.dead \/ x.comp)
  <2> DEFINE z == [x EXCEPT !.hasLock = TRUE, !.lockPath = o.path, !.token = t, !.phase = "starting"]
             y == [z EXCEPT !.hosts = h, !.proc = h]
  <2>1. Listed(o)
    BY <1>5 DEF PrimaryLocked
  <2>2. t \in 0..MaxTokens /\ h \in Nat
    <3>1. tokens \in Nat /\ MaxTokens \in Nat /\ tokens + 1 <= MaxTokens
      BY FlightFacts
    <3>2. x.hosts \in Nat
      BY <1>1 DEF Recs
    <3> QED BY <3>1, <3>2
  <2>3. rec' = [rec EXCEPT ![r] = y]
    <3>1. rec' = [rec EXCEPT ![r] = [x EXCEPT !.hasLock = TRUE, !.lockPath = o.path, !.token = t,
                                               !.phase = "starting", !.hosts = h, !.proc = h]]
      BY <1>1, <1>5 DEF PrimaryLocked, Recs
    <3> QED BY <3>1
  <2> HIDE DEF t, h
  <2>4. z \in Recs
    BY <1>1, <2>2 DEF Recs
  <2>5. y \in Recs
    <3> HIDE DEF z
    <3> QED BY <2>2, <2>4 DEF Recs
  <2>6. /\ y.known = "open" /\ y.file = o.path /\ y.hasLock /\ y.lockPath = o.path
        /\ y.token = t /\ y.tlock = None /\ y.tid = x.tid /\ ~y.dead /\ ~y.comp /\ y.proc = h
        /\ y.hosts = h /\ ~y.ready /\ y.phase = "starting" /\ ~y.retiring /\ y.close = x.close
        /\ y.reserved = x.reserved /\ y.step = "idle" /\ y.target = x.target /\ y.trans = x.trans
    BY <1>1, <1>2, <1>5 DEF Recs
  <2> HIDE DEF y
  <2>7. Sound(r, y)
    <3>1. Within(r, y) /\ Locking(y)
      <4>1. o.path # None
        BY <1>1, LocksAssumption DEF LocksAssumption
      <4> QED BY <1>1, <1>2, <2>6, <4>1 DEF Sound, Within, Locking
    <3>2. h # 0
      <4>1. x.hosts \in Nat
        BY <1>1 DEF Recs
      <4> QED BY <4>1 DEF h
    <3>3. Hosting(y) /\ Replacing(y) /\ Ended(y)
      BY <1>1, <1>2, <1>5, <2>6, <3>2 DEF Sound, Hosting, Replacing, Ended
    <3> QED BY <3>1, <3>3 DEF Sound
  <2>8. Takes(o, x, y)
    <3>1. Identity(o).token = t
      BY DEF Identity, t
    <3>2. \A f \in Files, w \in Identities : ~Holder(x, f, w)
      BY <1>2 DEF Holder
    <3>3. y.comp = x.comp
      BY <1>1, <1>5, <2>5, <2>6 DEF Recs
    <3> QED BY <1>2, <2>6, <3>1, <3>2, <3>3 DEF Takes, Holder, Claim, t, h
  <2>9. \A q \in ops' : q.r = r => Started(q, y)
    <3>1. ASSUME NEW q \in ops', q.r = r PROVE Started(q, y)
      <4>1. q.host <= x.hosts /\ q.host \in Nat /\ x.hosts \in Nat
        BY <1>1, <1>3, <3>1 DEF Started, Recs
      <4>2. q.host # h /\ q.host <= h
        BY <4>1 DEF h
      <4> QED BY <1>2, <1>3, <2>6, <3>1, <4>2 DEF Started
    <3> QED BY <3>1
  <2>10. \A q \in Records : Routed(q, rec'[q], byFile')
    <3>1. rec'[r] = y /\ \A q \in Records : q # r => rec'[q] = rec[q]
      BY <1>1, <2>3, <2>5, <2>7, RecordsKeep
    <3> QED BY <1>1, <1>2, <2>6, <3>1, RoutesKeep
  <2> QED BY <1>1, <2>1, <2>3, <2>5, <2>7, <2>8, <2>9, <2>10, ListedStep
<1> QED BY <1>4, <1>5

(* The child has the successor's file, or its transition is gone. *)
LEMMA SuccessorLockedStep ==
    ASSUME LocksInv, FilesApart, NEW o \in ops, SuccessorLocked(o)
    PROVE  LocksInv'
<1> DEFINE r == o.r
           x == rec[r]
           t == tokens + 1
<1>1. /\ r \in Records /\ x \in Recs /\ Sound(r, x) /\ Started(o, x) /\ o.path \in Files
      /\ o.role = "successor" /\ o.stage = "probe" /\ ops' = ops \ {o} /\ byFile' = byFile
      /\ byFile \in [Files -> Records \cup {None}] /\ None \notin Reservations
      /\ \A q \in ops' : q.r = r => Started(q, x)
  BY FlightRecord, RecordFacts DEF SuccessorLocked, LocksInv, Shape
<1>2. CASE ~StillReserved(o)
  <2> DEFINE y == AnswerChild(o, x, FALSE)
  <2>1. rec' = [rec EXCEPT ![r] = y] /\ ListedThenUnlocked(o)
    BY <1>2 DEF SuccessorLocked
  <2>2. y \in Recs /\ Sound(r, y) /\ Yields(r, x, y, {}) /\ \A q \in ops' : q.r = o.r => Started(q, y)
    BY <1>1, AnswerFits
  <2> HIDE DEF y
  <2> QED BY <1>1, <2>1, <2>2, UndoneStep
<1>3. CASE StillReserved(o)
  <2> DEFINE l == [x.tlock EXCEPT !.locked = TRUE, !.token = t]
             z == [x EXCEPT !.tlock = l]
             y == AnswerChild(o, z, TRUE)
  <2>1. Listed(o) /\ rec' = [rec EXCEPT ![r] = AnswerChild(o,
                       [x EXCEPT !.tlock.locked = TRUE, !.tlock.token = t], TRUE)]
    BY <1>3 DEF SuccessorLocked
  <2>2. ~x.comp /\ ~x.dead /\ x.tlock # None /\ x.tlock.tid = o.tid /\ x.tlock \in Reservations
    BY <1>1, <1>3 DEF StillReserved, Recs
  <2>3. [x EXCEPT !.tlock.locked = TRUE, !.tlock.token = t] = z
    BY <1>1 DEF Recs
  <2>4. t \in 0..MaxTokens /\ t # 0
    <3>1. tokens \in Nat /\ MaxTokens \in Nat /\ tokens + 1 <= MaxTokens
      BY FlightFacts
    <3> QED BY <3>1
  <2>5. rec' = [rec EXCEPT ![r] = y]
    BY <2>1, <2>3
  <2> HIDE DEF t
  <2>6. /\ l \in Reservations /\ l.tid = x.tlock.tid /\ l.old = x.tlock.old
        /\ l.target = x.tlock.target /\ l.locked /\ l.token = t /\ l # None
    BY <1>1, <2>2, <2>4 DEF Reservations
  <2> HIDE DEF l
  <2>7. z \in Recs
    BY <1>1, <2>6 DEF Recs
  <2>8. /\ z.known = x.known /\ z.file = x.file /\ z.hasLock = x.hasLock /\ z.lockPath = x.lockPath
        /\ z.token = x.token /\ z.tlock = l /\ z.trans = x.trans /\ z.tid = x.tid
        /\ z.dead = x.dead /\ z.comp = x.comp /\ z.proc = x.proc /\ z.hosts = x.hosts
        /\ z.ready = x.ready /\ z.phase = x.phase /\ z.retiring = x.retiring /\ z.close = x.close
        /\ z.reserved = x.reserved /\ z.step = x.step /\ z.target = x.target
    BY <1>1 DEF Recs
  <2> HIDE DEF z
  <2>9. x.tlock.target = o.path /\ o.path # x.tlock.old /\ o.path # None
    BY <1>1, <2>2, LocksAssumption DEF Started, LocksAssumption
  <2>10. Sound(r, z)
    <3>1. Within(r, z) /\ Locking(z) /\ Hosting(z) /\ Ended(z)
      BY <1>1, <2>2, <2>6, <2>8 DEF Sound, Within, Locking, Hosting, Ended, Bare
    <3>2. Replacing(z)
      BY <1>1, <2>2, <2>6, <2>8, <2>9 DEF Sound, Replacing
    <3> QED BY <3>1, <3>2 DEF Sound
  <2>11. \A q \in ops' : q.r = r => Started(q, z)
    BY <1>1, <2>2, <2>6, <2>8 DEF Started
  <2>12. /\ y \in Recs /\ Sound(r, y) /\ Yields(r, z, y, {})
         /\ \A q \in ops' : q.r = r => Started(q, y)
    BY <1>1, <2>7, <2>10, <2>11, AnswerFits
  <2>13. y.proc = z.proc /\ y.known = z.known /\ y.comp = z.comp /\ y.file = z.file
    BY <2>7 DEF AnswerChild, Recs
  <2> HIDE DEF y
  <2>14. Takes(o, x, y)
    <3>1. Identity(o).token = t /\ Identity(o).role = "successor" /\ Identity(o).tid = o.tid
      BY <1>1 DEF Identity, t
    <3>2. Holder(z, o.path, Identity(o))
      BY <2>2, <2>6, <2>8, <2>9, <3>1 DEF Holder
    <3>3. Identity(o) \in Identities
      <4>1. /\ o.role \in Roles /\ o.tid \in 0..MaxTransitions /\ tokens + 1 \in 1..MaxTokens
        BY FlightFacts DEF Acquisitions
      <4> QED BY <1>1, <4>1 DEF Identity, Identities
    <3>4. Holder(y, o.path, Identity(o))
      BY <1>1, <2>12, <3>2, <3>3 DEF Yields, Frees
    <3>5. \A f \in Files \ {o.path}, w \in Identities : Holder(x, f, w) => Holder(y, f, w)
      <4>1. \A f \in Files \ {o.path}, w \in Identities : Holder(x, f, w) => Holder(z, f, w)
        BY <2>8, <2>9 DEF Holder
      <4> QED BY <2>12, <4>1 DEF Yields, Frees
    <3>6. \A f \in Files, u \in 0..MaxTokens :
             Claim(z, f, u) => (Claim(x, f, u) /\ f # o.path) \/ (f = o.path /\ u = t)
      <4>1. x.hasLock => x.lockPath # o.path
        BY <1>1, <2>2, <2>9 DEF Sound, Replacing
      <4> QED BY <2>6, <2>8, <2>9, <4>1 DEF Claim
    <3>7. \A f \in Files, u \in 0..MaxTokens :
             Claim(y, f, u) => (Claim(x, f, u) /\ f # o.path) \/ (f = o.path /\ u = t)
      BY <2>12, <3>6 DEF Yields, Frees
    <3> QED BY <2>8, <2>13, <3>4, <3>5, <3>7 DEF Takes, t
  <2>15. \A q \in Records : Routed(q, rec'[q], byFile')
    <3>1. rec'[r] = y /\ \A q \in Records : q # r => rec'[q] = rec[q]
      BY <1>1, <2>5, <2>12, RecordsKeep
    <3> QED BY <1>1, <2>8, <2>13, <3>1, RoutesKeep
  <2> QED BY <1>1, <2>1, <2>5, <2>12, <2>14, <2>15, ListedStep
<1> QED BY <1>2, <1>3

(* A new session has its file, or its host is gone. *)
LEMMA InitialLockedStep ==
    ASSUME LocksInv, FilesApart, NEW o \in ops, InitialLocked(o)
    PROVE  LocksInv'
<1> DEFINE r == o.r
           x == rec[r]
           t == tokens + 1
           current == Live(r) /\ x.proc = o.host /\ ~x.dead
<1>1. /\ r \in Records /\ x \in Recs /\ Sound(r, x) /\ Started(o, x) /\ o.path \in Files
      /\ o.path \in Reach(r) /\ o.role = "initial" /\ o.stage = "probe" /\ ops' = ops \ {o}
      /\ byFile \in [Files -> Records \cup {None}] /\ rec \in [Records -> Recs]
      /\ None \notin Files /\ r # None
      /\ \A q \in ops' : q.r = r => Started(q, x) /\ q.host \in Nat
  BY FlightRecord, RecordFacts, FlightFacts, LocksAssumption
     DEF InitialLocked, LocksInv, Shape, LocksAssumption
<1>2. CASE ~current
  <2>1. rec' = [rec EXCEPT ![r] = x] /\ ListedThenUnlocked(o) /\ byFile' = byFile
    BY <1>1, <1>2 DEF InitialLocked
  <2>2. Yields(r, x, x, {})
    BY DEF Yields, Frees
  <2> QED BY <1>1, <2>1, <2>2, UndoneStep
<1>3. CASE current
  <2> DEFINE y == [x EXCEPT !.hasLock = TRUE, !.lockPath = o.path, !.token = t, !.file = o.path]
  <2>1. Listed(o) /\ rec' = [rec EXCEPT ![r] = y] /\ byFile' = [byFile EXCEPT ![o.path] = r]
    BY <1>3 DEF InitialLocked
  <2>2. t \in 0..MaxTokens
    <3>1. tokens \in Nat /\ MaxTokens \in Nat /\ tokens + 1 <= MaxTokens
      BY FlightFacts
    <3> QED BY <3>1
  <2>3. /\ x.known = "open" /\ ~x.dead /\ ~x.comp /\ x.proc # 0 /\ x.proc = o.host /\ ~x.ready
        /\ x.file = None /\ ~x.hasLock /\ x.step = "idle" /\ x.tlock = None
        /\ x.phase = "starting" /\ ~x.retiring
    BY <1>1, <1>3 DEF Live, Started, Sound, Locking, Hosting, Replacing, Recs
  <2> HIDE DEF t
  <2>4. y \in Recs
    BY <1>1, <2>2 DEF Recs
  <2>5. /\ y.known = x.known /\ y.file = o.path /\ y.hasLock /\ y.lockPath = o.path
        /\ y.token = t /\ y.tlock = x.tlock /\ y.trans = x.trans /\ y.tid = x.tid
        /\ y.dead = x.dead /\ y.comp = x.comp /\ y.proc = x.proc /\ y.hosts = x.hosts
        /\ y.ready = x.ready /\ y.phase = x.phase /\ y.retiring = x.retiring /\ y.close = x.close
        /\ y.reserved = x.reserved /\ y.step = x.step /\ y.target = x.target
    BY <1>1 DEF Recs
  <2> HIDE DEF y
  <2>6. Sound(r, y)
    <3>1. Within(r, y) /\ Locking(y)
      BY <1>1, <2>3, <2>5 DEF Sound, Within, Locking
    <3>2. Hosting(y) /\ Replacing(y) /\ Ended(y)
      BY <1>1, <2>3, <2>5 DEF Sound, Hosting, Replacing, Ended, Bare
    <3> QED BY <3>1, <3>2 DEF Sound
  <2>7. Takes(o, x, y)
    <3>1. Identity(o).token = t
      BY DEF Identity, t
    <3>2. \A f \in Files, w \in Identities : ~Holder(x, f, w)
      BY <2>3 DEF Holder
    <3> QED BY <2>3, <2>5, <3>1, <3>2 DEF Takes, Holder, Claim, t
  <2>8. ASSUME NEW q \in ops', q.r = r PROVE Started(q, y)
    <3>1. q \in ops /\ q # o /\ Started(q, x)
      BY <1>1, <2>8
    <3>2. CASE q.role = "initial"
      <4>1. q.host # x.proc
        BY <1>1, <2>3, <2>8, <3>1, <3>2 DEF LocksInv, Flights, First
      <4> QED BY <2>5, <3>1, <3>2, <4>1 DEF Started
    <3>3. CASE q.role # "initial"
      BY <2>3, <2>5, <3>1, <3>3 DEF Started
    <3> QED BY <3>2, <3>3
  <2>9. ASSUME NEW q \in Records PROVE Routed(q, rec'[q], byFile')
    <3>1. Routed(q, rec[q], byFile) /\ Within(q, rec[q]) /\ Routed(r, x, byFile)
      BY <1>1 DEF LocksInv, RecordsFit, Sound
    <3>2. CASE q = r
      <4>1. \A f \in Files : byFile[f] # r
        BY <1>1, <2>3, <3>1 DEF Routed
      <4> QED BY <1>1, <2>1, <2>3, <2>5, <3>2, <4>1 DEF Routed
    <3>3. CASE q # r
      <4>1. o.path \notin Reach(q) \cup {None}
        BY <1>1, <3>3 DEF FilesApart
      <4>2. o.path # rec[q].file
        BY <3>1, <4>1 DEF Within
      <4>3. rec'[q] = rec[q] /\ byFile'[o.path] = r /\ \A f \in Files : f # o.path => byFile'[f] = byFile[f]
        BY <1>1, <2>1, <3>3
      <4> QED BY <3>1, <3>3, <4>2, <4>3 DEF Routed
    <3> QED BY <3>2, <3>3
  <2>10. byFile' \in [Files -> Records \cup {None}]
    BY <1>1, <2>1
  <2> QED BY <1>1, <2>1, <2>4, <2>6, <2>7, <2>8, <2>9, <2>10, ListedStep
<1> QED BY <1>2, <1>3

(* The replacement is committed. *)
LEMMA CommitTransitionStep ==
    ASSUME LocksInv, FilesApart, NEW r \in Records, CommitTransition(r)
    PROVE  LocksInv'
<1> DEFINE x == rec[r]
           l == x.tlock
           t == IF l.target # l.old THEN l.token ELSE x.token
           y == [x EXCEPT !.hasLock = TRUE, !.lockPath = l.target, !.file = l.target, !.token = t,
                          !.tlock = None, !.trans = 0, !.step = "idle", !.target = None]
           U == IF l.old # l.target THEN {l.old} ELSE {}
<1>1. /\ x \in Recs /\ Sound(r, x) /\ rec \in [Records -> Recs] /\ l # None /\ l.locked
      /\ l.target # None /\ (l.target # l.old => l.token # 0) /\ Permitted(r, x.tid)
      /\ x.step = "commit" /\ MaxTransitions \in Nat /\ None \notin Files /\ r # None
      /\ byFile \in [Files -> Records \cup {None}]
      /\ \A o \in ops : o.r = r => Started(o, x)
  BY RecordFacts, LocksAssumption DEF CommitTransition, LocksInv, Shape, LocksAssumption
<1>2. /\ rec' = [rec EXCEPT ![r] = y] /\ byFile' = Rerouted(r, x.file, l.target)
      /\ UnlockListed(r, U, watched) /\ ops' = ops /\ dir' = dir /\ tokens' = tokens
  BY <1>1 DEF CommitTransition, UnlockPaths, Recs
<1>3. /\ l \in Reservations /\ l.target \in Files /\ l.target \in Reach(r) /\ l.old = x.lockPath
      /\ x.known = "open" /\ ~x.dead /\ ~x.comp /\ x.proc # 0 /\ x.ready /\ x.phase = "idle"
      /\ ~x.retiring /\ x.close = "no" /\ (x.hasLock <=> x.lockPath # None)
      /\ x.hasLock => x.file = x.lockPath
      /\ x.lockPath \in Reach(r) \cup {None}
  BY <1>1 DEF Recs, Reservations, Permitted, Live, Sound, Within, Locking, Hosting, Replacing
<1>4. t \in 0..MaxTokens
  BY <1>1, <1>3 DEF Recs, Reservations
<1>5. (l.target # l.old => t = l.token /\ t # 0 /\ U = {x.lockPath})
      /\ (l.target = l.old => t = x.token /\ U = {} /\ x.hasLock /\ x.lockPath = l.target)
  BY <1>1, <1>3
<1> HIDE DEF t, U
<1>6. y \in Recs
  <2> DEFINE z == [x EXCEPT !.hasLock = TRUE, !.lockPath = l.target, !.file = l.target, !.token = t]
  <2>1. z \in Recs
    BY <1>1, <1>3, <1>4 DEF Recs
  <2>2. [z EXCEPT !.tlock = None] \in Recs
    <3> HIDE DEF z
    <3> QED BY <2>1 DEF Recs
  <2>3. [[z EXCEPT !.tlock = None] EXCEPT !.trans = 0, !.step = "idle", !.target = None] \in Recs
    <3> HIDE DEF z
    <3> QED BY <2>2, RecordFacts, FragmentsFit
  <2>4. y = [[z EXCEPT !.tlock = None] EXCEPT !.trans = 0, !.step = "idle", !.target = None]
    OBVIOUS
  <2> HIDE DEF y, z
  <2> QED BY <2>3, <2>4
<1>7. /\ y.known = x.known /\ y.file = l.target /\ y.hasLock /\ y.lockPath = l.target
      /\ y.token = t /\ y.tlock = None /\ y.trans = 0 /\ y.tid = x.tid
      /\ y.dead = x.dead /\ y.comp = x.comp /\ y.proc = x.proc /\ y.hosts = x.hosts
      /\ y.ready = x.ready /\ y.phase = x.phase /\ y.retiring = x.retiring /\ y.close = x.close
      /\ y.reserved = x.reserved /\ y.step = "idle" /\ y.target = None
  BY <1>1 DEF Recs
<1> HIDE DEF y
<1>8. Sound(r, y)
  <2>1. Within(r, y) /\ Locking(y)
    BY <1>1, <1>3, <1>7 DEF Within, Locking
  <2>2. Hosting(y) /\ Replacing(y) /\ Ended(y)
    BY <1>1, <1>3, <1>7 DEF Sound, Hosting, Replacing, Ended
  <2> QED BY <2>1, <2>2 DEF Sound
<1>9. Frees(r, x, y, U)
  <2>1. \A f \in Files \ U, w \in Identities : Holder(x, f, w) => Holder(y, f, w)
    <3>1. l.token # 0 => l.target # l.old
      BY <1>1 DEF Sound, Replacing
    <3>2. \A w \in Identities : w.token # 0
      BY DEF Identities
    <3> QED BY <1>3, <1>5, <1>7, <3>1, <3>2 DEF Holder
  <2>2. \A f \in Files, u \in 0..MaxTokens : Claim(y, f, u) => Claim(x, f, u) /\ f \notin U
    BY <1>1, <1>3, <1>5, <1>7 DEF Claim
  <2>3. U \subseteq Reach(r) \cup {None}
    BY <1>3, <1>5
  <2> QED BY <1>7, <2>1, <2>2, <2>3 DEF Frees
<1>10. \A o \in ops : o.r = r => Started(o, y)
  BY <1>1, <1>3, <1>7 DEF Started
<1>11. ASSUME NEW q \in Records PROVE Routed(q, rec'[q], byFile')
  <2>1. Routed(q, rec[q], byFile) /\ Within(q, rec[q]) /\ Routed(r, x, byFile)
    BY <1>1 DEF LocksInv, RecordsFit, Sound
  <2>2. \A f \in Files : byFile'[f] = IF f = l.target THEN r
                                      ELSE IF f = x.file /\ byFile[f] = r THEN None ELSE byFile[f]
    BY <1>2 DEF Rerouted
  <2>3. CASE q = r
    BY <1>1, <1>2, <1>3, <1>7, <2>1, <2>2, <2>3 DEF Routed
  <2>4. CASE q # r
    <3>1. l.target \notin Reach(q) \cup {None}
      BY <1>1, <1>3, <2>4 DEF FilesApart
    <3>2. rec'[q] = rec[q] /\ l.target # rec[q].file
      BY <1>1, <1>2, <2>1, <2>4, <3>1 DEF Within
    <3>3. q # None
      BY LocksAssumption DEF LocksAssumption
    <3> QED BY <2>1, <2>2, <2>4, <3>2, <3>3 DEF Routed
  <2> QED BY <2>3, <2>4
<1>12. byFile' \in [Files -> Records \cup {None}]
  BY <1>1, <1>2 DEF Rerouted
<1> QED BY <1>2, <1>6, <1>7, <1>8, <1>9, <1>10, <1>11, <1>12, RouteStep

(* A session is opened. *)
LEMMA OpenSessionStep ==
    ASSUME LocksInv, FilesApart, NEW r \in Records, OpenSession(r)
    PROVE  LocksInv'
<1>1. /\ rec \in [Records -> Recs] /\ byFile \in [Files -> Records \cup {None}]
      /\ rec[r].known = "unopened" /\ rec[r] \in Recs /\ Sound(r, rec[r])
      /\ None \notin Files /\ None \notin Records /\ Openings[r] \subseteq Files \cup {None}
      /\ {MaxTokens, MaxHosts, MaxTransitions} \subseteq Nat
  BY RecordFacts, LocksAssumption DEF LocksInv, Shape, OpenSession, LocksAssumption
<1> DEFINE prior(f) == IF f = None THEN None ELSE byFile[f]
<1>2. PICK f \in Openings[r] :
        /\ rec' = [x \in Records |->
                     IF x = r THEN NewRecord(f)
                     ELSE IF x = prior(f) THEN [rec[x] EXCEPT !.known = "dropped"]
                     ELSE rec[x]]
        /\ byFile' = IF f = None THEN byFile ELSE [byFile EXCEPT ![f] = r]
        /\ ops' = ops /\ DiskUnchanged
  BY DEF OpenSession
<1> DEFINE y == NewRecord(f)
<1>3. \A q \in Records, g \in Files : byFile[g] = q <=> rec[q].known = "open" /\ g = rec[q].file
  BY DEF LocksInv, RecordsFit, Routed
<1>4. ASSUME f # None, NEW q \in Records PROVE rec[q].known = "open" => rec[q].file # f
  <2>1. Within(q, rec[q]) /\ f \in Files /\ f \in Reach(r)
    BY <1>1, <1>4 DEF LocksInv, RecordsFit, Sound, Reach
  <2>2. q = r \/ f \notin Reach(q) \cup {None}
    BY <1>4, <2>1 DEF FilesApart
  <2> QED BY <1>1, <2>1, <2>2 DEF Within
<1>5. prior(f) = None
  BY <1>1, <1>3, <1>4
<1>6. rec' = [rec EXCEPT ![r] = y]
  <2> HIDE DEF y, prior
  <2> QED BY <1>1, <1>2, <1>5 DEF y
<1>7. y \in Recs
  BY <1>1 DEF NewRecord, Recs, Steps
<1>8. /\ y.known = "open" /\ y.file = f /\ ~y.hasLock /\ y.lockPath = None /\ y.tlock = None
      /\ ~y.dead /\ ~y.comp /\ y.proc = 0 /\ y.hosts = 0 /\ ~y.ready /\ y.phase = "idle"
      /\ ~y.retiring /\ y.close = "no" /\ y.step = "idle" /\ y.target = None
  BY DEF NewRecord
<1> HIDE DEF y
<1>9. Sound(r, y)
  BY <1>1, <1>8 DEF Sound, Within, Locking, Hosting, Replacing, Ended, Reach
<1>10. Frees(r, rec[r], y, {})
  BY <1>1, <1>8 DEF Frees, Sound, Ended, Bare, Holder, Claim
<1>11. \A o \in ops : o.r # r
  BY <1>1, FlightFacts DEF Started
<1>12. ASSUME NEW q \in Records PROVE Routed(q, rec'[q], byFile')
  <2>1. rec'[r] = y /\ \A p \in Records : p # r => rec'[p] = rec[p]
    BY <1>1, <1>6
  <2>2. \A g \in Files : byFile'[g] = IF g = f THEN r ELSE byFile[g]
    BY <1>1, <1>2
  <2>3. CASE q = r
    BY <1>1, <1>3, <1>8, <2>1, <2>2, <2>3 DEF Routed
  <2>4. CASE q # r
    BY <1>1, <1>3, <1>4, <2>1, <2>2, <2>4 DEF Routed
  <2> QED BY <2>3, <2>4
<1>13. byFile' \in [Files -> Records \cup {None}]
  BY <1>1, <1>2
<1>14. UnlockListed(r, {}, watched) /\ dir' = dir /\ tokens' = tokens
  BY <1>2, NothingUnlocked
<1>15. y.proc \in {0, rec[r].proc, rec[r].hosts + 1}
  BY <1>8
<1> QED BY <1>2, <1>6, <1>7, <1>9, <1>10, <1>11, <1>12, <1>13, <1>14, <1>15, RouteStep

(* A closed session leaves the maps. *)
LEMMA CloseDoneStep ==
    ASSUME LocksInv, FilesApart, NEW r \in Records, CloseDone(r)
    PROVE  LocksInv'
<1> DEFINE x == rec[r]
           y == [x EXCEPT !.known = "closed"]
<1>1. /\ x \in Recs /\ Sound(r, x) /\ rec \in [Records -> Recs] /\ x.known = "open"
      /\ x.close = "released" /\ ~x.retiring /\ None \notin Records
      /\ byFile \in [Files -> Records \cup {None}]
  BY RecordFacts, LocksAssumption DEF CloseDone, Live, Settled, LocksInv, Shape, LocksAssumption
<1>2. /\ rec' = [rec EXCEPT ![r] = y] /\ ops' = ops /\ \A o \in ops : o.r # r
      /\ byFile' = [f \in Files |-> IF f = x.file /\ byFile[f] = r THEN None ELSE byFile[f]]
      /\ UnlockListed(r, {}, watched) /\ dir' = dir /\ tokens' = tokens
  BY <1>1, NothingUnlocked DEF CloseDone, Settled
<1>3. y \in Recs
  BY <1>1 DEF Recs
<1>4. Sound(r, y)
  BY <1>1 DEF Recs, Sound, Within, Locking, Hosting, Replacing, Ended, Bare
<1>5. Frees(r, x, y, {})
  BY <1>1 DEF Recs, Sound, Ended, Bare, Frees, Holder, Claim
<1>6. ASSUME NEW q \in Records PROVE Routed(q, rec'[q], byFile')
  <2>1. Routed(q, rec[q], byFile)
    BY DEF LocksInv, RecordsFit
  <2>2. CASE q = r
    BY <1>1, <1>2, <2>1, <2>2 DEF Routed, Recs
  <2>3. CASE q # r
    BY <1>1, <1>2, <2>1, <2>3 DEF Routed
  <2> QED BY <2>2, <2>3
<1>7. byFile' \in [Files -> Records \cup {None}] /\ y.proc \in {0, x.proc, x.hosts + 1}
  BY <1>1, <1>2 DEF Recs
<1> HIDE DEF y
<1> QED BY <1>1, <1>2, <1>3, <1>4, <1>5, <1>6, <1>7, RouteStep

(* The directory of an unlocked file is removed, or a rival comes and goes. *)
LEMMA DirectoryStep ==
    ASSUME LocksInv, NEW f \in Files, DirRemoved(f) \/ RivalLocks(f) \/ RivalUnlocks(f)
    PROVE  LocksInv'
<1>1. /\ rec' = rec /\ byFile' = byFile /\ ops' = ops /\ watched' = watched /\ late' = late
      /\ tokens' = tokens
      /\ dir' \in {[dir EXCEPT ![f] = "free"], [dir EXCEPT ![f] = "rival"]}
      /\ leaving' \in {leaving, [leaving EXCEPT ![f] = None]}
  BY DEF DirRemoved, RivalLocks, RivalUnlocks
<1>2. /\ dir \in [Files -> {"free", "ours", "rival"}] /\ leaving \in [Files -> Records \cup {None}]
      /\ \A g \in Files : Slot(g) /\ Watching(g)
  BY DEF LocksInv, Shape, Disk
<1>3. ASSUME NEW g \in Files PROVE Slot(g)'
  <2>1. Slot(g) /\ (Probed(g)' <=> Probed(g))
    BY <1>1, <1>2 DEF Probed
  <2>2. CASE g # f
    BY <1>1, <1>2, <2>1, <2>2 DEF Slot
  <2>3. CASE g = f
    BY <1>1, <1>2, <2>1, <2>3 DEF Slot, DirRemoved, RivalLocks, RivalUnlocks
  <2> QED BY <2>2, <2>3
<1>4. Flights' /\ RecordsFit'
  BY <1>1 DEF LocksInv, Flights, RecordsFit
<1>5. Shape'
  BY <1>1, <1>2 DEF LocksInv, Shape
<1>6. \A g \in Files : Watching(g)'
  BY <1>1, <1>2 DEF Watching
<1>7. \A r \in Records : Held(r)'
  BY <1>1 DEF LocksInv, Disk, Held
<1> QED BY <1>3, <1>4, <1>5, <1>6, <1>7 DEF LocksInv, Disk

(* A callback that comes late finds nobody who still has that lock. *)
LEMMA LateIsStale ==
    ASSUME LocksInv, NEW f \in Files, late[f] # None
    PROVE  /\ late[f].r \in Records
           /\ ~rec[late[f].r].comp => ~PrimaryCurrent(late[f], f) /\ ~SuccessorCurrent(late[f], f)
<1> DEFINE who == late[f]
           x == rec[who.r]
<1>1. who \in Identities /\ Watching(f)
  BY DEF LocksInv, Shape, Disk
<1>2. who.r \in Records /\ who.token \in 0..MaxTokens /\ who.token # 0
  BY <1>1 DEF Identities
<1>3. Held(who.r)
  BY <1>2 DEF LocksInv, Disk
<1>4. PrimaryCurrent(who, f) \/ SuccessorCurrent(who, f) => Claim(x, f, who.token)
  BY <1>2 DEF PrimaryCurrent, SuccessorCurrent, Claim
<1> HIDE DEF who
<1>5. ~x.comp => ~Claim(x, f, who.token)
  BY <1>1, <1>2, <1>3 DEF Held, Watching, who
<1> QED BY <1>2, <1>4, <1>5 DEF who

(* A callback that comes late changes nothing. *)
LEMMA StaleCompromiseStep ==
    ASSUME LocksInv, NEW f \in Files, StaleCompromise(f)
    PROVE  UNCHANGED vars
<1>1. ~(Live(late[f].r) /\ ~rec[late[f].r].comp
          /\ (PrimaryCurrent(late[f], f) \/ SuccessorCurrent(late[f], f)))
  BY LateIsStale DEF StaleCompromise
<1>2. watched' = watched /\ UNCHANGED <<rec, leaving, late>>
  BY <1>1 DEF StaleCompromise, LockCompromise
<1> QED BY <1>2 DEF StaleCompromise, vars

(* The record of a lock that is lost: it is dead, without a host, and without *)
(* a transition; without a host it has let go of its locks as well.           *)
LEMMA FencedFits ==
    ASSUME LocksInv, NEW r \in Records, rec[r].known = "open",
           NEW who, NEW f, NEW listed, who.r = r, ~rec[r].comp,
           PrimaryCurrent(who, f) \/ SuccessorCurrent(who, f), LockCompromise(who, f, listed)
    PROVE  \E y \in Recs : \E U :
             /\ rec' = [rec EXCEPT ![r] = y] /\ UnlockListed(r, U, listed)
             /\ Sound(r, y) /\ y.known = "open" /\ y.file = rec[r].file /\ y.proc = 0 /\ y.comp
             /\ U \subseteq Reach(r) \cup {None}
             /\ \A g \in Files \ U, w \in Identities : Holder(rec[r], g, w) => Holder(y, g, w)
             /\ \A o \in ops : o.r = r => Started(o, y)
<1> DEFINE x == rec[r]
           ph == IF x.phase = "starting" THEN "idle" ELSE x.phase
           fenced == [x EXCEPT !.dead = TRUE, !.comp = TRUE, !.ready = FALSE,
                               !.status = "failed", !.step = "idle", !.target = None, !.phase = ph]
           paths == (IF x.trans # 0 THEN AbortedPaths(x, x.trans) ELSE {})
                    \cup (IF x.proc = 0 THEN ReleasedPaths(x) ELSE {})
           a == IF x.trans # 0 THEN Aborted(fenced, x.trans) ELSE fenced
           b == [a EXCEPT !.trans = 0]
           y == IF x.proc # 0 THEN Detached(b) ELSE Released(b)
<1>1. /\ x \in Recs /\ Sound(r, x) /\ None \notin Reservations /\ MaxTokens \in Nat
      /\ MaxTransitions \in Nat
      /\ \A o \in ops : o.r = r => Started(o, x)
  BY RecordFacts
<1>2. rec' = [rec EXCEPT ![r] = y] /\ UnlockListed(r, paths, listed)
  BY DEF LockCompromise, Live
<1>3. x.tlock # None => x.tlock.tid = x.trans /\ x.trans # 0
  BY <1>1 DEF Sound, Replacing, Recs
<1>4. ph \in {"idle", "locking", "starting", "failing"} /\ (ph = "locking" <=> x.phase = "locking")
      /\ (x.phase \in {"idle", "starting"} => ph = "idle")
  BY <1>1 DEF Recs
<1> HIDE DEF ph
<1>5. fenced \in Recs
  <2> DEFINE z == [x EXCEPT !.dead = TRUE, !.comp = TRUE, !.ready = FALSE, !.status = "failed"]
  <2>1. z \in Recs
    <3>1. x \in Recs
      BY <1>1
    <3> HIDE DEF x
    <3> QED BY <3>1 DEF Recs
  <2>2. "idle" \in Steps
    BY DEF Steps
  <2>3. fenced = [z EXCEPT !.step = "idle", !.target = None, !.phase = ph]
    BY <1>1 DEF Recs
  <2> HIDE DEF z, fenced
  <2> QED BY <1>4, <2>1, <2>2, <2>3 DEF Recs
<1>6. /\ fenced.known = x.known /\ fenced.file = x.file /\ fenced.hasLock = x.hasLock
      /\ fenced.lockPath = x.lockPath /\ fenced.token = x.token /\ fenced.tlock = x.tlock
      /\ fenced.trans = x.trans /\ fenced.tid = x.tid /\ fenced.dead /\ fenced.comp
      /\ fenced.proc = x.proc /\ fenced.hosts = x.hosts /\ ~fenced.ready /\ fenced.phase = ph
      /\ fenced.retiring = x.retiring /\ fenced.close = x.close /\ fenced.reserved = x.reserved
      /\ fenced.step = "idle" /\ fenced.target = None
  BY <1>1 DEF Recs
<1> HIDE DEF fenced
<1>7. a = [fenced EXCEPT !.tlock = None]
  BY <1>3, <1>5, <1>6 DEF Aborted, Recs
<1>8. a \in Recs
  BY <1>1, <1>5, <1>7, FragmentsFit
<1> HIDE DEF a
<1>9. b \in Recs
  <2>1. 0 \in 0..MaxTransitions
    BY <1>1
  <2> QED BY <1>8, <2>1 DEF Recs
<1>10. /\ b.known = x.known /\ b.file = x.file /\ b.hasLock = x.hasLock
       /\ b.lockPath = x.lockPath /\ b.token = x.token /\ b.tlock = None
       /\ b.trans = 0 /\ b.tid = x.tid /\ b.dead /\ b.comp
       /\ b.proc = x.proc /\ b.hosts = x.hosts /\ ~b.ready /\ b.phase = ph
       /\ b.retiring = x.retiring /\ b.close = x.close /\ b.reserved = x.reserved
       /\ b.step = "idle" /\ b.target = None
  BY <1>5, <1>6, <1>7 DEF Recs
<1> HIDE DEF b
<1>11. y \in Recs
  BY <1>1, <1>9, FragmentsFit
<1>12. /\ y.known = x.known /\ y.file = x.file /\ y.tlock = None /\ y.trans = 0 /\ y.tid = x.tid
       /\ y.dead /\ y.comp /\ y.proc = 0 /\ y.hosts = x.hosts /\ ~y.ready /\ y.phase = ph
       /\ y.close = x.close /\ y.step = "idle" /\ y.target = None
       /\ x.proc # 0 => y.hasLock = x.hasLock /\ y.lockPath = x.lockPath /\ y.token = x.token
       /\ x.proc = 0 => ~y.hasLock /\ y.lockPath = None /\ y.retiring = x.retiring
  BY <1>9, <1>10 DEF Recs, Detached, Released
<1> HIDE DEF y
<1>13. Sound(r, y)
  <2>1. Within(r, y)
    BY <1>1, <1>12 DEF Sound, Within
  <2>2. Locking(y)
    BY <1>1, <1>4, <1>12 DEF Sound, Locking, Hosting, Recs
  <2>3. Hosting(y) /\ Replacing(y) /\ Ended(y)
    BY <1>1, <1>12 DEF Sound, Hosting, Replacing, Ended, Bare
  <2> QED BY <2>1, <2>2, <2>3 DEF Sound
<1>14. paths \subseteq Reach(r) \cup {None}
  BY <1>1, AbortYields, ReleaseYields
<1>15. \A g \in Files \ paths, w \in Identities : Holder(x, g, w) => Holder(y, g, w)
  <2>1. CASE x.proc = 0
    BY <1>1, <2>1, ReleaseYields
  <2>2. CASE x.proc # 0
    <3>1. \A g \in Files \ paths, w \in Identities :
             Holder(x, g, w) => x.hasLock /\ x.lockPath = g /\ x.token = w.token
      <4>1. CASE x.trans # 0
        BY <1>1, <4>1, AbortYields
      <4>2. CASE x.trans = 0
        BY <1>3, <4>2 DEF Holder
      <4> QED BY <4>1, <4>2
    <3> QED BY <1>12, <2>2, <3>1 DEF Holder
  <2> QED BY <2>1, <2>2
<1>16. \A o \in ops : o.r = r => Started(o, y)
  BY <1>1, <1>4, <1>12 DEF Started
<1> HIDE DEF paths
<1> QED BY <1>2, <1>11, <1>12, <1>13, <1>14, <1>15, <1>16

(* A lock is lost to a rival. *)
LEMMA CompromisedStep ==
    ASSUME LocksInv, FilesApart, NEW f \in Files, Compromised(f)
    PROVE  LocksInv'
<1> DEFINE who == watched[f]
           r == who.r
           x == rec[r]
           listed == [watched EXCEPT ![f] = None]
           G == {f}
<1>1. /\ who # None /\ who \in Identities /\ r \in Records /\ Watching(f)
      /\ watched \in [Files -> Identities \cup {None}] /\ late \in [Files -> Identities \cup {None}]
      /\ leaving \in [Files -> Records \cup {None}] /\ byFile \in [Files -> Records \cup {None}]
      /\ dir \in [Files -> {"free", "ours", "rival"}]
      /\ \A g \in Files : Watching(g)
  BY DEF LocksInv, Shape, Disk, Compromised, Identities
<1>2. x \in Recs /\ Sound(r, x) /\ x.known = "open" /\ Holder(x, f, who)
  BY <1>1, RecordFacts DEF Watching
<1>3. PrimaryCurrent(who, f) \/ SuccessorCurrent(who, f)
  BY <1>2 DEF Holder, PrimaryCurrent, SuccessorCurrent
<1>4. /\ byFile' = byFile /\ ops' = ops /\ tokens' = tokens /\ dir' = [dir EXCEPT ![f] = "rival"]
      /\ LockCompromise(who, f, listed)
  BY DEF Compromised
<1>5. \E y \in Recs : \E U :
        /\ rec' = [rec EXCEPT ![r] = y] /\ UnlockListed(r, U, listed)
        /\ Sound(r, y) /\ y.known = "open" /\ y.file = x.file /\ y.proc \in {0, x.proc} /\ y.comp
        /\ U \subseteq Reach(r) \cup {None}
        /\ \A g \in Files \ U, w \in Identities : Holder(x, g, w) => Holder(y, g, w)
        /\ \A o \in ops : o.r = r => Started(o, y)
  <2>1. CASE ~x.comp
    <3> HIDE DEF listed, who
    <3>1. LockCompromise(who, f, listed) /\ who.r = r
      BY <1>4
    <3> QED BY <1>1, <1>2, <1>3, <2>1, <3>1, FencedFits
  <2>2. CASE x.comp
    <3>1. /\ rec' = rec /\ watched' = listed /\ leaving' = leaving /\ late' = late
      BY <1>4, <2>2 DEF LockCompromise
    <3>2. rec' = [rec EXCEPT ![r] = x]
      BY <1>1, <3>1 DEF LocksInv, Shape
    <3>3. UnlockListed(r, {}, listed)
      <4>1. listed = [g \in Files |-> listed[g]] /\ leaving = [g \in Files |-> leaving[g]]
            /\ late = [g \in Files |-> late[g]]
        BY <1>1
      <4> HIDE DEF listed
      <4> QED BY <3>1, <4>1 DEF UnlockListed
    <3>4. \A o \in ops : o.r = r => Started(o, x)
      BY <1>1, RecordFacts
    <3> HIDE DEF listed
    <3> QED BY <1>2, <2>2, <3>2, <3>3, <3>4
  <2> QED BY <2>1, <2>2
<1>5y. PICK y \in Recs : \E U :
        /\ rec' = [rec EXCEPT ![r] = y] /\ UnlockListed(r, U, listed)
        /\ Sound(r, y) /\ y.known = "open" /\ y.file = x.file /\ y.proc \in {0, x.proc} /\ y.comp
        /\ U \subseteq Reach(r) \cup {None}
        /\ \A g \in Files \ U, w \in Identities : Holder(x, g, w) => Holder(y, g, w)
        /\ \A o \in ops : o.r = r => Started(o, y)
  BY <1>5
<1>6. PICK U :
        /\ rec' = [rec EXCEPT ![r] = y] /\ UnlockListed(r, U, listed)
        /\ Sound(r, y) /\ y.known = "open" /\ y.file = x.file /\ y.proc \in {0, x.proc} /\ y.comp
        /\ U \subseteq Reach(r) \cup {None}
        /\ \A g \in Files \ U, w \in Identities : Holder(x, g, w) => Holder(y, g, w)
        /\ \A o \in ops : o.r = r => Started(o, y)
  BY <1>5y
<1>7. /\ rec' \in [Records -> Recs] /\ rec'[r] = y
      /\ \A q \in Records : q # r => rec'[q] = rec[q]
      /\ \A q \in Records : Sound(q, rec'[q])
  BY <1>1, <1>6, RecordsKeep
<1>8. \A q \in Records : Routed(q, rec'[q], byFile')
  BY <1>1, <1>2, <1>4, <1>6, <1>7, RoutesKeep
<1>9. Flights'
  BY <1>1, <1>4, <1>6, <1>7, FlightsKeep
<1>10. Disk'
  <2>1. SameProbes
    BY <1>4 DEF SameProbes
  <2>2. \A g \in Files : /\ listed[g] = IF g \in G THEN None ELSE watched[g]
                         /\ dir'[g] = IF g \in G THEN "rival" ELSE dir[g]
    BY <1>1, <1>4
  <2>3. \A g \in Files \ (U \cup G) : watched[g] # None /\ watched[g].r = r =>
           Holder(y, g, watched[g]) /\ y.known = "open"
    BY <1>1, <1>6 DEF Watching
  <2>4. Parts(r, y, U, G, listed)
    <3>1. G \subseteq Files /\ \A g \in G : watched[g] # None /\ watched[g].r = r
      BY <1>1
    <3> HIDE DEF G, listed
    <3> QED BY <1>4, <1>6, <2>2, <2>3, <3>1 DEF Parts
  <2> HIDE DEF G, listed, r
  <2> QED BY <1>1, <1>6, <1>7, <2>1, <2>4, DiskKeeps DEF r
<1>11. Shape'
  <2>1. /\ watched' \in [Files -> Identities \cup {None}] /\ late' \in [Files -> Identities \cup {None}]
        /\ leaving' \in [Files -> Records \cup {None}]
    <3>1. listed \in [Files -> Identities \cup {None}]
      BY <1>1
    <3> HIDE DEF listed
    <3> QED BY <1>1, <1>6, <3>1 DEF UnlockListed
  <2> QED BY <1>1, <1>4, <1>7, <2>1 DEF Shape
<1> QED BY <1>7, <1>8, <1>9, <1>10, <1>11 DEF LocksInv, RecordsFit

(* The invariant holds at the start. *)
LEMMA LocksInit ==
    ASSUME Init PROVE LocksInv
<1>1. /\ None \notin Files \cup Records /\ {MaxTokens, MaxHosts, MaxTransitions} \subseteq Nat
  BY LocksAssumption DEF LocksAssumption
<1> DEFINE z == NewRecord(None)
           y == [z EXCEPT !.known = "unopened"]
<1>2. y \in Recs
  <2>1. z \in Recs
    BY <1>1 DEF NewRecord, Recs, Steps
  <2> HIDE DEF z
  <2> QED BY <2>1 DEF Recs
<1>3. /\ y.known = "unopened" /\ y.file = None /\ ~y.hasLock /\ y.lockPath = None /\ y.tlock = None
      /\ ~y.dead /\ ~y.comp /\ y.proc = 0 /\ ~y.ready /\ y.phase = "idle" /\ ~y.retiring
      /\ y.close = "no" /\ y.step = "idle" /\ y.target = None
  BY DEF NewRecord
<1> HIDE DEF y
<1>4. \A r \in Records : rec[r] = y
  BY DEF Init, y
<1>5. Shape
  BY <1>2 DEF Init, Shape, y
<1>6. RecordsFit
  BY <1>1, <1>3, <1>4
     DEF Init, RecordsFit, Sound, Within, Locking, Hosting, Replacing, Ended, Bare, Routed
<1>7. Flights
  BY <1>1, FS_EmptySet DEF Init, Flights
<1>8. Disk
  BY <1>3, <1>4 DEF Init, Disk, Slot, Probed, Watching, Held, Claim
<1> QED BY <1>5, <1>6, <1>7, <1>8 DEF LocksInv

(* Every step keeps the invariant. *)
LEMMA LocksStep ==
    ASSUME FilesApart, LocksInv, [Next]_vars PROVE LocksInv'
<1>1. CASE UNCHANGED vars
  BY <1>1 DEF vars, LocksInv, Shape, RecordsFit, Flights, Disk, Slot, Probed, Watching, Held
<1>2. ASSUME NEW r \in Records,
             \/ OpenSession(r) \/ Activate(r) \/ HostReady(r) \/ StartFails(r)
             \/ RuntimeFailure(r) \/ CloseSession(r) \/ Finish(r)
             \/ BeginTransition(r) \/ Prepare(r) \/ Successor(r) \/ PermitLost(r)
             \/ TransitionCancelled(r) \/ FatalTransition(r) \/ CommitTransition(r)
             \/ \E f \in Files : InitialSessionFile(r, f)
      PROVE  LocksInv'
  <2>1. CASE OpenSession(r) \/ Activate(r) \/ HostReady(r) \/ StartFails(r)
    BY <2>1, OpenSessionStep, ActivateStep, HostReadyStep, StartFailsStep
  <2>2. CASE RuntimeFailure(r) \/ FatalTransition(r)
    BY <2>2, RuntimeFailureStep DEF FatalTransition
  <2>3. CASE CloseSession(r) \/ Finish(r)
    BY <2>3, CloseSessionStep, HostExitedStep, CloseReleasesStep, CloseDoneStep DEF Finish
  <2>4. CASE BeginTransition(r) \/ Prepare(r) \/ Successor(r) \/ PermitLost(r)
    BY <2>4, BeginTransitionStep, PrepareStep, SuccessorStep, PermitLostStep
  <2>5. CASE TransitionCancelled(r) \/ CommitTransition(r)
    BY <2>5, TransitionCancelledStep, CommitTransitionStep
  <2>6. CASE \E f \in Files : InitialSessionFile(r, f)
    BY <2>6, InitialSessionFileStep
  <2> QED BY <1>2, <2>1, <2>2, <2>3, <2>4, <2>5, <2>6
<1>3. ASSUME NEW o \in ops, Settle(o) PROVE LocksInv'
  BY <1>3, MkdirDoneStep, PrimaryLockedStep, PrimaryDeniedStep, InitialLockedStep,
     InitialDeniedStep, SuccessorLockedStep, SuccessorDeniedStep DEF Settle
<1>4. ASSUME NEW f \in Files, DirRemoved(f) \/ Compromised(f) \/ StaleCompromise(f)
                              \/ RivalLocks(f) \/ RivalUnlocks(f)
      PROVE  LocksInv'
  BY <1>1, <1>4, DirectoryStep, CompromisedStep, StaleCompromiseStep
<1> QED BY <1>1, <1>2, <1>3, <1>4 DEF Next

(* What the invariant says of the properties of the model. *)
LEMMA LocksOwned ==
    ASSUME LocksInv PROVE LocksAreTheirOwners
<1>1. /\ rec \in [Records -> Recs] /\ \A r \in Records : Sound(r, rec[r]) /\ Routed(r, rec[r], byFile)
      /\ \A r \in Records : Held(r)
      /\ None \notin Files
  BY LocksAssumption DEF LocksInv, Shape, RecordsFit, Disk, LocksAssumption
<1>2. TypeOK
  <2>1. tokens \in 0..MaxTokens
    <3>1. tokens \in Nat /\ Cardinality(ops) \in Nat /\ tokens + Cardinality(ops) <= MaxTokens
          /\ MaxTokens \in Nat
      BY FlightFacts
    <3> QED BY <3>1
  <2>2. \A o \in ops : o.r \in Records /\ o.path \in Files /\ o.stage \in {"mkdir", "probe"}
    BY FlightFacts DEF Acquisitions
  <2>3. \A r \in Records : /\ rec[r].file \in Files \cup {None}
                           /\ rec[r].lockPath \in Files \cup {None}
                           /\ rec[r].hasLock <=> rec[r].lockPath # None
    BY <1>1 DEF Recs, Sound, Locking
  <2> QED BY <2>1, <2>2, <2>3 DEF TypeOK, LocksInv, Shape
<1>3. HeldLockIsWatched
  <2>1. ASSUME NEW r \in Records, ~rec[r].comp, rec[r].hasLock
        PROVE  LET w == watched[rec[r].lockPath] IN w # None /\ w.r = r /\ w.token = rec[r].token
    <3>1. rec[r].lockPath \in Files /\ rec[r].token \in 0..MaxTokens
      BY <1>1, <2>1 DEF Recs, Sound, Locking
    <3> QED BY <1>1, <2>1, <3>1 DEF Held, Claim
  <2>2. ASSUME NEW r \in Records, ~rec[r].comp, rec[r].tlock # None, rec[r].tlock.token # 0
        PROVE  LET w == watched[rec[r].tlock.target]
               IN  w # None /\ w.r = r /\ w.token = rec[r].tlock.token
    <3>1. rec[r].tlock.target \in Files /\ rec[r].tlock.token \in 0..MaxTokens
      BY <1>1, <2>2 DEF Recs, Reservations, Sound, Replacing
    <3> QED BY <1>1, <2>2, <3>1 DEF Held, Claim
  <2> QED BY <2>1, <2>2 DEF HeldLockIsWatched
<1>4. RoutingFollowsLock
  BY <1>1 DEF RoutingFollowsLock, Live, Sound, Locking, Routed
<1> QED BY <1>2, <1>3, <1>4 DEF LocksAreTheirOwners

(* And it leaves no lock behind that nobody uses. *)
LEMMA LocksUsed ==
    ASSUME LocksInv PROVE NothingStranded
<1>1. /\ \A f \in Files : Slot(f) /\ Watching(f)
      /\ \A r \in Records : Sound(r, rec[r]) /\ Routed(r, rec[r], byFile)
      /\ watched \in [Files -> Identities \cup {None}]
      /\ \A o \in ops : o.r \in Records /\ Started(o, rec[o.r])
  BY FlightFacts DEF LocksInv, Shape, Disk, RecordsFit
<1>2. NoStrandedLock
  <2>1. ASSUME NEW f \in Files, watched[f] # None
        PROVE  \E r \in Records :
                 /\ Live(r)
                 /\ rec[r].lockPath = f \/ (rec[r].tlock # None /\ rec[r].tlock.target = f)
    <3>1. watched[f].r \in Records
      BY <1>1, <2>1 DEF Identities
    <3> QED BY <1>1, <2>1, <3>1 DEF Watching, Holder, Live
  <2> QED BY <1>1, <2>1 DEF NoStrandedLock, Slot, Probed
<1>3. ClosedLeavesNothing
  BY <1>1 DEF ClosedLeavesNothing, Routed, Watching, Started
<1> QED BY <1>2, <1>3 DEF NothingStranded

(* Whatever the sessions do, as long as no two of them can come to the same   *)
(* file: a record's lock stays its own, and the routing map says so.          *)
THEOREM OwnersKeepLocks ==
    ASSUME FilesApart PROVE Spec => []LocksAreTheirOwners
<1>1. Init => LocksInv
  BY LocksInit
<1>2. LocksInv /\ [Next]_vars => LocksInv'
  BY LocksStep
<1>3. LocksInv => LocksAreTheirOwners
  BY LocksOwned
<1> QED BY <1>1, <1>2, <1>3, PTL DEF Spec

(* No lock outlives its use: it is being made or removed, or an open record   *)
(* holds it; a closed record has none.  Sessions whose files are apart never  *)
(* meet the one case in which the code leaves a lock behind, the failed record*)
(* that openSession forgets for another session of the same file.             *)
THEOREM NoLockIsStranded ==
    ASSUME FilesApart PROVE Spec => []NothingStranded
<1>1. Init => LocksInv
  BY LocksInit
<1>2. LocksInv /\ [Next]_vars => LocksInv'
  BY LocksStep
<1>3. LocksInv => NothingStranded
  BY LocksUsed
<1> QED BY <1>1, <1>2, <1>3, PTL DEF Spec

(***************************************************************************)
(* The loss of a lock, the only thing that fences a record.                *)
(***************************************************************************)

\* A step neither fences a record nor gives a fenced one a lock.
Unfenced ==
    \A r \in Records : /\ rec'[r].comp = rec[r].comp
                       /\ rec[r].comp /\ rec'[r].hasLock => rec[r].hasLock

(* A step of one record, if that one is not fenced nor, fenced, given a lock. *)
LEMMA OneUnfenced ==
    ASSUME rec \in [Records -> Recs], NEW r \in Records, NEW y, rec' = [rec EXCEPT ![r] = y],
           y.comp = rec[r].comp, rec[r].comp /\ y.hasLock => rec[r].hasLock
    PROVE  Unfenced
BY DEF Unfenced

(* No step of a record by itself fences it: a lock is given to a live record. *)
LEMMA RecordsUnfenced ==
    ASSUME LocksInv, NEW r \in Records,
           \/ OpenSession(r) \/ Activate(r) \/ HostReady(r) \/ StartFails(r)
           \/ RuntimeFailure(r) \/ CloseSession(r) \/ Finish(r)
           \/ BeginTransition(r) \/ Prepare(r) \/ Successor(r) \/ PermitLost(r)
           \/ TransitionCancelled(r) \/ FatalTransition(r) \/ CommitTransition(r)
           \/ \E f \in Files : InitialSessionFile(r, f)
    PROVE  Unfenced
<1>1. /\ rec[r] \in Recs /\ rec \in [Records -> Recs]
      /\ rec[r].comp => rec[r].dead
      /\ rec[r].known = "unopened" => ~rec[r].comp
  BY RecordFacts DEF Sound, Hosting, Ended
<1>2. CASE OpenSession(r)
  <2>1. \A q \in Records : q # r => rec'[q].comp = rec[q].comp /\ rec'[q].hasLock = rec[q].hasLock
    BY <1>1, <1>2 DEF OpenSession, Recs
  <2>2. rec[r].comp = FALSE /\ rec'[r].comp = FALSE
    BY <1>1, <1>2 DEF OpenSession, NewRecord, Recs
  <2> QED BY <2>1, <2>2 DEF Unfenced
<1>3. CASE Activate(r)
  <2> DEFINE x == rec[r]
             z == [x EXCEPT !.status = "starting", !.restart = FALSE]
             u == [z EXCEPT !.phase = "locking"]
             v == [z EXCEPT !.phase = "starting", !.hosts = z.hosts + 1, !.proc = x.hosts + 1]
  <2>1. rec' = [rec EXCEPT ![r] = u] \/ rec' = [rec EXCEPT ![r] = v]
    BY <1>3 DEF Activate
  <2>2. u.comp = x.comp /\ u.hasLock = x.hasLock /\ v.comp = x.comp /\ v.hasLock = x.hasLock
    BY <1>1 DEF Recs
  <2> HIDE DEF u, v
  <2> QED BY <1>1, <2>1, <2>2, OneUnfenced
<1>4. CASE HostReady(r) \/ StartFails(r)
  BY <1>1, <1>4 DEF HostReady, StartFails, Unfenced, Recs
<1>5. ASSUME RuntimeFailure(r) PROVE Unfenced
  BY <1>1, <1>5 DEF RuntimeFailure, Detached, Aborted, Unfenced, Recs
<1>6. CASE CloseSession(r)
  BY <1>1, <1>6 DEF CloseSession, Unfenced, Recs
<1>7. CASE HostExited(r)
  BY <1>1, <1>7 DEF HostExited, Released, Unfenced, Recs
<1>8. CASE CloseReleases(r) \/ CloseDone(r)
  <2>1. CASE CloseReleases(r)
    BY <1>1, <2>1 DEF CloseReleases, Released, Unfenced, Recs
  <2>2. CASE CloseDone(r)
    BY <1>1, <2>2 DEF CloseDone, Unfenced, Recs
  <2> QED BY <1>8, <2>1, <2>2
<1>9. CASE BeginTransition(r) \/ PermitLost(r)
  <2>1. CASE BeginTransition(r)
    BY <1>1, <2>1 DEF BeginTransition, Unfenced, Recs
  <2>2. CASE PermitLost(r)
    BY <1>1, <2>2 DEF PermitLost, Unfenced, Recs
  <2> QED BY <1>9, <2>1, <2>2
<1>10. ASSUME NEW s, NEW f, PermitTransition(r, s, f) PROVE Unfenced
  <2> DEFINE y(l, a) == [rec[r] EXCEPT !.tlock = l, !.step = a, !.target = f]
  <2> DEFINE lock == IF rec[r].tlock # None THEN rec[r].tlock
                     ELSE [tid |-> rec[r].tid, old |-> rec[r].lockPath, target |-> None,
                           locked |-> FALSE, token |-> 0]
             named == [lock EXCEPT !.target = f]
             owned == [named EXCEPT !.locked = TRUE]
  <2>1. \/ rec' = [rec EXCEPT ![r] = y(lock, Answered(s, s = "prepare"))]
        \/ rec' = [rec EXCEPT ![r] = y(lock, Answered(s, FALSE))]
        \/ rec' = [rec EXCEPT ![r] = y(owned, Answered(s, TRUE))]
        \/ rec' = [rec EXCEPT ![r] = y(named, s)]
    BY <1>10, Zenon DEF PermitTransition
  <2> HIDE DEF lock, named, owned
  <2>2. \A l, a : y(l, a).comp = rec[r].comp /\ y(l, a).hasLock = rec[r].hasLock
    BY <1>1 DEF Recs
  <2>3. ASSUME NEW l, NEW a, rec' = [rec EXCEPT ![r] = y(l, a)] PROVE Unfenced
    <3> DEFINE z == y(l, a)
    <3>1. rec' = [rec EXCEPT ![r] = z] /\ z.comp = rec[r].comp /\ z.hasLock = rec[r].hasLock
      BY <2>2, <2>3
    <3> HIDE DEF z
    <3> QED BY <1>1, <3>1, OneUnfenced
  <2> HIDE DEF y
  <2> QED BY <2>1, <2>3
<1>11. CASE Prepare(r) \/ Successor(r)
  BY <1>10, <1>11 DEF Prepare, Successor
<1>12. CASE TransitionCancelled(r)
  BY <1>1, <1>12 DEF TransitionCancelled, Aborted, Unfenced, Recs
<1>13. CASE CommitTransition(r)
  BY <1>1, <1>13 DEF CommitTransition, Permitted, Unfenced, Recs
<1>14. CASE \E f \in Files : InitialSessionFile(r, f)
  BY <1>1, <1>14 DEF InitialSessionFile, Unfenced, Recs
<1> QED BY <1>2, <1>3, <1>4, <1>5, <1>6, <1>7, <1>8, <1>9, <1>11, <1>12, <1>13, <1>14
        DEF Finish, FatalTransition

(* No answer of the disk fences a record, and none gives a fenced one a lock:  *)
(* the registry checks again once the lock library has answered.               *)
LEMMA AnswersUnfenced ==
    ASSUME LocksInv, NEW o \in ops, Settle(o)
    PROVE  Unfenced
<1>1. /\ o.r \in Records /\ rec[o.r] \in Recs /\ rec \in [Records -> Recs]
      /\ rec[o.r].comp => rec[o.r].dead
  BY FlightFacts, RecordFacts DEF Sound, Hosting
<1>2. CASE MkdirDone(o) \/ InitialDenied(o)
  BY <1>2 DEF MkdirDone, InitialDenied, Unfenced
<1>3. CASE PrimaryLocked(o)
  <2> DEFINE x == rec[o.r]
             z == [x EXCEPT !.hasLock = TRUE, !.lockPath = o.path, !.token = tokens + 1,
                            !.phase = "starting", !.hosts = x.hosts + 1, !.proc = x.hosts + 1]
             u == [x EXCEPT !.phase = "idle"]
  <2>1. CASE x.dead \/ x.comp
    <3>1. rec' = [rec EXCEPT ![o.r] = u]
      BY <1>3, <2>1 DEF PrimaryLocked
    <3>2. u.comp = x.comp /\ u.hasLock = x.hasLock
      BY <1>1 DEF Recs
    <3> HIDE DEF u
    <3> QED BY <1>1, <3>1, <3>2, OneUnfenced
  <2>2. CASE ~(x.dead \/ x.comp)
    <3>1. rec' = [rec EXCEPT ![o.r] = z]
      BY <1>3, <2>2 DEF PrimaryLocked
    <3>2. z.comp = x.comp
      BY <1>1 DEF Recs
    <3> HIDE DEF z
    <3> QED BY <1>1, <2>2, <3>1, <3>2, OneUnfenced
  <2> QED BY <2>1, <2>2
<1>4. CASE PrimaryDenied(o)
  BY <1>1, <1>4 DEF PrimaryDenied, Released, Unfenced, Recs
<1>5. CASE InitialLocked(o)
  <2> DEFINE x == rec[o.r]
             y == [x EXCEPT !.hasLock = TRUE, !.lockPath = o.path, !.token = tokens + 1,
                            !.file = o.path]
  <2>1. rec' = rec \/ (~x.dead /\ rec' = [rec EXCEPT ![o.r] = y])
    BY <1>5 DEF InitialLocked
  <2>2. y.comp = x.comp
    BY <1>1 DEF Recs
  <2>3. CASE rec' = rec
    BY <2>3 DEF Unfenced
  <2> HIDE DEF y
  <2> QED BY <1>1, <2>1, <2>2, <2>3, OneUnfenced
<1>6. CASE SuccessorLocked(o)
  <2> DEFINE x == rec[o.r]
             z == [x EXCEPT !.tlock.locked = TRUE, !.tlock.token = tokens + 1]
  <2>1. rec' = [rec EXCEPT ![o.r] = AnswerChild(o, z, TRUE)]
        \/ rec' = [rec EXCEPT ![o.r] = AnswerChild(o, x, FALSE)]
    BY <1>6 DEF SuccessorLocked
  <2>2. \A u, a : u = x \/ u = z => AnswerChild(o, u, a).comp = x.comp
                                  /\ AnswerChild(o, u, a).hasLock = x.hasLock
    BY <1>1 DEF AnswerChild, Recs
  <2> HIDE DEF z
  <2>3. ASSUME NEW u, NEW a, u = x \/ u = z, rec' = [rec EXCEPT ![o.r] = AnswerChild(o, u, a)]
        PROVE  Unfenced
    <3> DEFINE w == AnswerChild(o, u, a)
    <3>1. rec' = [rec EXCEPT ![o.r] = w] /\ w.comp = x.comp /\ w.hasLock = x.hasLock
      BY <2>2, <2>3
    <3> HIDE DEF w
    <3> QED BY <1>1, <3>1, OneUnfenced
  <2> QED BY <2>1, <2>3
<1>7. CASE SuccessorDenied(o)
  BY <1>1, <1>7 DEF SuccessorDenied, AnswerChild, Unfenced, Recs
<1> QED BY <1>2, <1>3, <1>4, <1>5, <1>6, <1>7 DEF Settle

(* The loss of a lock fences at most the record that has it, and gives it no  *)
(* other: what is lost, it stops to hold or goes on believing in as before.   *)
LEMMA LossFences ==
    ASSUME LocksInv, NEW f \in Files, Compromised(f)
    PROVE  /\ watched[f] # None /\ dir'[f] = "rival"
           /\ \A r \in Records : /\ rec[r].comp => rec'[r].comp
                                 /\ rec'[r].comp /\ ~rec[r].comp => watched[f].r = r
                                 /\ rec[r].comp /\ rec'[r].hasLock => rec[r].hasLock
<1>1. /\ watched[f] # None /\ dir'[f] = "rival" /\ watched[f].r \in Records
      /\ rec \in [Records -> Recs]
  BY DEF Compromised, LocksInv, Shape, Identities
<1>2. rec' = rec \/ (~rec[watched[f].r].comp /\ \E y : rec' = [rec EXCEPT ![watched[f].r] = y])
  BY DEF Compromised, LockCompromise
<1> QED BY <1>1, <1>2

(* A record that has lost its lock to another process stays fenced, without a *)
(* host or a new lock; and nothing else fences it, a callback that comes late *)
(* least of all (handleLockCompromise, _primaryLockToken).                    *)
THEOREM LossIsFinal ==
    ASSUME FilesApart PROVE Spec => LossIsTerminal
<1> DEFINE Stays ==
             \A r \in Records :
               rec[r].comp => /\ rec'[r].comp /\ rec'[r].proc = 0 /\ ~rec'[r].ready
                              /\ rec'[r].hasLock => rec[r].hasLock
           Real ==
             \A r \in Records :
               (rec'[r].comp /\ ~rec[r].comp) =>
                 \E f \in Files : watched[f] # None /\ watched[f].r = r /\ dir'[f] = "rival"
<1>1. Init => LocksInv
  BY LocksInit
<1>2. LocksInv /\ [Next]_vars => LocksInv'
  BY LocksStep
<1>3. LocksInv /\ LocksInv' /\ [Next]_vars => Stays /\ Real
  <2>1. SUFFICES ASSUME LocksInv, LocksInv', [Next]_vars PROVE Stays /\ Real
    OBVIOUS
  <2>2. \A r \in Records : rec'[r].comp => rec'[r].proc = 0 /\ ~rec'[r].ready
    BY <2>1 DEF LocksInv, RecordsFit, Sound, Hosting
  <2>3. CASE Unfenced
    BY <2>2, <2>3 DEF Unfenced
  <2>4. CASE UNCHANGED vars
    BY <2>3, <2>4 DEF vars, Unfenced
  <2>5. ASSUME NEW f \in Files, Compromised(f) PROVE Stays /\ Real
    BY <2>1, <2>2, <2>5, LossFences
  <2>6. ASSUME NEW f \in Files, DirRemoved(f) \/ StaleCompromise(f) \/ RivalLocks(f) \/ RivalUnlocks(f)
        PROVE  Unfenced
    BY <2>1, <2>6, StaleCompromiseStep DEF DirRemoved, RivalLocks, RivalUnlocks, vars, Unfenced
  <2> QED BY <2>1, <2>3, <2>4, <2>5, <2>6, RecordsUnfenced, AnswersUnfenced DEF Next
<1>4. Spec => [][Stays]_vars /\ [][Real]_vars
  <2>1. LocksInv /\ LocksInv' /\ [Next]_vars => [Stays]_vars /\ [Real]_vars
    BY <1>3
  <2> HIDE DEF Stays, Real
  <2> QED BY <1>1, <1>2, <2>1, PTL DEF Spec
<1> QED BY <1>4 DEF LossIsTerminal, CompromisedStaysFenced, OnlyRealLossFences

=============================================================================
