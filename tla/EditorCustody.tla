----------------------------- MODULE EditorCustody -----------------------------
(***************************************************************************)
(* Custody of the text in the editor of a session (sessions/session-       *)
(* registry and the editor of ui-context in the host): patches of the page,*)
(* writes of extensions, submissions that clear the text, replacements     *)
(* inside a host, and crashes: main keeps the last editor it knows of a    *)
(* host that failed and rebuilds it in the successor before anybody else   *)
(* may touch it.                                                           *)
(*                                                                         *)
(* A text is a number, 0 the empty one; every edit and write is a fresh    *)
(* text.  Attachments, and the consume chain of local commands with its    *)
(* successors, are left out.  The page reads main's snapshot where the     *)
(* code reads the semantic plane; both carry the host's editor in order.   *)
(***************************************************************************)
EXTENDS Naturals, Sequences, FiniteSets, FiniteSetsExt, SequencesExt

CONSTANTS
    None,
    MaxHosts,   \* bound: hosts, the first one included
    Plans       \* what may happen in a behaviour: plans, see below

Empty == 0

(***************************************************************************)
(* A behaviour follows one plan, kept in log.may: how many edits of the    *)
(* page, writes of extensions, submissions, crashes, replacements and      *)
(* request timeouts it has, and whether its steps are fair.                *)
(***************************************************************************)
VARIABLES
    page,   \* the owner and revision the page edits on, its unsettled patches
    main,   \* the session record: snapshot, _editorRecovery and its fences, activation
    host,   \* the current child and its editor
    net,    \* the channels down (to the host) and up (to main)
    log     \* history: what happened, what was delivered, what was due and lost

vars == <<page, main, host, net, log>>

Editor(rev, text, cands) == [rev |-> rev, text |-> text, cands |-> cands]
Texts(ed) == ({ed.text} \cup Range(ed.cands)) \ {Empty}

\* The members of a sequence, each once, in the order they first appear, but
\* those already represented.
Distinct(represented, cands) ==
    FoldLeft(LAMBDA kept, c : IF c \in represented \cup Range(kept) THEN kept ELSE Append(kept, c),
             <<>>, cands)

\* editorSnapshot: the candidates a snapshot shows.
Shown(h) == Editor(h.rev, h.text, Distinct({h.text}, h.cands))
FreshHost(id) == [id |-> id, epoch |-> 1, alive |-> TRUE, moving |-> FALSE, seq |-> 1,
                  rev |-> 0, text |-> Empty, cands |-> <<>>]
Snapshot(h) == [id |-> h.id, epoch |-> h.epoch, seq |-> h.seq, ed |-> Shown(h)]

Init ==
    /\ host = FreshHost(1)
    /\ page = [owner |-> None, rev |-> 0, chain |-> <<>>]
    /\ main = [id |-> 1, epoch |-> 1, ready |-> TRUE, avail |-> "available", step |-> "idle",
               snap |-> Snapshot(FreshHost(1)), recovery |-> None, through |-> None,
               fenced |-> FALSE, deferred |-> None, moving |-> None, patch |-> None,
               tries |-> 0, base |-> None]
    /\ net = [down |-> <<>>, up |-> <<>>]
    /\ log \in [may : Plans, text : {0}, edits : {0}, writes : {0}, submits : {0},
                crashes : {0}, moves : {0}, timeouts : {0}, written : {{}}, delivered : {{}},
                due : {{}}, spared : {{}}, lost : {{}}, stale : {FALSE}, spoiled : {FALSE},
                orphaned : {FALSE}, refused : {FALSE}]

World == [page |-> page, main |-> main, host |-> host, net |-> net, log |-> log]
Becomes(w) ==
    page' = w.page /\ main' = w.main /\ host' = w.host /\ net' = w.net /\ log' = w.log

Down(w, m) == [w EXCEPT !.net.down = Append(@, m)]
Up(w, m) == [w EXCEPT !.net.up = Append(@, m)]

(***************************************************************************)
(* The record.                                                             *)
(***************************************************************************)
Owner(m) == [id |-> m.id, epoch |-> m.epoch]
Admits(m) == m.ready /\ m.avail = "available" /\ m.moving = None

\* installSnapshot: not an older one of the same host.
StaleAnywhere(prior, s) ==   \* bug: the numbers of another host are compared
    s.epoch < prior.epoch \/ (s.epoch = prior.epoch /\ s.seq <= prior.seq)
Stale(prior, s) ==
    /\ prior.id = s.id
    /\ \/ s.epoch < prior.epoch
       \/ s.epoch = prior.epoch /\ s.seq <= prior.seq
InstalledQuietly(w, s) ==   \* bug: the record stays as available as it was
    IF s.id # w.main.id \/ Stale(w.main.snap, s) THEN w ELSE [w EXCEPT !.main.snap = s]
Installed(w, s) ==
    IF s.id # w.main.id \/ Stale(w.main.snap, s) THEN w
    ELSE [w EXCEPT !.main.snap = s,
                   !.main.avail = IF w.main.moving = None THEN "available" ELSE "transitioning"]

\* A newer editor replaces the one of the snapshot, and the one kept for recovery.
WithEditor(w, ed) ==
    [w EXCEPT !.main.snap.ed = IF ed.rev >= @.rev THEN ed ELSE @,
              !.main.recovery = IF @ # None /\ ed.rev >= @.rev THEN ed ELSE @]

\* rejected() of applyEditorPatch: what is retained is installed, also as the
\* recovery, while the patch's owner is still the current one.
Rejected(w, owner) ==
    IF w.main.id = 0 \/ owner # Owner(w.main) THEN w
    ELSE [w EXCEPT !.main.recovery = w.main.snap.ed, !.log.spoiled = TRUE]

\* For the record: what the baseline of a successor, or its editor by now, has
\* of what was due to be there, and what it has not.
Accounted(w) ==
    LET kept == Texts(w.main.snap.ed) \cup Texts(w.host)
    IN  [w EXCEPT !.log.lost = @ \cup ((w.log.due \cup w.log.written) \ (kept \cup w.log.spared)),
                  !.log.due = {}, !.log.written = {}, !.log.spared = {}]

(***************************************************************************)
(* The page.                                                               *)
(***************************************************************************)
\* The projection of the record: another owner ends every patch under way.
PageSees ==
    LET seen == IF main.avail = "available" THEN [id |-> main.snap.id, epoch |-> main.snap.epoch]
                ELSE None
        w == [World EXCEPT !.page.owner = seen]
    IN  /\ seen # page.owner \/ (seen # None /\ main.snap.ed.rev > page.rev)
        /\ Becomes(IF seen = None THEN w
                   ELSE IF seen = page.owner THEN [w EXCEPT !.page.rev = Max({@, main.snap.ed.rev})]
                   ELSE [w EXCEPT !.page.rev = main.snap.ed.rev, !.page.chain = <<>>])

\* synchronizeEditorText: the patch of an edit waits for the ones before it.
Edit ==
    /\ page.owner # None /\ log.edits < log.may.edits
    /\ Becomes([World EXCEPT
           !.log.edits = @ + 1, !.log.text = @ + 1, !.page.rev = @ + 1,
           !.page.chain = Append(@, [owner |-> page.owner, base |-> page.rev,
                                     rev |-> page.rev + 1, text |-> log.text + 1])])

\* What the page does with the end of its patch.
Retired(w, rev) == [w EXCEPT !.page.chain = <<>>, !.page.rev = rev]
Told(w, patch, accepted, rev) ==
    IF w.page.chain = <<>> \/ Head(w.page.chain).text # patch.text THEN w
    ELSE IF accepted THEN [w EXCEPT !.page.chain = Tail(@)]
    ELSE Retired(w, rev)

\* dispatchPatch and applyEditorPatch up to its request.
SendPatch ==
    /\ page.chain # <<>> /\ main.patch = None
    /\ LET patch == Head(page.chain)
       IN  Becomes(
             IF page.owner # patch.owner THEN [World EXCEPT !.page.chain = Tail(@)]
             ELSE IF main.id # 0 /\ patch.owner = Owner(main) /\ Admits(main)
             THEN Down([World EXCEPT !.main.patch = patch],
                       [t |-> "patch", base |-> patch.base, rev |-> patch.rev,
                        text |-> patch.text, more |-> <<>>])
             ELSE Told(Rejected(World, patch.owner), patch, FALSE, main.snap.ed.rev))

\* The input is submitted; its patches are settled.
Submit ==
    /\ page.owner # None /\ page.chain = <<>> /\ main.snap.ed.text # Empty
    /\ log.submits < log.may.submits
    /\ main.id # 0 /\ page.owner = Owner(main) /\ Admits(main)
    /\ Becomes(Down([World EXCEPT !.log.submits = @ + 1], [t |-> "submit", rev |-> page.rev]))

(***************************************************************************)
(* The host.                                                               *)
(***************************************************************************)
\* The host takes a snapshot and sends it.
Published(w, kind) ==
    LET h == [w.host EXCEPT !.seq = @ + 1]
    IN  Up([w EXCEPT !.host = h], [t |-> kind, s |-> Snapshot(h)])

\* applyEditorPatch of ui-context, then a snapshot, then the response.
PatchedAlone(h, m) ==   \* bug: a refused patch keeps only its own text
    IF m.base # h.rev \/ m.rev <= h.rev
    THEN [h EXCEPT !.cands = <<m.text>>]
    ELSE [h EXCEPT !.rev = m.rev, !.text = m.text, !.cands = <<>>]
Patched(h, m) ==
    IF m.base # h.rev \/ m.rev <= h.rev
    THEN [h EXCEPT !.cands = <<m.text>> \o m.more]
    ELSE [h EXCEPT !.rev = m.rev, !.text = m.text, !.cands = <<>>]
HandlesPatch(w, m) ==
    LET h == Patched(w.host, m)
    IN  Up(Published([w EXCEPT !.host = h], "snap"),
           [t |-> "answer", text |-> m.text, accepted |-> h.text = m.text,
            ed |-> Editor(h.rev, h.text, h.cands)])

\* acceptEditorSubmission.
HandlesSubmit(w, m) ==
    LET h == [w.host EXCEPT !.rev = @ + 1, !.text = Empty]
    IN  IF m.rev # w.host.rev \/ w.host.moving THEN w
        ELSE Published(Up([w EXCEPT !.host = h],
                          [t |-> "cleared", rev |-> m.rev, text |-> w.host.text, ed |-> Shown(h)]),
                       "snap")

HostReceives ==
    /\ host.alive /\ net.down # <<>>
    /\ LET m == Head(net.down)
           w == [World EXCEPT !.net.down = Tail(@)]
       IN  Becomes(CASE m.t = "patch" -> HandlesPatch(w, m)
                     [] m.t = "submit" -> HandlesSubmit(w, m)
                     [] OTHER -> Published(w, "reply"))

\* setEditorText of an extension.
ExtensionWrites ==
    /\ host.alive /\ log.writes < log.may.writes
    /\ LET w == [World EXCEPT !.log.writes = @ + 1, !.log.text = @ + 1,
                              !.host.rev = @ + 1, !.host.text = log.text + 1,
                              !.log.spared = IF main.step = "idle" THEN @
                                             ELSE @ \cup {host.text},
                              !.log.written = IF main.step = "idle" THEN @
                                              ELSE @ \cup {log.text + 1}]
       IN  Becomes(Up(w, [t |-> "note"]))

\* A replacement: it ends only once main has seen it begin (the permit).
MoveStarts ==
    /\ host.alive /\ ~host.moving /\ main.ready /\ log.moves < log.may.moves
    /\ Becomes(Up([World EXCEPT !.host.moving = TRUE, !.log.moves = @ + 1],
                  [t |-> "started", id |-> host.id, epoch |-> host.epoch + 1]))
MoveEnds ==
    /\ host.alive /\ host.moving
    /\ main.moving = [id |-> host.id, epoch |-> host.epoch + 1]
    /\ \/ Becomes(Published([World EXCEPT !.host.moving = FALSE, !.host.epoch = @ + 1], "batch"))
       \/ Becomes(Up(Published([World EXCEPT !.host.moving = FALSE], "snap"),
                     [t |-> "cancelled"]))

\* The host dies; some of what it sent still arrives.
Crash ==
    /\ host.alive /\ log.crashes < log.may.crashes
    /\ \E n \in 0..Len(net.up) :
         Becomes([World EXCEPT !.host.alive = FALSE, !.log.crashes = @ + 1,
                               !.net = [down |-> <<>>,
                                        up |-> SubSeq(net.up, 1, n) \o <<[t |-> "exit"]>>]])

(***************************************************************************)
(* The failure of a host, and the activation of its successor.             *)
(***************************************************************************)
\* captureEditorRecovery: an empty editor leaves what was kept before.
CapturedPrimary(w) ==   \* bug: an editor without a text counts as empty, whatever its candidates
    LET ed == w.main.snap.ed
    IN  [w EXCEPT !.main.fenced = @ /\ w.main.through # None,
                  !.main.recovery = IF ed.text = Empty THEN @ ELSE ed]
Captured(w) ==
    LET ed == w.main.snap.ed
    IN  [w EXCEPT !.main.fenced = @ /\ w.main.through # None,
                  !.main.recovery = IF Texts(ed) = {} THEN @ ELSE ed]
Due(w) == [w EXCEPT !.log.due = Texts(w.main.snap.ed) \ {d.text : d \in w.log.delivered}]

Detached(w) ==
    LET dead == [w EXCEPT
            !.main.id = 0, !.main.ready = FALSE, !.main.avail = "unavailable",
            !.main.step = "down", !.main.patch = None, !.main.base = None, !.main.tries = 0,
            !.host.alive = FALSE, !.net = [down |-> <<>>, up |-> <<>>],
            !.log.orphaned = @ \/ w.main.moving # None]
    IN  IF w.main.patch = None THEN dead ELSE Told(dead, w.main.patch, FALSE, dead.main.snap.ed.rev)

\* handleRuntimeFailure of a ready host; the failed activation of one that is not.
Fails(w) ==
    Detached(IF w.main.ready \/ w.main.snap.id = w.main.id THEN Due(Captured(w)) ELSE w)

\* activateSession.
Restart ==
    /\ main.step = "down" /\ host.id < MaxHosts
    /\ LET h == FreshHost(host.id + 1)
       IN  Becomes(Up([World EXCEPT
               !.host = h, !.main.id = h.id, !.main.epoch = h.epoch, !.main.step = "starting",
               !.log.written = {}, !.log.spared = {},
               !.main.avail = "transitioning"], [t |-> "batch", s |-> Snapshot(h)]))

Ready(w) ==
    Down([w EXCEPT !.main.ready = TRUE, !.main.step = "idle", !.main.tries = 0,
                   !.main.base = None], [t |-> "ask"])

\* editorRecoveryWithoutDeliveredPrimary: the first candidate takes its place.
WithoutPrimary(ed) ==
    LET rest == SelectSeq(Distinct({ed.text}, ed.cands), LAMBDA c : c # Empty)
    IN  IF rest = <<>> THEN None ELSE Editor(ed.rev, Head(rest), Tail(rest))
WasCleared(m) ==
    /\ m.fenced /\ m.recovery # None
    /\ (m.through # None /\ m.recovery.rev <= m.through) \/ m.recovery.text = Empty

\* The patches that rebuild the kept editor, and the one for review after it.
RecoveryPatch(w) ==
    LET kept == w.main.recovery
        base == w.main.base
    IN  Down([w EXCEPT !.main.step = "patch"],
             [t |-> "patch", base |-> base.rev, rev |-> base.rev + 1, text |-> kept.text,
              more |-> Distinct({kept.text, base.text}, kept.cands \o base.cands)])
LastSnapshot(w) == Down([w EXCEPT !.main.step = "install"], [t |-> "ask"])
ReviewOfKept(w, rev) ==   \* bug: what the successor already held is forgotten
    LET open == Distinct({w.main.recovery.text}, w.main.recovery.cands)
    IN  IF open = <<>> THEN LastSnapshot(w)
        ELSE Down([w EXCEPT !.main.step = "review"],
                  [t |-> "patch", base |-> rev - 1, rev |-> rev + 1, text |-> Head(open),
                   more |-> Tail(open)])
Review(w, rev) ==
    LET kept == w.main.recovery
        base == w.main.base
        open == Distinct({kept.text}, kept.cands
                    \o (IF base.text = Empty THEN <<>> ELSE <<base.text>>) \o base.cands)
    IN  IF open = <<>> THEN LastSnapshot(w)
        ELSE Down([w EXCEPT !.main.step = "review"],
                  [t |-> "patch", base |-> rev - 1, rev |-> rev + 1, text |-> Head(open),
                   more |-> Tail(open)])

\* recoverEditorAfterRestart, up to its first request.
Recovering(w) ==
    LET cleared == WasCleared(w.main)
        kept == IF cleared THEN WithoutPrimary(w.main.recovery) ELSE w.main.recovery
        v == [w EXCEPT !.main.recovery = kept,
                       !.log.stale = @ \/ (cleared /\ w.main.recovery.text \in w.log.due)]
    IN  IF w.main.deferred = None THEN Ready(v)
        ELSE IF kept = None \/ kept = w.main.deferred.ed THEN LastSnapshot(v)
        ELSE RecoveryPatch([v EXCEPT !.main.base = w.main.deferred.ed])

\* The answers to its requests.
RecoveryAnswered(w, m) ==
    IF w.main.step = "review" THEN (IF m.accepted THEN Fails(w) ELSE LastSnapshot(w))
    ELSE IF m.accepted THEN Review(w, m.ed.rev)
    ELSE IF w.main.tries = 2 THEN LastSnapshot(w)
    ELSE RecoveryPatch([w EXCEPT !.main.tries = @ + 1, !.main.base = m.ed])
InstallsBaseline(w, s) ==
    IF w.main.deferred.id # w.main.id THEN Fails(w)
    ELSE Ready(Accounted([Installed(w, s) EXCEPT
             !.main.recovery = None, !.main.fenced = FALSE, !.main.through = None,
             !.main.deferred = None]))

(***************************************************************************)
(* What main does with the messages of its host.                           *)
(***************************************************************************)
Refused(w) == [w EXCEPT !.main.avail = "unavailable", !.log.refused = TRUE]

\* The batch of an initial binding, in the ready envelope, and of a replacement.
InitialBatch(w, s) ==
    LET expected == ~w.main.ready /\ w.main.moving = None
    IN  Recovering(IF ~expected THEN Refused(w)
                   ELSE IF w.main.recovery # None THEN [w EXCEPT !.main.deferred = s]
                   ELSE Accounted(Installed(w, s)))
SuccessorBatch(w, s) ==
    LET v == [w EXCEPT !.main.epoch = s.epoch]
    IN  IF w.main.recovery # None \/ w.main.moving # Owner(v.main) THEN Refused(v)
        ELSE Installed([v EXCEPT !.main.moving = None], s)

\* editorSourceCleared.
ClearedForgotten(w, m) ==   \* bug: the clear is left to the next snapshot
    [w EXCEPT !.log.delivered = @ \cup {[text |-> m.text, id |-> w.main.id]}]
Cleared(w, m) ==
    [WithEditor(w, m.ed) EXCEPT
        !.main.through = IF @ = None THEN m.rev ELSE Max({@, m.rev}), !.main.fenced = TRUE,
        !.log.delivered = @ \cup {[text |-> m.text, id |-> w.main.id]}]

\* The end of applyEditorPatch.
Answered(w, m) ==
    LET patch == w.main.patch
        v == [w EXCEPT !.main.patch = None]
    IN  IF w.main.step \in {"patch", "review"} THEN RecoveryAnswered(w, m)
        ELSE IF patch = None \/ patch.text # m.text THEN w
        ELSE IF patch.owner = Owner(w.main) /\ Admits(w.main)
        THEN Told(WithEditor(v, m.ed), patch, m.accepted, m.ed.rev)
        ELSE Told(Rejected(v, patch.owner), patch, FALSE, v.main.snap.ed.rev)

\* A resync: a write of an extension is fetched, not forwarded.
ResyncUnrecovered(w) ==   \* bug: what is kept for a recovery counts as newer
    IF w.main.ready /\ w.main.recovery = None THEN Down(w, [t |-> "ask"]) ELSE w
Resync(w) ==
    IF w.main.ready THEN Down(w, [t |-> "ask"]) ELSE [w EXCEPT !.main.avail = "unavailable"]

MainReceives ==
    /\ net.up # <<>>
    /\ LET m == Head(net.up)
           w == [World EXCEPT !.net.up = Tail(@)]
       IN  Becomes(
             CASE m.t = "batch" -> IF main.step = "starting" THEN InitialBatch(w, m.s)
                                   ELSE SuccessorBatch(w, m.s)
               [] m.t = "snap" -> IF main.recovery # None /\ main.deferred # None THEN w
                                  ELSE Installed(w, m.s)
               [] m.t = "reply" -> IF main.step = "install" THEN InstallsBaseline(w, m.s)
                                   ELSE Installed(w, m.s)
               [] m.t = "answer" -> Answered(w, m)
               [] m.t = "cleared" -> Cleared(w, m)
               [] m.t = "note" -> Resync(w)
               [] m.t = "started" -> [w EXCEPT !.main.moving = [id |-> m.id, epoch |-> m.epoch],
                                               !.main.avail = "transitioning"]
               [] m.t = "cancelled" -> [w EXCEPT !.main.moving = None, !.main.avail = "available"]
               [] OTHER -> Fails(w))

\* The deadline of a request: of a patch of the page, or of the recovery.
PatchTimesOut ==
    /\ main.patch # None /\ log.timeouts < log.may.timeouts
    /\ Becomes(LET w == [World EXCEPT !.main.patch = None, !.log.timeouts = @ + 1]
               IN  Told(Rejected(w, main.patch.owner), main.patch, FALSE, main.snap.ed.rev))
RecoveryTimesOut ==
    /\ main.step \in {"patch", "review", "install"} /\ log.timeouts < log.may.timeouts
    /\ Becomes(Fails([World EXCEPT !.log.timeouts = @ + 1]))

Next ==
    \/ PageSees \/ Edit \/ SendPatch \/ Submit
    \/ HostReceives \/ ExtensionWrites \/ MoveStarts \/ MoveEnds \/ Crash
    \/ Restart \/ MainReceives \/ PatchTimesOut \/ RecoveryTimesOut

Spec == Init /\ [][Next]_vars

(***************************************************************************)
(* Properties.                                                             *)
(***************************************************************************)
TypeOK ==
    /\ main.avail \in {"available", "transitioning", "unavailable"}
    /\ main.step \in {"idle", "down", "starting", "patch", "review", "install"}
    /\ main.id \in 0..MaxHosts /\ host.id \in 1..MaxHosts
    /\ main.step = "idle" <=> main.ready

\* A text whose clear main has learnt of is in no editor of a later host: what
\* was submitted never comes back as a draft.
DeliveredNeverReturns ==
    \A d \in log.delivered : host.id > d.id => d.text \notin {host.text} \cup Range(host.cands)

\* What main knew of the editor of a host that failed, and what was not
\* submitted, is in the baseline of its successor: as its text or as a
\* candidate for review, unless an extension has overwritten it there.
KeepsDrafts == log.lost = {}

\* The same but for the texts that the clear of an earlier host takes away.
KeepsUnfencedDrafts == ~log.stale => KeepsDrafts

\* Once nothing is under way, the record of an available host shows its editor,
\* whatever was cleared, overwritten, refused or timed out on the way.
MirrorsTheHost ==
    /\ net.up = <<>> /\ net.down = <<>> /\ main.ready /\ main.avail = "available" /\ host.alive
    => main.snap = Snapshot(host) \/ main.snap.ed = Shown(host)

\* The batch of the host that main runs is installed, never refused.
LiveBatchIsInstalled == ~log.refused

\* Whatever fails, main has an available host again, or its hosts are used up.
\* Two known faults are excepted: a host that failed in a replacement, and a
\* patch refused while its owner was current.
ComesBack ==
    log.may.fair =>
      <>[](main.avail = "available" \/ log.orphaned \/ log.spoiled
           \/ (main.step = "down" /\ host.id = MaxHosts))

\* Through crashes, replacements, refusals and timeouts: no draft that main knew
\* of is lost, but to the clear of an earlier host, nothing delivered comes
\* back, and main's picture is the editor's.
DraftsKept == TypeOK /\ DeliveredNeverReturns /\ KeepsUnfencedDrafts /\ MirrorsTheHost
=============================================================================
