------------------------------ MODULE PanelInput ------------------------------
(***************************************************************************)
(* One keystroke's way from xterm to the terminal program in the host:     *)
(* the per-identity sequencer of the renderer (lib/panel-input-sequence    *)
(* and panel-input-buffer, driven by UnifiedTuiHost), the cumulative gate  *)
(* and call chain of the session registry, and the panel bridge of the     *)
(* host with its reconstruction fence (host.mjs, panel-reconstruction).    *)
(*                                                                         *)
(* A key is a whole xterm chunk.  Both directions between main and the     *)
(* host are FIFO, and so is the channel on which publications and answers  *)
(* to invokes reach the page.  The page draws a keyframe before it         *)
(* acknowledges it.  One panel is shown; a successor host opens it anew.   *)
(***************************************************************************)
EXTENDS Naturals, Sequences, FiniteSets, FiniteSetsExt, SequencesExt

CONSTANTS
    None,
    MaxKeys,       \* bound: keys the user types
    MaxPending,    \* chunks that fit into the pending buffer (64 KiB in the code)
    MaxHosts,      \* bound: hosts, the first one included
    Plans          \* what may happen in a behaviour: plans, see below

Keys == 1..MaxKeys

(***************************************************************************)
(* A behaviour follows one plan, kept in log.may: how many requests and    *)
(* cancellations may time out, how many pages it has (reloads), authority  *)
(* gaps that fence the panel in the page (fences), legacy events that      *)
(* retire the shown panel, times the terminal is hidden and hosts, up to   *)
(* which revision of a panel keys are attempted, and whether its steps are *)
(* fair.                                                                   *)
(***************************************************************************)
VARIABLES
    page,    \* sequencer, terminal and projection of the current page
    main,    \* _panelInputSequence, _panelInputChains, the cancellation obligation
    host,    \* the panel entry of the host and its reconstruction
    net,     \* the channels toHost, toMain and toPage
    log      \* history: what was typed, what ran, what was given up, what was confirmed

vars == <<page, main, host, net, log>>

NoView == [owner |-> 0, sync |-> "none", frame |-> FALSE, asked |-> FALSE, rev |-> 0, ack |-> 0]
FreshStream == [next |-> 0, ack |-> 0, blocked |-> FALSE, pending |-> <<>>, tail |-> <<>>,
                call |-> None]
FreshPage(gen) == [gen |-> gen, att |-> "renderer", visible |-> TRUE, view |-> NoView,
                   stream |-> FreshStream, life |-> gen, dirty |-> FALSE, forced |-> FALSE, acked |-> 0]
FreshPanel(owner) == [owner |-> owner, seq |-> 0, rev |-> 1, acked |-> 0, sealed |-> FALSE,
                      detached |-> 0]

Init ==
    /\ page = FreshPage(1)
    /\ main = [gen |-> 0, seq |-> 0, era |-> 0, calls |-> <<>>, acks |-> <<>>,
               obligation |-> 0, cancelling |-> FALSE]
    /\ host = FreshPanel(1)
    /\ net = [toHost |-> <<>>, toMain |-> <<>>, toPage |-> <<>>]
    /\ log \in [may : Plans, typed : {<<>>}, ran : {<<>>}, lost : {{}}, confirmed : {{}},
                lives : {1}, timeouts : {0}, fences : {0}, retires : {0}, hides : {0}]

World == [page |-> page, main |-> main, host |-> host, net |-> net, log |-> log]
Becomes(w) ==
    page' = w.page /\ main' = w.main /\ host' = w.host /\ net' = w.net /\ log' = w.log

ToHost(w, m) == [w EXCEPT !.net.toHost = Append(@, m)]
ToPage(w, m) == [w EXCEPT !.net.toPage = Append(@, m)]
ToMain(w, ms) == [w EXCEPT !.net.toMain = @ \o ms]

(***************************************************************************)
(* The sequencer of the page.                                              *)
(***************************************************************************)
Ready(w) == w.page.view.sync = "following"

HeldKeys(w) ==
    {w.page.stream.pending[i].key : i \in DOMAIN w.page.stream.pending}
        \cup {w.page.stream.tail[i].key : i \in DOMAIN w.page.stream.tail}
        \cup (IF w.page.stream.call = None THEN {} ELSE {w.page.stream.call.key})

\* The calls of main that no call of their chain is before.
Forwardable ==
    {i \in DOMAIN main.calls : ~main.calls[i].sent /\ \A j \in 1..(i - 1) :
        main.calls[j].era = main.calls[i].era => ~main.calls[j].live}

\* Attempts that may begin and calls that may be forwarded are continuations:
\* they run before the page and main turn to anything else.
Idle == Forwardable = {} /\ (page.stream.call # None \/ page.stream.tail = <<>>)

\* retireState, and activatePanelInputIdentity for the panel that follows.
Retired(w) ==
    [w EXCEPT !.log.lost = @ \cup HeldKeys(w), !.log.lives = @ + 1,
              !.page.stream = FreshStream, !.page.life = w.log.lives + 1]

\* queuePanelInput: an overflowing chunk is dropped as a whole.
BufferedUnbounded(w, key, tried) ==   \* bug: the buffer has no limit
    [w EXCEPT !.page.stream.blocked = TRUE,
              !.page.stream.pending = Append(@, [key |-> key, tried |-> tried])]
Buffered(w, key, tried) ==
    IF Len(w.page.stream.pending) >= MaxPending
    THEN [w EXCEPT !.page.stream.blocked = TRUE, !.log.lost = @ \cup {key}]
    ELSE [w EXCEPT !.page.stream.blocked = TRUE,
                   !.page.stream.pending = Append(@, [key |-> key, tried |-> tried])]

\* acknowledgePanelInput and resetPanelInputSequenceToAcknowledged.
Acknowledged(w, ack) ==
    LET top == Max({w.page.stream.ack, ack})
    IN  [w EXCEPT !.page.stream.ack = top, !.page.stream.next = Max({@, top})]
Rebased(w, ack) == [w EXCEPT !.page.stream.ack = ack, !.page.stream.next = ack]

\* releaseQueuedPanelInput when the panel is ready: a chunk whose attempt the
\* watermark covers has run; the others are dispatched again, in order.
ReleasedAll(w, ack) ==   \* bug: the watermark proves nothing
    [Acknowledged(w, ack) EXCEPT
        !.page.stream.blocked = FALSE, !.page.stream.pending = <<>>,
        !.page.stream.tail = @ \o [i \in DOMAIN w.page.stream.pending |->
            [key |-> w.page.stream.pending[i].key, rev |-> w.page.view.rev]]]
ReleasedUntested(w, ack) ==   \* bug: a lost attempt counts as delivered
    LET open == SelectSeq(w.page.stream.pending, LAMBDA c : c.tried = 0)
        again == [i \in DOMAIN open |-> [key |-> open[i].key, rev |-> w.page.view.rev]]
        kept == {open[i].key : i \in DOMAIN open}
        all == {w.page.stream.pending[i].key : i \in DOMAIN w.page.stream.pending}
    IN  [Acknowledged(w, ack) EXCEPT
            !.page.stream.blocked = FALSE, !.page.stream.pending = <<>>,
            !.page.stream.tail = @ \o again,
            !.log.confirmed = @ \cup (all \ kept)]
Released(w, ack) ==
    LET open == SelectSeq(w.page.stream.pending, LAMBDA c : c.tried = 0 \/ ack < c.tried)
        again == [i \in DOMAIN open |-> [key |-> open[i].key, rev |-> w.page.view.rev]]
        kept == {open[i].key : i \in DOMAIN open}
        all == {w.page.stream.pending[i].key : i \in DOMAIN w.page.stream.pending}
    IN  [Acknowledged(w, ack) EXCEPT
            !.page.stream.blocked = FALSE, !.page.stream.pending = <<>>,
            !.page.stream.tail = @ \o again,
            !.log.confirmed = @ \cup (all \ kept)]

\* panelResize with force; forceInputRecoveryRepaint asks only while shown.
Forced(w) ==
    LET asked == [w EXCEPT !.page.forced = TRUE]
    IN  IF w.page.view.owner = w.host.owner THEN ToHost(asked, [t |-> "force"]) ELSE asked
Recovering(w) == IF w.page.visible /\ ~w.page.forced THEN Forced(w) ELSE w

(***************************************************************************)
(* The terminal and the projection of the page.                            *)
(***************************************************************************)
\* onData, dispatchPanelInput.
Type ==
    LET key == Len(log.typed) + 1
        w == [World EXCEPT !.log.typed = Append(@, [owner |-> page.view.owner, gen |-> page.gen])]
    IN  /\ key \in Keys /\ Idle /\ page.visible /\ page.view.sync # "none"
        /\ Becomes(
             IF ~Ready(w) THEN Buffered(w, key, 0)
             ELSE IF page.stream.blocked THEN Released(Buffered(w, key, 0), page.view.ack)
             ELSE [w EXCEPT !.page.stream.tail = Append(@, [key |-> key, rev |-> page.view.rev])])

\* The release effect: it runs when the panel object is a new one.
ReleaseEffect ==
    LET w == [World EXCEPT !.page.dirty = FALSE]
        acked == Acknowledged(w, page.view.ack)
    IN  /\ Idle /\ page.visible /\ page.dirty /\ page.view.sync # "none"
        /\ Becomes(IF Ready(w) THEN Released(w, page.view.ack) ELSE acked)

\* The projection effect: an unanchored panel asks for a repaint once, and
\* again when nothing came of it.
AskRepaint ==
    /\ Idle /\ page.visible /\ page.view.sync = "synchronizing" /\ ~page.view.frame
    /\ \/ ~page.view.asked /\ ~page.forced
       \/ net.toHost = <<>> /\ net.toMain = <<>> /\ net.toPage = <<>> /\ page.att = "on"
    /\ Becomes(Forced(Acknowledged(World, page.view.ack)))

\* The drained terminal acknowledges the revision it shows.
AcknowledgeRepaint ==
    /\ Idle /\ page.visible /\ page.view.sync = "synchronizing" /\ page.view.frame
    /\ page.acked # page.view.rev /\ page.view.owner = host.owner
    /\ Becomes(ToHost([Acknowledged(World, page.view.ack) EXCEPT
           !.page.acked = page.view.rev,
           !.main.acks = Append(@, [live |-> TRUE, gen |-> page.gen, rev |-> page.view.rev])],
           [t |-> "ack", rev |-> page.view.rev]))

\* The terminal is hidden, and mounted again with a first, forced, resize.
Hide ==
    /\ Idle /\ page.visible /\ log.hides < log.may.hides
    /\ Becomes([World EXCEPT !.page.visible = FALSE, !.log.hides = @ + 1])
Show ==
    LET w == [World EXCEPT !.page.visible = TRUE, !.page.dirty = TRUE,
                           !.page.forced = FALSE, !.page.acked = 0]
    IN  /\ Idle /\ ~page.visible
        /\ Becomes(IF page.view.sync = "none" \/ page.view.asked THEN w ELSE Forced(w))

(***************************************************************************)
(* The invoke of session.panelInput, up to the gate of main.               *)
(***************************************************************************)
\* sendPanelInput: refused, or appended to the chain of the panel.
Invoked(w, call) ==
    LET refusal(kind) == [t |-> "reply", life |-> w.page.life, ack |-> 0, kind |-> kind]
    IN  IF w.main.obligation # 0
        THEN [ToPage(w, refusal("unavailable")) EXCEPT !.page.stream.call = call]
        ELSE IF w.page.view.owner # w.host.owner
        THEN [ToPage(w, refusal("replaced")) EXCEPT !.page.stream.call = call]
        ELSE [w EXCEPT !.page.stream.call = call,
                !.main.calls = Append(@, [life |-> w.page.life, era |-> w.main.era,
                    owner |-> w.page.view.owner, rev |-> call.rev, seq |-> call.seq,
                    key |-> call.key, sent |-> FALSE, live |-> TRUE, base |-> 0])]

Attempted(w, key, rev, rebased) ==
    Invoked([w EXCEPT !.page.stream.next = @ + 1],
            [key |-> key, rev |-> rev, seq |-> w.page.stream.next + 1, rebased |-> rebased])

\* The next attempt of the tail begins.
Attempt ==
    /\ Forwardable = {} /\ page.stream.call = None /\ page.stream.tail # <<>>
    /\ host.rev <= log.may.revisions
    /\ LET first == Head(page.stream.tail)
           w == [World EXCEPT !.page.stream.tail = Tail(@)]
       IN  Becomes(IF page.view.sync = "none" THEN Retired(World)
                   ELSE IF ~Ready(w) \/ page.stream.blocked THEN Buffered(w, first.key, 0)
                   ELSE Attempted(w, first.key, first.rev, FALSE))

\* The invoke settles.
Settled(w, call, reply) ==
    IF reply.kind = "error"
    THEN Recovering(Buffered(Rebased(w, call.seq - 1), call.key, call.seq))
    ELSE IF reply.kind = "replaced" THEN Retired([w EXCEPT !.log.lost = @ \cup {call.key}])
    ELSE IF reply.kind = "unavailable"
    THEN Recovering(Buffered(Rebased(w, reply.ack), call.key, 0))
    ELSE IF reply.ack = call.seq
    THEN [Acknowledged(w, reply.ack) EXCEPT !.log.confirmed = @ \cup {call.key}]
    ELSE IF reply.ack > call.seq /\ ~call.rebased
    THEN Attempted(Acknowledged(w, reply.ack), call.key, call.rev, TRUE)
    ELSE IF reply.ack > call.seq
    THEN Recovering(Buffered(Acknowledged(w, reply.ack), call.key, 0))
    ELSE Recovering(Buffered(Rebased(w, reply.ack), call.key, 0))

(***************************************************************************)
(* The registry.                                                           *)
(***************************************************************************)
WithoutCall(w, i) == [w EXCEPT !.main.calls = RemoveAt(@, i)]
Answered(w, call, ack, kind) ==
    ToPage(w, [t |-> "reply", life |-> call.life, ack |-> ack, kind |-> kind])
AdvancedBackwards(w, ack) == [w EXCEPT !.main.seq = Min({@, ack})]   \* bug: the comparison is turned around
AdvancedTo(w, ack) == [w EXCEPT !.main.seq = Max({@, ack})]   \* advancePanelInputWatermark

\* forwardPanelInput, up to its await: one call of a chain at a time.
Forward == \E i \in Forwardable :
    LET call == main.calls[i]
        gone == WithoutCall(World, i)
    IN  Becomes(
          IF call.seq > main.seq + 1 THEN Answered(gone, call, main.seq, "ok")
          ELSE IF call.owner # host.owner THEN Answered(gone, call, main.seq, "replaced")
          ELSE IF call.seq <= main.seq THEN Answered(gone, call, main.seq, "ok")
          ELSE ToHost([World EXCEPT !.main.calls[i].sent = TRUE, !.main.calls[i].base = main.seq],
                      [t |-> "input", rev |-> call.rev, seq |-> call.seq, key |-> call.key]))

\* The deadline of a request that is under way.
CallTimesOut == \E i \in DOMAIN main.calls :
    /\ main.calls[i].sent /\ main.calls[i].live /\ log.timeouts < log.may.timeouts
    /\ Becomes(Answered([World EXCEPT !.main.calls[i].live = FALSE, !.log.timeouts = @ + 1],
                        main.calls[i], 0, "error"))
AckTimesOut == \E i \in DOMAIN main.acks :
    /\ main.acks[i].live /\ log.timeouts < log.may.timeouts
    /\ Becomes([World EXCEPT
           !.main.acks[i].live = FALSE, !.log.timeouts = @ + 1,
           !.page.acked = IF page.gen = main.acks[i].gen /\ @ = main.acks[i].rev THEN 0 ELSE @])

\* What main does with the head of the channel from the host.
InputAnswer(w, m) ==
    LET i == Min({j \in DOMAIN w.main.calls : w.main.calls[j].sent})
        call == w.main.calls[i]
        gone == WithoutCall(w, i)
    IN  IF ~call.live THEN gone
        ELSE Answered(IF m.ack > call.base THEN [gone EXCEPT !.main.seq = m.ack] ELSE gone,
                      call, m.ack, "ok")
AckAnswer(w, m) ==
    LET ask == Head(w.main.acks)
        gone == [w EXCEPT !.main.acks = Tail(@)]
    IN  IF ~ask.live THEN gone
        ELSE IF m.ok THEN AdvancedTo(gone, m.ack)
        ELSE [gone EXCEPT !.page.acked =
                 IF w.page.gen = ask.gen /\ @ = ask.rev THEN 0 ELSE @]
CancelledKeepingGate(w, m) ==   \* bug: the gate survives the renderer it counted for
    IF m.gen # w.main.obligation \/ ~w.main.cancelling THEN w
    ELSE [w EXCEPT !.main.obligation = 0, !.main.cancelling = FALSE, !.main.era = @ + 1,
                   !.page.att = IF @ = "cancelling" THEN "authority" ELSE @]
Cancelled(w, m) ==
    IF m.gen # w.main.obligation \/ ~w.main.cancelling THEN w
    ELSE [w EXCEPT !.main.obligation = 0, !.main.cancelling = FALSE, !.main.seq = 0,
                   !.main.era = @ + 1,
                   !.page.att = IF @ = "cancelling" THEN "authority" ELSE @]
Frame(w, m) ==
    IF w.main.obligation # 0 THEN w
    ELSE IF m.t = "keyframe" THEN AdvancedTo(ToPage(w, m), m.ack) ELSE ToPage(w, m)

MainReceives ==
    /\ Forwardable = {} /\ net.toMain # <<>>
    /\ LET m == Head(net.toMain)
           w == [World EXCEPT !.net.toMain = Tail(@)]
       IN  Becomes(CASE m.t = "answer" -> InputAnswer(w, m)
                     [] m.t = "acked" -> AckAnswer(w, m)
                     [] m.t = "cancelled" -> Cancelled(w, m)
                     [] m.t = "baseline" -> IF m.gen = page.gen THEN ToPage(w, m) ELSE w
                     [] OTHER -> Frame(w, m))

\* rendererAttach: the panels of the page before are cancelled first.
RendererAttach ==
    LET newer == page.gen > main.gen
        owed == IF newer /\ main.gen > 0 THEN main.gen ELSE main.obligation
        w == [World EXCEPT !.main.gen = page.gen, !.main.obligation = owed,
                           !.main.cancelling = owed # 0,
                           !.page.att = IF owed = 0 THEN "authority" ELSE "cancelling"]
    IN  /\ page.att = "renderer"
        /\ Becomes(IF owed = 0 \/ (main.cancelling /\ ~newer) THEN w
                   ELSE ToHost(w, [t |-> "detach", gen |-> owed]))
CancellationTimesOut ==
    /\ main.cancelling /\ log.timeouts < log.may.timeouts
    /\ Becomes([World EXCEPT !.main.cancelling = FALSE, !.log.timeouts = @ + 1,
                             !.page.att = IF @ = "cancelling" THEN "renderer" ELSE @])
AuthorityAttach ==
    /\ page.att = "authority"
    /\ Becomes(ToHost([World EXCEPT !.page.att = "waiting"], [t |-> "attach", gen |-> page.gen]))

(***************************************************************************)
(* The host.                                                               *)
(***************************************************************************)
AcceptsInput(h, rev) == h.rev = rev /\ h.acked = rev

\* feedInput.
Fed(w, m) ==
    IF m.seq = w.host.seq + 1 /\ AcceptsInput(w.host, m.rev)
    THEN ToMain([w EXCEPT !.host.seq = m.seq, !.log.ran = Append(@, [key |-> m.key,
                   owner |-> w.host.owner, detached |-> w.host.detached])],
                <<[t |-> "answer", ack |-> m.seq]>>)
    ELSE ToMain(w, <<[t |-> "answer", ack |-> w.host.seq]>>)

\* resize with force: a new revision, the whole frame, and its keyframe.
Repainted(w) ==
    ToMain([w EXCEPT !.host.rev = @ + 1, !.host.sealed = TRUE],
           <<[t |-> "required", rev |-> w.host.rev + 1],
             [t |-> "keyframe", rev |-> w.host.rev + 1, sync |-> "synchronizing",
              ack |-> w.host.seq]>>)

\* panel_repaint_ack: the answer goes first, then the keyframe that reopens input.
AckReceived(w, rev) ==
    LET h == w.host
        ok == rev = h.rev /\ (h.acked = rev \/ h.sealed)
        answer == <<[t |-> "acked", ok |-> ok, ack |-> h.seq]>>
        reopen == <<[t |-> "keyframe", rev |-> h.rev, sync |-> "following", ack |-> h.seq]>>
    IN  IF ok /\ h.acked # rev
        THEN ToMain([w EXCEPT !.host.acked = rev, !.host.sealed = FALSE], answer \o reopen)
        ELSE IF ~ok /\ rev = h.rev THEN Repainted(ToMain(w, answer))
        ELSE ToMain(w, answer)

\* renderer_detached: every panel is fenced, its count starts over.
Detached(w, gen) ==
    ToMain([w EXCEPT !.host.seq = 0, !.host.rev = @ + 1, !.host.sealed = FALSE,
                     !.host.detached = gen], <<[t |-> "cancelled", gen |-> gen]>>)

\* The panel in the baseline of an attach is never following.
Baseline(h, gen) ==
    [t |-> "baseline", gen |-> gen, owner |-> h.owner, rev |-> h.rev, frame |-> h.sealed,
     ack |-> h.seq]

HostReceives ==
    /\ net.toHost # <<>>
    /\ LET m == Head(net.toHost)
           w == [World EXCEPT !.net.toHost = Tail(@)]
       IN  Becomes(CASE m.t = "input" -> Fed(w, m)
                     [] m.t = "force" -> Repainted(w)
                     [] m.t = "ack" -> AckReceived(w, m.rev)
                     [] m.t = "detach" -> Detached(w, m.gen)
                     [] OTHER -> ToMain(w, <<Baseline(w.host, m.gen)>>))

(***************************************************************************)
(* Publications at the page.                                               *)
(***************************************************************************)
\* installAuthorityBaseline with retireSupersededPanelInputIdentities.
InstalledKeeping(w, m) ==   \* bug: the successor's panel inherits the keys
    [w EXCEPT !.page.att = "on", !.page.dirty = TRUE,
              !.page.view = [owner |-> m.owner, sync |-> "synchronizing", frame |-> m.frame,
                             asked |-> FALSE, rev |-> m.rev, ack |-> m.ack]]
Installed(w, m) ==
    LET shown == [owner |-> m.owner, sync |-> "synchronizing", frame |-> m.frame,
                  asked |-> FALSE, rev |-> m.rev, ack |-> m.ack]
        kept == IF w.page.view.owner \in {0, m.owner} THEN w ELSE Retired(w)
    IN  [kept EXCEPT !.page.view = shown, !.page.att = "on", !.page.dirty = TRUE]
\* reducePanel.
ProjectedQuietly(w, m) ==   \* bug: the release effect does not depend on the panel's state
    IF m.t = "required"
    THEN [w EXCEPT !.page.view.sync = "synchronizing", !.page.view.frame = FALSE,
                   !.page.view.asked = TRUE, !.page.view.rev = m.rev]
    ELSE [w EXCEPT !.page.view.sync = m.sync, !.page.view.frame = TRUE,
                   !.page.view.asked = FALSE, !.page.view.rev = m.rev, !.page.view.ack = m.ack,
                   !.page.forced = IF m.sync = "following" THEN FALSE ELSE @,
                   !.page.acked = IF m.sync = "following" THEN 0 ELSE @]
Projected(w, m) ==
    IF m.t = "required"
    THEN [w EXCEPT !.page.view.sync = "synchronizing", !.page.view.frame = FALSE,
                   !.page.view.asked = TRUE, !.page.view.rev = m.rev, !.page.dirty = TRUE]
    ELSE [w EXCEPT !.page.dirty = TRUE, !.page.view.sync = m.sync, !.page.view.frame = TRUE,
                   !.page.view.asked = FALSE, !.page.view.rev = m.rev, !.page.view.ack = m.ack,
                   !.page.forced = IF m.sync = "following" THEN FALSE ELSE @,
                   !.page.acked = IF m.sync = "following" THEN 0 ELSE @]

PageReceives ==
    /\ Idle /\ net.toPage # <<>>
    /\ LET m == Head(net.toPage)
           w == [World EXCEPT !.net.toPage = Tail(@)]
       IN  Becomes(IF m.t = "reply"
                   THEN IF m.life # page.life THEN w
                        ELSE Settled([w EXCEPT !.page.stream.call = None], page.stream.call, m)
                   ELSE IF m.t = "baseline" THEN Installed(w, m)
                   ELSE IF page.att = "on" /\ page.view.sync # "none" THEN Projected(w, m)
                   ELSE w)

(***************************************************************************)
(* What the surroundings do.                                               *)
(***************************************************************************)
Reload ==
    /\ page.gen <= log.may.reloads
    /\ Becomes([World EXCEPT
           !.log.lost = @ \cup HeldKeys(World), !.log.lives = @ + 1,
           !.page = [FreshPage(page.gen + 1) EXCEPT !.life = log.lives + 1],
           !.net.toPage = <<>>])
Fence ==
    /\ Idle /\ page.att = "on" /\ page.view.sync # "none" /\ log.fences < log.may.fences
    /\ Becomes([World EXCEPT !.page.view.sync = "synchronizing", !.page.att = "authority",
                             !.log.fences = @ + 1])
RetirePanel ==
    /\ Idle /\ page.att = "on" /\ page.view.sync # "none" /\ log.retires < log.may.retires
    /\ Becomes([Retired(World) EXCEPT !.page.view = NoView, !.page.att = "authority",
                                      !.log.retires = @ + 1])

\* The host is replaced: what was under way settles, a successor opens the panel.
ReplaceHost ==
    LET live == SelectSeq(main.calls, LAMBDA c : c.sent /\ c.live)
        rejected == [i \in DOMAIN live |->
                        [t |-> "reply", life |-> live[i].life, ack |-> 0, kind |-> "replaced"]]
    IN  /\ host.owner < log.may.hosts
        /\ Becomes([World EXCEPT
               !.host = FreshPanel(host.owner + 1),
               !.main.seq = 0, !.main.era = @ + 1, !.main.acks = <<>>,
               !.main.obligation = 0, !.main.cancelling = FALSE,
               !.main.calls = SelectSeq(@, LAMBDA c : ~c.sent),
               !.net.toHost = <<>>, !.net.toMain = <<>>,
               !.net.toPage = @ \o rejected,
               !.page.acked = 0, !.page.forced = FALSE,
               !.page.view.sync = IF @ = "none" THEN @ ELSE "synchronizing",
               !.page.att = IF @ \in {"renderer", "cancelling"} THEN "renderer"
                            ELSE "authority"])

Environment ==
    Type \/ Hide \/ Reload \/ Fence \/ RetirePanel \/ ReplaceHost
        \/ CallTimesOut \/ AckTimesOut \/ CancellationTimesOut
Repaints == AskRepaint \/ AcknowledgeRepaint
Attaches == RendererAttach \/ AuthorityAttach
System ==
    \/ ReleaseEffect \/ Repaints \/ Show \/ Attempt
    \/ Forward \/ MainReceives \/ Attaches \/ HostReceives \/ PageReceives

Next == Environment \/ System
Spec == Init /\ [][Next]_vars

(***************************************************************************)
(* React renders what was projected, timers that are armed fire, channels  *)
(* deliver, the host answers.  No fault and no key is owed by anybody.     *)
(***************************************************************************)
Fairness ==
    /\ WF_vars(ReleaseEffect) /\ WF_vars(Repaints) /\ WF_vars(Show) /\ WF_vars(Attempt)
    /\ WF_vars(Forward) /\ WF_vars(MainReceives) /\ WF_vars(Attaches)
    /\ WF_vars(HostReceives) /\ WF_vars(PageReceives)
FairSpec == Spec /\ Fairness

(***************************************************************************)
(* Properties.                                                             *)
(***************************************************************************)
Ran == {log.ran[i].key : i \in DOMAIN log.ran}

TypeOK ==
    /\ page.att \in {"renderer", "cancelling", "authority", "waiting", "on"}
    /\ page.view.sync \in {"none", "synchronizing", "following"}
    /\ {page.visible, page.dirty, page.forced, page.stream.blocked, main.cancelling, host.sealed}
           \subseteq BOOLEAN
    /\ {page.stream.next, page.stream.ack, main.seq, host.seq, host.rev, host.acked}
           \subseteq Nat
    /\ Len(page.stream.pending) <= MaxPending
    /\ main.obligation \in 0..main.gen /\ host.owner \in 1..MaxHosts
    /\ log.lost \cup log.confirmed \cup Ran \subseteq 1..Len(log.typed)

\* A key runs at most once: neither a lost answer that is made up for, nor a
\* stale sequence that is rebased, feeds it to the terminal again.
RunsOnce ==
    \A i, j \in DOMAIN log.ran : log.ran[i].key = log.ran[j].key => i = j

\* What the page takes for delivered, by an acknowledgement or because a
\* watermark covers a lost attempt, has run.
ConfirmedRan == log.confirmed \subseteq Ran

\* A key runs for the host and for the page it was typed into: a successor of
\* either never gets the keys of its predecessor.
RunsForItsOwner ==
    \A i \in DOMAIN log.ran :
        /\ log.ran[i].owner = log.typed[log.ran[i].key].owner
        /\ log.ran[i].detached < log.typed[log.ran[i].key].gen

\* Main never counts further than the host: a gate that is ahead would
\* swallow every key the page types next.
GateNotAhead == main.obligation = 0 => main.seq <= host.seq

\* When a panel is shown as following, main has taken over the watermark it
\* was reopened with: the next key is neither a gap nor a repetition.
GateBeforeFrame ==
    page.view.sync = "following" /\ main.obligation = 0 /\ page.view.owner = host.owner
        => main.seq >= page.view.ack

\* Every key is fed to the terminal unless it was given up: with its page, its
\* host or its panel, or because the buffer was full.
EveryKeySettles ==
    \A k \in Keys : log.may.fair /\ Len(log.typed) >= k ~> k \in Ran \cup log.lost

\* A key runs at most once, for the page and the host it was typed into; who takes
\* it for delivered is right; and main's gate never loses its place.
KeysRunOnce ==
    /\ TypeOK /\ RunsOnce /\ ConfirmedRan /\ RunsForItsOwner
    /\ GateNotAhead /\ GateBeforeFrame
=============================================================================
