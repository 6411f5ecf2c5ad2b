---------------------------- MODULE QueueOwnership ----------------------------
(***************************************************************************)
(* Who owns a slot of Pi's queues.  The SDK names no queue item: the host  *)
(* (state-authority.mjs) follows its prompts by how the public queues      *)
(* change, decorates delivered messages with the intent it believes they   *)
(* belong to, and moves, removes and clears items by clearing the queues   *)
(* and building them up again.  Extensions put items of their own into the *)
(* same queues, with the same texts if they like.                          *)
(*                                                                         *)
(* An item is known here by a number: those of prompts come first, those   *)
(* of extensions after them.  Texts are small numbers; Transformed is what *)
(* an input hook makes of any of them.                                     *)
(***************************************************************************)
EXTENDS Naturals, Sequences, FiniteSets, FiniteSetsExt, SequencesExt

CONSTANTS
    Modes,        \* the lanes: steer, followUp
    MaxPrompts,   \* bound: prompts of the user
    MaxForeign,   \* bound: items that extensions queue
    Texts,        \* what a prompt may say
    Transformed,  \* what a hook turns it into
    Plans         \* what may happen in a behaviour: plans, see below

Null == 0
Prompts == 1..MaxPrompts
Foreign == (MaxPrompts + 1)..(MaxPrompts + MaxForeign)
Items == Prompts \cup Foreign

(***************************************************************************)
(* A behaviour follows one plan, kept in log.may: the lanes used, the      *)
(* number of prompts and of items of extensions (foreign), what those say  *)
(* (texts), the queue operations of the user (edits) and Escapes, whether  *)
(* an item may leave its queue before its prompt() has settled (early),    *)
(* whether a turn may end between admission and Pi's own look at the       *)
(* prompt (late), and whether an append may go unseen for a while (quiet). *)
(***************************************************************************)
VARIABLES
    sdk,      \* Pi's public queues, per lane, and whether input hooks are registered
    own,      \* queueIdentity and queueValues, per lane
    ledger,   \* pendingQueueClaims, queuedPayloads, directDeliveryIntentId
    adm,      \* pendingAdmissions, one record per prompt
    edit,     \* the queue operation that is under way
    log       \* history: deliveries, what was ever queued, and what became of the items

vars == <<sdk, own, ledger, adm, edit, log>>

NoAdmission == [st |-> "none", mode |-> CHOOSE m \in Modes : TRUE, text |-> Null, sent |-> Null,
                slash |-> FALSE, base |-> <<>>, eligible |-> FALSE, attributed |-> FALSE,
                cancelled |-> FALSE, returned |-> FALSE, pushed |-> FALSE, streaming |-> FALSE]
NoEdit == [op |-> "none", target |-> Null, lane |-> CHOOSE m \in Modes : TRUE,
           todo |-> <<>>, built |-> [m \in Modes |-> <<>>], failed |-> FALSE]
EmptyLanes == [m \in Modes |-> <<>>]
NothingOwned == [m \in Modes |-> [ids |-> <<>>, vals |-> <<>>]]

Init ==
    /\ sdk \in [queue : {EmptyLanes}, hooks : BOOLEAN]
    /\ own = NothingOwned
    /\ ledger = [claims |-> <<>>, payloads |-> {}, direct |-> Null]
    /\ adm = [k \in Prompts |-> NoAdmission]
    /\ edit = NoEdit
    /\ log \in [may : Plans, given : {{}}, queued : {{}}, gone : {[i \in Items |-> {}]},
                foreign : {0}, edits : {0}, escapes : {0}]

World == [sdk |-> sdk, own |-> own, ledger |-> ledger, adm |-> adm, edit |-> edit, log |-> log]
Becomes(w) ==
    sdk' = w.sdk /\ own' = w.own /\ ledger' = w.ledger /\ adm' = w.adm /\ edit' = w.edit
        /\ log' = w.log

TextsOf(queue) == [i \in DOMAIN queue |-> queue[i].text]
Nulls(n) == [i \in 1..n |-> Null]
PrefixKept(old, new) == \A i \in DOMAIN old : i \in DOMAIN new /\ new[i] = old[i]

(***************************************************************************)
(* Reading the queues.                                                     *)
(***************************************************************************)
\* reconcileQueueIdentity for one lane: the lane, what is forgotten, what is
\* taken for delivered.
ReconciledUnspliced(lane, new, expected) ==   \* bug: a shrink leaves the identities alone
    [lane |-> [vals |-> new,
               ids |-> lane.ids \o Nulls(IF Len(new) > Len(lane.ids) THEN Len(new) - Len(lane.ids)
                                         ELSE 0)],
     forgot |-> {}, given |-> {}]
ReconciledAnyTime(lane, new, expected) ==   \* bug: an identity is kept for the next message
    LET n == Len(lane.vals) - Len(new)
        kept == SubSeq(lane.ids, n + 1, Len(lane.ids))
    IN  IF n > 0 /\ ~expected
        THEN [lane |-> lane, forgot |-> {}, given |-> {}]
        ELSE IF n > 0
        THEN [lane |-> [ids |-> kept, vals |-> new], forgot |-> ToSet(SubSeq(lane.ids, 1, n)),
              given |-> {lane.ids[1]} \ {Null}]
        ELSE [lane |-> [ids |-> lane.ids \o Nulls(Len(new) - Len(lane.vals)), vals |-> new],
              forgot |-> {}, given |-> {}]
Reconciled(lane, new, expected) ==
    LET n == Len(lane.vals) - Len(new)
        kept == SubSeq(lane.ids, n + 1, Len(lane.ids))
        suffix == \A i \in DOMAIN new : new[i] = lane.vals[i + n]
    IN  IF n > 0
        THEN [lane |-> [ids |-> IF suffix THEN kept ELSE Nulls(Len(new)), vals |-> new],
              forgot |-> ToSet(IF suffix THEN SubSeq(lane.ids, 1, n) ELSE lane.ids),
              given |-> IF expected /\ suffix /\ n = 1 THEN {lane.ids[1]} \ {Null} ELSE {}]
        ELSE IF PrefixKept(lane.vals, new)
        THEN [lane |-> [ids |-> lane.ids \o Nulls(Len(new) - Len(lane.vals)), vals |-> new],
              forgot |-> {}, given |-> {}]
        ELSE [lane |-> [ids |-> Nulls(Len(new)), vals |-> new], forgot |-> ToSet(lane.ids),
              given |-> {}]

\* resolvePendingQueueClaims, for the claim that came first of those that are left.
Resolved(w, claim) ==
    LET q == TextsOf(w.sdk.queue[claim.mode])
        at == Len(claim.base) + 1
        kept == PrefixKept(claim.base, q)
        left == [w EXCEPT !.ledger.claims = SelectSeq(@, LAMBDA c : c.key # claim.key)]
    IN  IF Len(q) = at /\ kept /\ q[at] = claim.text /\ w.own[claim.mode].ids[at] = Null
        THEN [left EXCEPT !.own[claim.mode].ids[at] = claim.key]
        ELSE IF Len(q) # Len(claim.base) \/ ~kept THEN left ELSE w

\* readQueues: the world afterwards and the intents taken for delivered.
ReadQueues(w, expected) ==
    LET of == [m \in Modes |-> Reconciled(w.own[m], TextsOf(w.sdk.queue[m]), expected)]
        seen == [w EXCEPT !.own = [m \in Modes |-> of[m].lane],
                          !.ledger.payloads = {p \in @ : \A m \in Modes : p.key \notin of[m].forgot}]
    IN  [w |-> FoldLeft(Resolved, seen, w.ledger.claims),
         given |-> UNION {of[m].given : m \in Modes}]
Observed(w) == ReadQueues(w, FALSE).w

Owned(w, key) == \E m \in Modes : Contains(w.own[m].ids, key)
Unclaimed(w, key) == [w EXCEPT !.ledger.claims = SelectSeq(@, LAMBDA c : c.key # key)]
Unpaid(w, key) == [w EXCEPT !.ledger.payloads = {p \in @ : p.key # key}]

(***************************************************************************)
(* The admission of a prompt.                                              *)
(***************************************************************************)
\* retainQueuedPayload and registerQueuedIntent.
Retained(w, k) ==
    [Unpaid(w, k) EXCEPT !.ledger.payloads =
        @ \cup {[key |-> k, mode |-> w.adm[k].mode, text |-> w.adm[k].text]}]
Registered(w0, k) ==
    LET w == Observed(w0)
        a == w.adm[k]
        q == TextsOf(w.sdk.queue[a.mode])
        at == Len(a.base) + 1
        kept == PrefixKept(a.base, q)
    IN  IF a.slash THEN Unpaid(Unclaimed(w, k), k)
        ELSE IF Contains(w.own[a.mode].ids, k) THEN Unclaimed(Retained(w, k), k)
        ELSE IF ~a.eligible THEN Unpaid(Unclaimed(w, k), k)
        ELSE IF Len(q) = at /\ kept /\ q[at] = a.text /\ w.own[a.mode].ids[at] = Null
        THEN [Unclaimed(Retained(w, k), k) EXCEPT !.own[a.mode].ids[at] = k]
        ELSE IF Len(q) = Len(a.base) /\ kept
        THEN [Unclaimed(Retained(w, k), k) EXCEPT !.ledger.claims =
                 Append(@, [key |-> k, mode |-> a.mode, base |-> a.base, text |-> a.text])]
        ELSE Unclaimed(w, k)
FinalizedKeeping(w0, k) == Registered(w0, k)   \* bug: the unresolved claim lives on
Finalized(w0, k) ==
    LET w == Unclaimed(Registered(w0, k), k)
    IN  IF Owned(w, k) THEN w ELSE Unpaid(w, k)

\* observeAttributableAdmissionQueueAppend
Attributed(w0, k) ==
    LET w == Observed(w0)
        m == w.adm[k].mode
        at == Len(w0.own[m].vals) + 1
        grown == Len(w.own[m].vals) = at /\ PrefixKept(w0.own[m].vals, w.own[m].vals)
    IN  IF w.adm[k].st # "open" THEN w0
        ELSE IF ~w.adm[k].attributed /\ w.adm[k].eligible /\ grown
             /\ w.own[m].vals[at] = w.adm[k].text /\ w.own[m].ids[at] = Null
        THEN [w EXCEPT !.own[m].ids[at] = k, !.adm[k].attributed = TRUE]
        ELSE w

\* The scheduler admits one prompt at a time, and no queue operation with it.
SchedulerFree ==
    /\ edit.op = "none"
    /\ \A k \in Prompts : adm[k].st # "none" => adm[k].returned
    /\ \A k \in Prompts : adm[k].cancelled => adm[k].st = "settled"

\* No accepted prompt still has a look at the queue to come.
Settled == log.may.early \/ \A k \in Prompts : adm[k].st # "queued"

Submit(k) == \E m \in log.may.lanes, t \in Texts, slash, streaming \in BOOLEAN :
    LET w == Observed(World)
    IN  /\ adm[k].st = "none" /\ k <= log.may.prompts /\ SchedulerFree /\ \A j \in Prompts : j < k => adm[j].st # "none"
        /\ Becomes([w EXCEPT !.adm[k] =
               [NoAdmission EXCEPT !.st = "open", !.mode = m, !.text = t, !.sent = t,
                    !.slash = slash, !.streaming = streaming, !.base = w.own[m].vals,
                    !.eligible = ~slash /\ ~sdk.hooks]])

\* observeInputAdmissionResult: the hooks let the input pass, or transform it.
HooksPass(k) ==
    /\ sdk.hooks /\ adm[k].st = "open" /\ ~adm[k].pushed /\ adm[k].sent = adm[k].text
    /\ ~adm[k].eligible /\ ~adm[k].slash /\ ~adm[k].cancelled
    /\ Becomes([World EXCEPT !.adm[k].eligible = TRUE])
HooksTransform(k) ==
    /\ (sdk.hooks \/ adm[k].slash) /\ adm[k].st = "open" /\ ~adm[k].pushed /\ ~adm[k].eligible
    /\ adm[k].sent # Transformed
    /\ Becomes([World EXCEPT !.adm[k].sent = Transformed])

Pushed(w, m, item) == [w EXCEPT !.sdk.queue[m] = Append(@, item)]
\* The same of an item that was in no queue before.
Queued(w, m, item) == Pushed([w EXCEPT !.log.queued = @ \cup {item.by}], m, item)

\* Pi queues the prompt and says so within the prompt's context.
PiQueues(k) ==
    LET a == adm[k]
        w == Queued([World EXCEPT !.adm[k].pushed = TRUE], a.mode, [by |-> k, text |-> a.sent])
    IN  /\ a.st \in {"open", "queued"} /\ ~a.pushed
        /\ edit.op = "none" /\ Becomes(Observed(Attributed(w, k)))

\* An extension queues something; inside an input hook without any context.
ForeignQueues == \E m \in log.may.lanes, t \in log.may.texts, seen \in BOOLEAN :
    LET i == MaxPrompts + log.foreign + 1
        w == Queued([World EXCEPT !.log.foreign = @ + 1], m, [by |-> i, text |-> t])
    IN  /\ log.foreign < log.may.foreign /\ (~seen => log.may.quiet)
        /\ Becomes(IF seen /\ edit.op = "none" THEN Observed(w) ELSE w)
Snapshot == Becomes(Observed(World))

\* restorationLaneAfterAttributedCancellation with the records that are made of it:
\* what is cleared is put into one generic record, attributed cancellations excepted.
Gone(w, items, how) ==
    [w EXCEPT !.log.gone = [i \in Items |-> IF i \in items THEN @[i] \cup {how} ELSE @[i]]]
ClearedWholly(w0) ==   \* bug: cancelled prompts are recorded here too
    LET w == Observed(w0)
    IN  [Gone(w, UNION {{q.by : q \in ToSet(w.sdk.queue[m])} : m \in Modes}, "restored") EXCEPT
            !.sdk.queue = EmptyLanes, !.own = NothingOwned,
            !.ledger.claims = <<>>, !.ledger.payloads = {}]
ClearedPending(w0) ==   \* bug: only what an admission still follows is recorded
    LET w == Observed(w0)
        pending == {k \in Prompts : w.adm[k].st \in {"open", "queued"} /\ ~w.adm[k].cancelled}
        held == UNION {{q.by : q \in ToSet(w.sdk.queue[m])} : m \in Modes}
    IN  [Gone(w, held \cap (pending \cup Foreign), "restored") EXCEPT
            !.sdk.queue = EmptyLanes, !.own = NothingOwned,
            !.ledger.claims = <<>>, !.ledger.payloads = {}]
Cleared(w0) ==
    LET w == Observed(w0)
        excepted == {k \in Prompts : w.adm[k].cancelled /\ w.adm[k].attributed}
        slots == {<<m, i>> : m \in Modes, i \in 1..(MaxPrompts + MaxForeign)}
        held == {s \in slots : s[2] \in DOMAIN w.sdk.queue[s[1]]}
        back == {s \in held : w.own[s[1]].ids[s[2]] \notin excepted}
    IN  [Gone(w, {w.sdk.queue[s[1]][s[2]].by : s \in back}, "restored") EXCEPT
            !.sdk.queue = EmptyLanes, !.own = NothingOwned,
            !.ledger.claims = <<>>, !.ledger.payloads = {}]
\* clearLateQueueForCancelledAdmission
LateCleared(w, k) ==
    LET seen == Observed(w) IN
    IF seen.sdk.queue[w.adm[k].mode] = <<>> THEN seen ELSE Cleared(seen)

\* preflightResult: Pi reports which way the prompt went.
Preflight(w, k) ==
    IF w.adm[k].cancelled THEN LateCleared([w EXCEPT !.adm[k].st = "settled"], k)
    ELSE Registered([w EXCEPT !.adm[k].st = "queued"], k)
PreflightQueued(k) ==
    /\ adm[k].st = "open" /\ edit.op = "none"
    /\ (adm[k].pushed \/ log.may.quiet)
    /\ Becomes(Preflight(World, k))
PreflightStarted(k) ==
    /\ adm[k].st = "open" /\ ~adm[k].pushed /\ edit.op = "none"
    /\ (adm[k].streaming => log.may.late)
    /\ \A j \in Prompts : adm[j].st # "started"
    /\ Becomes(IF adm[k].cancelled THEN Preflight(World, k)
               ELSE [World EXCEPT !.adm[k].st = "started", !.adm[k].pushed = TRUE,
                                  !.ledger.direct = k])
PreflightHandled(k) ==
    /\ adm[k].st = "open" /\ ~adm[k].pushed /\ (sdk.hooks \/ adm[k].slash) /\ edit.op = "none"
    /\ Becomes(IF adm[k].cancelled THEN Preflight(World, k)
               ELSE [World EXCEPT !.adm[k].st = "handled", !.adm[k].pushed = TRUE])

\* admit goes on after the race it waits for; two seconds bound the wait.
Continue(k) ==
    LET w == [World EXCEPT !.adm[k].returned = TRUE]
    IN  /\ adm[k].st # "none" /\ ~adm[k].returned
        /\ Becomes(IF adm[k].st = "queued" /\ ~adm[k].cancelled THEN Registered(w, k) ELSE w)

\* prompt() settles; a prompt that was started may fail before its message.
Settle(k) ==
    LET w == [World EXCEPT !.adm[k].st = "settled"]
        free == IF ledger.direct = k /\ ~adm[k].streaming
                THEN [w EXCEPT !.ledger.direct = Null] ELSE w
    IN  /\ adm[k].st \in {"queued", "started", "handled"} /\ edit.op = "none"
        /\ (adm[k].st = "queued" => adm[k].pushed) /\ adm[k].returned
        /\ Becomes(IF adm[k].st = "queued" THEN Finalized(free, k) ELSE free)

(***************************************************************************)
(* Delivery.                                                               *)
(***************************************************************************)
\* observeEvent of a user message: the intent it is decorated with.
Decorated(w, item) ==
    LET r == ReadQueues(w, TRUE)
        queued == IF Cardinality(r.given) = 1 THEN CHOOSE k \in r.given : TRUE ELSE Null
        as == IF queued # Null THEN queued ELSE r.w.ledger.direct
    IN  Gone([r.w EXCEPT !.ledger.direct = IF queued = Null THEN Null ELSE @,
                         !.log.given = @ \cup {<<item, as>>}], {item}, "delivered")

\* Pi takes the first item of a lane, after the message that starts the turn;
\* a snapshot may see the gap before the message.  No message comes while a
\* rebuild is under way: manageQueue's comment counts on it, its replays all
\* being started in one turn of the event loop.
Deliver == \E m \in Modes, early \in BOOLEAN :
    LET w == [World EXCEPT !.sdk.queue[m] = Tail(@)]
        by == Head(sdk.queue[m]).by
    IN  /\ sdk.queue[m] # <<>> /\ edit.op = "none" /\ (early => log.may.quiet)
        /\ (by \in Prompts /\ ~log.may.early) => (adm[by].st = "settled" \/ adm[by].cancelled)
        /\ \A k \in Prompts : adm[k].st = "started" => log.gone[k] # {}
        /\ Becomes(Decorated(IF early THEN Observed(w) ELSE w, by))
DeliverDirect(k) ==
    /\ adm[k].st = "started" /\ log.gone[k] = {} /\ edit.op = "none"
    /\ Becomes(Decorated(World, k))

(***************************************************************************)
(* Moving, removing and clearing.                                          *)
(***************************************************************************)
\* queueRebuildSafety
SafeIgnoringHooks(w, except, replay) ==   \* bug: foreign slots are thought safe
    w.ledger.claims = <<>>
Safe(w, except, replay) ==
    /\ w.ledger.claims = <<>>
    /\ \A m \in Modes : \A i \in DOMAIN w.own[m].ids :
        LET id == w.own[m].ids[i]
        IN  \/ id = except /\ id # Null
            \/ id # Null /\ \E p \in w.ledger.payloads :
                   p.key = id /\ p.mode = m /\ p.text = w.own[m].vals[i]
    /\ replay /\ (\E m \in Modes : \E i \in DOMAIN w.own[m].ids : w.own[m].ids[i] # except)
           => ~w.sdk.hooks

Entries(w, m) == [i \in DOMAIN w.own[m].ids |->
    [key |-> w.own[m].ids[i], by |-> w.sdk.queue[m][i].by, text |-> w.own[m].vals[i], lane |-> m]]

\* What the lanes hold once the operation is done.
RebuiltUninserted(entries, op, lane, at, to, text) ==   \* bug: a moved item is taken out only
    [m \in Modes |->
        IF op = "clear" THEN <<>>
        ELSE IF m = lane /\ op \in {"remove", "move"} THEN RemoveAt(entries[m], at)
        ELSE entries[m]]
RebuiltTwice(entries, op, lane, at, to, text) ==   \* bug: a moved item stays where it was too
    [m \in Modes |-> IF m = lane /\ op = "move" THEN InsertAt(entries[m], to, entries[m][at])
                     ELSE IF op \in {"clear", "remove"} THEN <<>> ELSE entries[m]]
Rebuilt(entries, op, lane, at, to, text) ==
    [m \in Modes |->
        IF op = "clear" THEN <<>>
        ELSE IF m # lane THEN entries[m]
        ELSE IF op = "remove" THEN RemoveAt(entries[m], at)
        ELSE IF op = "update" THEN [entries[m] EXCEPT ![at].text = text]
        ELSE [entries[m] EXCEPT ![at] = entries[m][to], ![to] = entries[m][at]]]

\* manageQueue up to its await: checked, cleared, every replay started.
Manage == \E op \in {"remove", "update", "move", "clear"}, m \in Modes, text \in Texts :
    LET w == Observed(World)
        es == [n \in Modes |-> Entries(w, n)]
    IN  /\ SchedulerFree /\ Settled /\ log.edits < log.may.edits
        /\ \E at \in DOMAIN es[m], to \in DOMAIN es[m] :
            LET target == IF op = "clear" THEN Null ELSE es[m][at].key
                lanes == Rebuilt(es, op, m, at, to, text)
                next == FoldLeft(LAMBDA s, n : s \o lanes[n], <<>>, SetToSeq(Modes))
                asked == CASE op = "remove" -> {target}
                           [] op = "clear" -> UNION {ToSet(w.own[n].ids) : n \in Modes}
                           [] OTHER -> {}
            IN  /\ (op = "move" => to \in {at - 1, at + 1}) /\ (op # "move" => to = at)
                /\ (op = "clear" => at = 1) /\ (op # "update" => text = CHOOSE t \in Texts : TRUE)
                /\ (op # "clear" => target # Null)
                /\ (op = "remove" => \E p \in w.ledger.payloads : p.key = target /\ p.mode = m)
                /\ Safe(w, IF op = "remove" THEN target ELSE Null, op # "clear")
                /\ Becomes(Gone([w EXCEPT
                       !.sdk.queue = EmptyLanes,
                       !.edit = [NoEdit EXCEPT !.op = op, !.target = target, !.lane = m,
                                     !.todo = next, !.built = lanes],
                       !.log.edits = @ + 1], asked, op))

\* One of the replays reaches its lane, or is refused.
ReplayOne == \E ok \in BOOLEAN :
    LET e == Head(edit.todo)
        w == [World EXCEPT !.edit.todo = Tail(@)]
    IN  /\ edit.op # "none" /\ edit.todo # <<>>
        /\ Becomes(IF ok THEN Pushed(w, e.lane, [by |-> e.by, text |-> e.text])
                   ELSE Gone([w EXCEPT !.edit.failed = TRUE], {e.by}, "uncertain"))

\* What payloads are kept afterwards; the updated one says its new text.
Repaid(payloads) ==
    {[p EXCEPT !.text = IF edit.op = "update" /\ p.key = edit.target
                        THEN (CHOOSE e \in ToSet(edit.built[p.mode]) : e.key = p.key).text
                        ELSE @] :
        p \in {q \in payloads : edit.op # "clear" /\ (edit.op = "remove" => q.key # edit.target)}}

\* manageQueue after its await.
ManageEndsKeeping ==   \* bug: a failed rebuild keeps what it knew before
    LET q == [m \in Modes |-> TextsOf(sdk.queue[m])]
        keys == [m \in Modes |-> [i \in DOMAIN edit.built[m] |-> edit.built[m][i].key]]
        whole == \A m \in Modes : Len(q[m]) = Len(keys[m])
        done == [World EXCEPT !.edit = NoEdit, !.ledger.claims = <<>>]
    IN  /\ edit.op # "none" /\ edit.todo = <<>>
        /\ Becomes(IF edit.failed \/ ~whole THEN done
                   ELSE [done EXCEPT !.own = [m \in Modes |-> [ids |-> keys[m], vals |-> q[m]]],
                                     !.ledger.payloads = Repaid(@)])
ManageEnds ==
    LET q == [m \in Modes |-> TextsOf(sdk.queue[m])]
        keys == [m \in Modes |-> [i \in DOMAIN edit.built[m] |-> edit.built[m][i].key]]
        whole == \A m \in Modes : Len(q[m]) = Len(keys[m])
        done == [World EXCEPT !.edit = NoEdit, !.ledger.claims = <<>>]
    IN  /\ edit.op # "none" /\ edit.todo = <<>>
        /\ Becomes(IF edit.failed \/ ~whole
                   THEN [done EXCEPT !.own = NothingOwned, !.ledger.payloads = {}]
                   ELSE [done EXCEPT
                            !.own = [m \in Modes |-> [ids |-> keys[m], vals |-> q[m]]],
                            !.ledger.payloads = Repaid(@)])

(***************************************************************************)
(* Escape while a turn streams: admissions that Pi has not accepted are    *)
(* cancelled, each with a record of its own, and the queues are cleared.   *)
(***************************************************************************)
Cancelled(w) ==
    LET hit == {k \in Prompts : w.adm[k].st = "open" /\ ~w.adm[k].cancelled}
    IN  [Gone(w, hit, "own") EXCEPT
            !.adm = [k \in Prompts |-> IF k \in hit THEN [@[k] EXCEPT !.cancelled = TRUE] ELSE @[k]]]
EscapedQuietly(w) ==   \* bug: the cleared texts go nowhere
    [Cancelled(w) EXCEPT !.sdk.queue = EmptyLanes, !.own = NothingOwned,
                         !.ledger.claims = <<>>, !.ledger.payloads = {}]
Escaped(w) == Cleared(Cancelled(w))
Escape ==
    /\ log.escapes < log.may.escapes /\ edit.op = "none"
    /\ Settled
    /\ Becomes(Escaped([World EXCEPT !.log.escapes = @ + 1]))

Next ==
    \/ \E k \in Prompts :
        \/ Submit(k) \/ HooksPass(k) \/ HooksTransform(k) \/ PiQueues(k)
        \/ PreflightQueued(k) \/ PreflightStarted(k) \/ PreflightHandled(k)
        \/ Continue(k) \/ Settle(k) \/ DeliverDirect(k)
    \/ ForeignQueues \/ Snapshot \/ Deliver \/ Manage \/ ReplayOne \/ ManageEnds \/ Escape

Spec == Init /\ [][Next]_vars

(***************************************************************************)
(* Properties.                                                             *)
(***************************************************************************)
Waiting == UNION {{sdk.queue[m][i].by : i \in DOMAIN sdk.queue[m]} : m \in Modes}
               \cup {edit.todo[i].by : i \in DOMAIN edit.todo}

TypeOK ==
    /\ \A m \in Modes :
        /\ Len(own[m].ids) = Len(own[m].vals)
        /\ ToSet(own[m].ids) \subseteq Prompts \cup {Null}
    /\ {p.key : p \in ledger.payloads} \subseteq Prompts /\ ledger.direct \in Prompts \cup {Null}
    /\ edit.op \in {"none", "remove", "update", "move", "clear"}
    /\ \A k \in Prompts :
        adm[k].st \in {"none", "open", "queued", "started", "handled", "settled"}

\* A slot that the host ascribes to a prompt holds that prompt, whenever the
\* host's picture of the lane is the present one: what an extension queued is
\* never taken for the user's.
OwnedIsTrue ==
    edit.op = "none" => \A m \in Modes :
        own[m].vals = TextsOf(sdk.queue[m]) => \A i \in DOMAIN own[m].ids :
            own[m].ids[i] \in {Null, sdk.queue[m][i].by}

\* A delivered message is decorated with the prompt it is, or with none.
\* (Unless a turn ended between admission and Pi's look at the prompt: it then
\* starts a turn of its own while the host expects it from the queue.)
DeliveryTrue ==
    ~log.may.late =>
        \A g \in log.given : g[2] \in {Null, g[1]}

\* A prompt owns one slot at most: an operation on it would otherwise change two.
OneSlotEach ==
    \A k \in Prompts :
        Cardinality({<<m, i>> \in Modes \X (1..(MaxPrompts + MaxForeign)) :
            i \in DOMAIN own[m].ids /\ own[m].ids[i] = k}) <= 1

\* Nothing that was ever queued vanishes, whether its prompt() has settled or
\* not: it is delivered, taken out because the user asked for that very item,
\* recorded by an Escape, or declared uncertain.
NothingVanishes == \A i \in log.queued : i \in Waiting \/ log.gone[i] # {}

\* What has ended is in no queue any more, a prompt that Escape cancelled before
\* Pi queued it excepted: nothing is delivered, restored or removed and still
\* there to be delivered.
NothingTwice == \A i \in Waiting : log.gone[i] \subseteq {"own"}

\* What extensions queued leaves by delivery or Escape, never by a queue
\* operation of the user.
ForeignUntouched ==
    \A i \in Foreign : log.gone[i] \subseteq {"delivered", "restored"}

\* What was attributed to a prompt that Escape cancelled is recorded once,
\* as long as no append goes unseen.
RecordedOnce ==
    ~log.may.quiet => \A k \in Prompts : adm[k].attributed => ~({"own", "restored"} \subseteq log.gone[k])

\* A claim ends with its prompt: it never waits for the text of another.
ClaimsEnd ==
    \A i \in DOMAIN ledger.claims : adm[ledger.claims[i].key].st # "settled"

\* The host's picture of Pi's queues never takes one prompt for another.
SlotsAreTrue == TypeOK /\ OwnedIsTrue /\ DeliveryTrue /\ OneSlotEach /\ ClaimsEnd

\* Whatever is queued, by the user or by an extension, ends where it should, once.
QueueKept == NothingVanishes /\ NothingTwice /\ ForeignUntouched /\ RecordedOnce
=============================================================================
