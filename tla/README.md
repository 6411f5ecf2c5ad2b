# A TLA+ development of pi-vis

pi-vis is an Electron desktop client for the Pi coding agent. The Electron
*renderer* draws one page; the *main* process owns workspaces, locks and child
processes; and every active session runs in a *session host*, a child process
that imports Pi's SDK and is the only authority on that session's state.

```
renderer page  <-- Electron IPC -->  main process  <-- child IPC -->  session host (one per session)
  projection                          router, registry                 state authority
  attach retry                        SessionHost transport            IPC send queue
```

What makes the program hard is the way between the authority and the page. The
host publishes its state on several *planes* (`semantic`, `transcript`,
`extensionUi`, `panel`), each with its own source sequence. Main numbers what it
forwards for one *renderer generation* (one load of the page), and on an attach
joins a baseline serialized by the host to the publications that went past
meanwhile. The promise is written down in
`src/docs/architecture/processes-and-ipc.md:68`: a page that *follows* a plane is
**exact as of its cursor**. Requests, answers, publications, timeouts, transport
gaps, page loads, and replacements of the whole runtime all cross each other
while that promise has to hold. This is the core of the project. Around it stand
the life of the processes and the locks on session files, the admission of what
the user asks for, and the protocols that cross the page, main and the host: keys
typed into a panel, the history of a session, navigations in its tree.

Contents: 1 the inventory of the system - 2 the modules - 3 the runs - 4 the
findings - 5 the proofs - 6 what is only model-checked, and what is not
modelled - 7 the plan - 8 how to run it.

## 1. Inventory

The full list of components, with their files and a status, is in
`PROJECT.json`; the hazards of the code, each at its line and with the
properties that guard it, are there too. This section says what each part
keeps, does and depends on.

### 1.1 The authority path

**Session host: state authority** (`resources/pi-session-host/state-authority.mjs`).
State: the identity of the runtime (`hostInstanceId`, `sessionEpoch`), one
sequence per plane, the message being streamed (the *checkpoint*), open
extension UI requests, panels, and the admission state of intents. Operations:
publish on a plane; answer an attach with a baseline and the cursor of every
plane; begin, commit or cancel a session transition; admit, schedule and settle
intents. Hard: everything happens between two `await`s of something else; a
transition replaces the identity while attaches are under way. Correct when: a
baseline and its cursors describe one instant; each publication names the next
sequence of its plane; after a transition nothing of the predecessor is
published.

**Host IPC send queue** (`ipc-send-queue.mjs`). State: a bounded FIFO, its byte
count, the token of the send that blocked, a closed flag, the pressure last told
to producers. Operations: `send`, `dispatch`, `drain`, `complete`, `close`. Hard:
`process.send` returns `false` and *has* taken the message, calls back
synchronously or late, throws, or finds the channel disconnected. Correct when:
messages leave in order, once each; a waiting message always has a callback to
wake it; retention stays within the bounds; producers know the pressure; a
closed queue stays closed.

**Host transport** (`src/main/pi/session-host.ts`). State: expected sequence of
the envelope, pending requests with their timers, a fence while a resync is
under way. Operations: sequence check, gap, duplicate, timeout, exit. Hard: a gap
loses an unknown run of messages and rejects whatever waits for an answer.

**Session registry** (`src/main/sessions/session-registry.ts`). State: one record
per session with its runtime identity, lock, restart window, activation visit,
router. Operations: `routeAuthorityPublication`, `authorityAttach`,
`installTransitionBatch`, `handleRuntimeFailure`, dispatch of intents, activation
and restart. Hard: it reads the runtime identity before an `await` and uses it
after; a host may die between any two steps.

**Renderer publication router** (`src/main/sessions/renderer-publication.ts`).
State: the expected owner, a mode (`detached`, `attaching`, `synchronizing`,
`following`), the generation, the next number, the last sequence per plane, the
fenced planes, a bounded buffer. Operations: `setExpectedOwner`, `route`, `attach`
and `performAttach`, `detach`. Hard: a baseline's cursor covers some of the
buffered publications and not others; a second attach supersedes the first; the
owner changes during the await; the buffer overflows. Correct when: no
publication is lost or repeated between baseline, replay and live traffic; the
router buffers only while an attach will take what it buffered.

**Renderer authority projection** (`src/renderer/src/stores/authority-reducer.ts`)
and the **sessions store's** authority entry points
(`stores/sessions-store.ts`, `stores/transcript.ts`). State: per plane a state
(`following`, `synchronizing`, `unavailable`) with owner and cursor, the
generation and the last publication number, the snapshot, the blocks of the
transcript with the active one, the requests shown, publications that arrived
before the first baseline. Operations: apply a publication, install a baseline
and its replay, mark unavailable, fence. Hard: an answer can be overtaken by
publications numbered after it (`sessions-store.ts:146-150`), and by the notice
that its runtime is gone. Correct when: a plane never goes back; a page that does
not follow offers no snapshot to decide on; nothing is shown twice.

**Authority attach retry** (`src/renderer/src/lib/authority-attach-retry.ts`,
driven by `App.tsx`). State: per session an attempt in flight, a timer, the
number of retries, a sticky force, the promise of a cycle. Operations: request,
the attempt's two calls, schedule a retry, cancel. Hard: requests join attempts
and timers; sessions are removed between the two calls. Correct when: at most one
attempt; every caller is answered; a forced request is really attempted.

### 1.2 The other parts

| Part | State and operations | Hard behaviour | Correct when |
|---|---|---|---|
| File ownership (`session-registry.ts`) | records, routing map, lock operations in flight; open, acquire, permit, commit, abort, release, compromise, close | every lock and unlock is asynchronous; unlocking goes by path, whoever holds the lock | a live record holds and watches its file; no failure or close leaves a lock behind (section 4 has the one way that does) |
| Host lifecycle (`session-registry.ts`) | the activation, the retirement, the restart timer, the crash budget, the worktree move, the visit; activate, fail, retire, restart, move, release, close | several functions wait for the same promise and resume in one turn | one live process under one lock; a failure charged once |
| Transport and process (`session-host.ts`) | expected number, fence, pending requests, startup, dialog, lifecycle and kill timers | gaps, repeated frames, a child that hangs or ignores signals, humans at dialogs | listeners get a stream without holes; everything that is waited for ends |
| Intent admission (`state-authority.mjs`) | ingress, drains, custody, pending admissions, barriers, presentations; dispatch, admit, drain, Escape, compact, navigate, reload | preflights that never settle, barriers that lift in any order, Escape in between | custody keeps order and loses nothing; an idle prompt and a transition are alone |
| Queue ownership (`state-authority.mjs`) | claims, identities and values per lane, payloads, the direct delivery; reconcile, operate on a queue, Escape | Pi names no queue item; extensions append the same texts | the host never takes one item for another, and none that was queued is lost or comes twice |
| Editor custody (`session-registry.ts`, the editor of `ui-context.mjs`, the composer's patches) | snapshot, recovery, fences of clears, activation; patch, submit, write, replace, crash, recover | a patch is refused or late while its owner is replaced or dies; the text of a dead host is rebuilt in its successor | no draft that main knew of is lost, nothing delivered comes back |
| Panel input (`UnifiedTuiHost.tsx`, `panel-input-*.ts`, registry, `panel-reconstruction.mjs`) | sequencer and pending buffer, gate and chains, cancellation obligation, reconstruction fence | uncertain delivery of a key, reloads, successors, fences | a key runs at most once, in the host and for the page it was typed into |
| History (`sessions-store.ts`, `bound-history.ts`) | hydration tokens, captures, generations, dirty marks | the file, the owner and the leaf change while it is read | a read never overwrites what followed it |
| Navigation (`sessions-store.ts`, `state-authority.mjs`) | escrow, pending presentations, retries, installed marks | conversion and acknowledgement race publications, reloads, crashes | the branch is shown whole and once before anything follows it |
| Shell turns and PTYs | fence tokens, input sequence, backpressure | reconstruction while output flows | a reconstruction and the live tail join without gap |
| Session search | worker generations, catalog, SQLite index | worker restarts, superseded queries | an old answer never replaces a newer one |
| Application lifecycle | quit fence, reload throttle, update schedule | quit deadline against draining hosts | the quit passes exactly once |
| Event batcher, restoration reconciler, git and worktrees, settings, credentials | small or on disk | mostly I/O | |
| Views: composer, transcript, diff, tree, pickers | presentation, drafts | drafts and the host's editor | nothing typed is lost |

### 1.3 How they interact

* host -> main: one ordered stream of enveloped messages per host: publications,
  transition batches, answers to requests. A fault loses a run of it.
* main -> page: one ordered stream of publications and notices, and the answers
  to the page's `rendererAttach` / `authorityAttach` calls, whose continuations may
  run later than messages sent after them.
* page -> main: calls, handled in order.
* within main: the registry calls the router synchronously; the router awaits the
  transport for a baseline and compares a revision afterwards.
* replacement: a *transition* (the same process moves on to another session file,
  in a batch on the wire) or a *restart* (the process died; main notices) gives the
  session a successor identity.

## 2. The modules

| Module | Models |
|---|---|
| `AuthorityPlanes` | what the authority path shares: planes, publications |
| `PublicationRouter` | main's router, as functions of its state: routing, buffering, the join of a baseline with the buffered tail |
| `AuthorityProjection` | the page's projection, as functions of its view: reducing a publication, installing a baseline, showing a replay |
| `AuthoritySync` | the authority path from a publication in the host to what the page shows, with `PublicationRouter` and `AuthorityProjection` in one state machine |
| `AuthorityAttachRetry` | the attach coordinator of one session |
| `IpcSendQueue` | the bounded FIFO in front of `process.send` |
| `SessionLocks` | who owns a session file: lock operations, reservations, compromises, closing |
| `RuntimeLifecycle` | the host processes of one session: activation, failure, restarts, moves, visits, closing |
| `EditorCustody` | the text in a session's editor: patches, clears, crashes and its recovery in the successor |
| `HostFeed`, `HostTransport` | the abstract feed that main's listeners are promised, and the numbered, fenced channel that implements it |
| `HostProcess` | startup, dialog, lifecycle and termination timers of one child |
| `IntentAdmission` | dispatch, custody, barriers, Escape and lifecycle permits |
| `QueueOwnership` | which prompt a slot of Pi's queues belongs to |
| `NavigationPresentation` | the branch of a navigation, from escrow to the page's acknowledgement |
| `PanelInput` | one key's way from xterm to the terminal program |
| `HistoryHydration` | the read of a session's history and everything that races it |
| `AuthoritySyncProofs`, `AuthorityAttachRetryProofs`, `IpcSendQueueProofs`, `RuntimeLifecycleProofs`, `IntentAdmissionProofs`, `SessionLocksProofs`, `MCSessionHostProofs`, `MCPageSyncProofs` | theorems; each extends the module of its name. The last two are about what their suites instantiate: `HostTransport` and `HostProcess`, `NavigationPresentation` |
| `MC*` | the instances for TLC |

Definitions keep the code's names where the language allows it; the lines behind
each of them are in `PROJECT.json` under `map`. A definition that carries a
`\* bug: ...` and is used by nothing is a plausible mistake in the definition it
precedes; each property is known to fail when some such mistake is made
(`PROJECT.json`, `mutants`).

Three conventions run through the modules of this list:

* **One action is one turn.** Everything in these programs is JavaScript: a handler
  runs to its next `await` undisturbed, and the continuations of a settled promise
  run before the next message or timer. An action is such a turn, with everything
  that runs in it. Where a continuation and the next message can be told apart, they
  are separate actions.
* **Plans.** A module with many kinds of environment takes a constant set `Plans`.
  A behaviour follows one of them: which intents are asked, how many faults, page
  loads, hosts it may have, and whether its steps are fair. A plan bounds the
  environment, never the program. The union of all plans' bounds in one behaviour is
  out of reach; each plan puts those together that meet in the code.
* **Suites.** `MCPageSync`, `MCRegistry`, `MCSessionHost`, `MCHostState` and
  `MCRenderer` check two to four components side by side. The components share no
  state: the variable `part` says which one a behaviour exercises, and the others
  stand still. A suite extends one of its components and takes the others with
  `INSTANCE`; the properties of those are repeated there by name.

### 2.1 AuthoritySync, PublicationRouter, AuthorityProjection

Variables, by place:

| Place | Variables | In the code |
|---|---|---|
| host | `hostOwner`, `hostSeq`, `stream`, `script`, `changing` | identity, plane sequences, streaming checkpoint, transition under way; `script` is a history variable: the kind of every transcript event so far |
| wire | `hostWire` | child IPC, after the send queue |
| main | `mainOwner`, `router`, `flight` | the record's runtime identity, the router, the closure state of the running `performAttach` |
| wire | `rendererWire` | publications, runtime notices and answers on their way to the page |
| page | `generation`, `asking`, `waiting`, `view`, `early` | the page load, calls without answer, the retry timer, the projection with the transcript, publications before the first baseline |
| bounds | `faults`, `asks` | counters only the model has |

Actions, one per handler:

| Action | Code |
|---|---|
| `PublishSemantic`, `PublishTranscript`, `PublishExtensionUi` | publication of a frame, an event, a request by the authority |
| `BeginTransition`, `CommitTransition`, `CancelTransition` | the transition as the wire shows it: control, batch, and the successor's frame right behind |
| `AnswerAttach` | the host's `attach` handler, including the refusal while a transition is under way |
| `ReceivePublication`, `ReceiveControl`, `ReceiveResponse` | the registry's routing of what the transport delivers; a response completes the await of a flight |
| `ContinueAttach` | the rest of `performAttach`: outdated revision, overflow, another round, join, seed, `following`, the answers |
| `AttachTimesOut`, `TransportGap`, `ReplaceHost` | a request timer; a lost run of publications with the rejection of the pending attach; the death of a host and its successor |
| `Ask` | `authorityAttach` on behalf of the retry coordinator or of a component, with coalescing, supersession and a new flight |
| `DeliverPublication`, `DeliverNotice`, `DeliverAnswer` | the page's handlers |
| `Rehydrate`, `Reload` | the history read that repairs a transcript; a new page load |

The router and the projection are synchronous in the code: a call runs to its end and
returns. They are therefore functions from state to state in modules of their own,
and `AuthoritySync` says when they are called and what may happen between the calls.

The data is abstract: a payload *is* its source sequence number, so that
"exact as of cursor" can be said of it. A semantic publication carries a whole
snapshot, a transcript publication one event (`start`, `delta`, `end` or a
`note` outside a message), an extension UI publication one request.

How the interleavings of the code are kept:

* `rendererWire` is ordered, except that `DeliverAnswer` may run after messages
  sent later: the continuation of an `invoke` is a microtask behind the message
  events. This is the overtaking that `sessions-store.ts:146-150` describes.
* The arrival of a response (`ReceiveResponse`) and the continuation of its
  awaiter (`ContinueAttach`) are separate. The transport settles the promise while
  handling the message; the next messages of the same batch are handled before
  microtasks run.
* An ask and its handling in main are one step: nothing that main does
  distinguishes when the call was made.

### 2.2 AuthorityAttachRetry

`exists` and `needs` describe the session and its projection; `stage` is where the
attempt is (`idle`, awaiting the `renderer` call, awaiting the `authority` call,
`retiring`); `inFlight`, `timer`, `retries`, `force` are the coordinator's maps for
one session; `cycle` says that callers wait for the shared promise, `owed` that a
forced one is among them. `Request`, `TimerFires`, `RendererAnswer`,
`AuthorityAnswer`, `Retire`, `Remove` and `ProjectionChanges` are the operations,
`Requested`, `Start`, `Dismiss`, `ScheduleRetry`, `Cancel`, `Abandon` the helpers
they share with the code.

### 2.3 IpcSendQueue

`queue`, `queuedBytes`, `nextToken`, `blockedToken`, `closed`, `pressureNotified`
are the closure's variables. `connected` and `callbacks` are Node's side: whether
the channel is up and which sends still owe a callback. `wire` and `offered`
record what Node accepted and what the host offered, in terms of which the
properties are written. A send is one action for each of the ways Node may answer
(`writable`, `full`, `throws`), with the callback inside the call or later.
`Complete`, `CompleteWithError`, `Shutdown` and `Disconnect` are the rest. The
drain loop is one step with four endings: everything was writable, the n-th message
blocked, the n-th was lost with an exception, or the channel was already down.


### 2.4 SessionLocks and RuntimeLifecycle

`SessionLocks` keeps per record the fields the protocol reads (`hasLock`,
`lockPath`, `token`, the reserved `tlock`, `comp`, `close` and so on), the routing
map `byFile`, and the lock acquisitions in flight (`ops`). proper-lockfile is
external and modelled from its use: `dir` is the directory on disk, `watched` the
library's own table, which `unlock` consults by path alone, `leaving` an unlock whose
directory is not removed yet, `late` the identity of a callback that is still to
come. Actions: open, activate, the host's failures and restarts, prepare and permit
of a transition, its commit and abort, compromise, and the settlement of a close.

`RuntimeLifecycle` has the record `s`, the running activation `act` and the ones that
wait for a retirement (`waiting`) or for it (`joined`), the worktree `move`, the
`release` of a visit, the `close`, and every process ever forked (`host`). Locks are
held or not. `log` remembers what each process was forked for and charged with.

`EditorCustody`: `page` is the owner and revision the page edits on and its unsettled
patches, `main` the record's snapshot, `_editorRecovery` with its fences and the
activation, `host` the child with its editor, `net` the two channels. A crash captures
the last editor main knows; the successor's initial batch is deferred, the text is
patched into the new host (three tries), what the host put there meanwhile is reviewed,
and the batch is installed. The page's `Edit`, `Submit` and `PageSees`, extensions'
writes, replacements inside the host, `Crash` and the two request timeouts are the
environment. `log.due`, `written`, `spared` and `lost` record what a successor's
baseline must have and does not; `log.stale` that a fence of an earlier host's clear
was used, `spoiled` that a refused patch left a recovery behind, `orphaned` that a host
died in a replacement: the three findings about the editor.

### 2.5 HostTransport, HostFeed, HostProcess

`HostFeed` is the promise: listeners get the child's frames without a hole, except
across a fence, whose end is a full snapshot. `HostTransport` has the child, the
channel that loses, repeats or refuses frames, SessionHost's number, fence, pending
requests and probes, and implements `HostFeed` with `fed` for `at` and the absence of
a fence for `following`: the run checks `Feed!FeedSpec` as a property. `HostProcess`
has the timers of a start, of dialogs, of a lifecycle request, and of a stop, against
a child that opens surfaces, hangs and ignores everything but SIGKILL.

### 2.6 IntentAdmission, QueueOwnership, NavigationPresentation

`IntentAdmission`: `sched` is ingress, waiting drains and the job that runs; `auth`
custody, the active intents, the prompt fence and the transition; `adm` the pending
admissions; custody is a set of items, each with the ingress sequence it was taken at
(`at`), since a failed compaction may take items from the middle of it; `comp` and `nav`
the barriers; `pi` the SDK, whose steps may fall between any two of the authority's.
Here an entry of Pi's queue is the prompt that put it there: which slot belongs to whom
is the subject of `QueueOwnership`, whose state is Pi's public queues, the host's
identities and values per lane, the claims, the payloads and the direct delivery, the
pending admissions and the queue operation under way. It assumes that no message is
delivered while the user's operation builds the queues up again: that is one synchronous
turn in the SDK, too. What was ever queued (`log.queued`) and how it ended (`log.gone`)
are history: a removal counts as the end of the item the user pointed at and of no other,
so whatever else a rebuilding or an Escape would drop is seen, items of prompts that
have long settled included.

`NavigationPresentation` follows a branch: performed by the host, kept in escrow with
prompts held behind it, published, converted and installed by the page, and
acknowledged, with conversions and acknowledgements that fail, pages that reload or
lose their authority, and hosts that crash. A page's requests to the host keep their
order. What is shown is a pair: the navigation whose branch it is and the number of
entries behind it.

### 2.7 PanelInput and HistoryHydration

`PanelInput`: the page has a sequencer (`next`, `ack`, `blocked`, pending chunks and
the serialized chain), main the cumulative gate per panel with its chain of calls and
the obligation to cancel the previous page's panels, the host the panel with its
reconstruction fence. A key is a whole xterm chunk.

`HistoryHydration`: the host's branch and files, the page's transcript with its
generation, mark and dirty flag, and the hydrations (`flows`) with main's owner-bound
reads. A behaviour starts with a saved session opened cold and its first hydration
begun. `log.limited` and `log.gaveUp` say that a bound of the model, or one of the
code's own two-minute waits, ended a hydration.

## 3. The runs

A bound stops what is counted, never what is in progress. Deadlock is not reported
where a system may rest: when what is asked is used up and has arrived, when a
session was removed or a queue closed. In `lifecycle` it is checked: an explicit
last step stands for the end of a plan.

A run's properties are conjunctions of named parts; the parts carry the comments that
say what each means.

| Run | Instance | Distinct states | Properties (and their parts) |
|---|---|---|---|
| `page_sync` | semantic plane, 3 frames, 2 identities, 2 page loads, 1 fault, transitions and restarts, buffer 2, 2 rounds, fairness; or 2 navigations and 2 prompts in three plans | 513 947 | `AgreedOrFenced` (`QuietAgreement`: when nothing is under way main and a following page agree on every cursor and the next number; `FailedBaselineIsFenced`; `SnapshotIsCursors`), `AttachingHasFlight`, `NoRollback`, `PageRecovers`; `BranchShown` (`NotPastTheBranch`, `NavigationIsAlone`, `TruthShown`, `NeverBack`), `BranchHeals` (`EscrowEnds`, `CustodyResumes`) |
| `registry` | one session, two files, a rival instance, 2 hosts, 2 transitions, fairness; or the editor with 3 hosts in four plans | 673 378 | `LocksAreTheirOwners` (`HeldLockIsWatched`, `RoutingFollowsLock`), `NothingStranded` (`NoStrandedLock`, `ClosedLeavesNothing`), `LossIsTerminal` (`CompromisedStaysFenced`, `OnlyRealLossFences`), `CloseCompletes`; `DraftsKept` (`DeliveredNeverReturns`, `KeepsUnfencedDrafts`, `MirrorsTheHost`), `ComesBack` |
| `lifecycle` | crash budget 2, 4 hosts; plans: crashes and closing; the same with work to reconcile; moves and closing; two visits and moves | 784 771 | `OneLockedHost` (`NoOverlap`, `LockOutlivesHost`, `NoIdleLock`, `NoDeadAuthority`, `ClosedStaysEmpty`), `CrashBudget` (`ChargedOnce`, `CrashLoopBounded`), `VisitsSpareOthers` (`VisitOwnsItsHost`, `ReleaseSparesUsed`), `RetryServed` |
| `admission` | 2 prompts, a compaction, a navigation, a reload in seven plans | 450 456 | `CustodyKept` (`CustodyFifo`, `CustodyLosesNothing`), `Exclusive` (`OneIdlePrompt`, `TransitionIsAlone`), `HandedRightly` (`CancelledNeverRuns`, `AcceptedOnce`, `HandedWhenFree`), `EveryIntentSettles` |
| `session_host` | 3 or 4 frames, one loss with one other fault, 2 epochs; or 2 dialogs, a panel, 4 openings | 636 208 | `FeedContract` (refinement of `HostFeed`), `RepairedWholly` (`EpochFollowsFeed`, `AttachNotStranded`), `TimersFollowHumans` (`StartupBounded`, `HumanIsNotAHang`, `DeadlinesFollowUi`, `StopEscalates`), `NothingWaitsForever` (`FenceHeals`, `StartEnds`, `StopEnds`) |
| `host_state` | the send queue with 3 messages, 4 bytes, sizes 1 and 2, 6 sends; or Pi's queues with 2 prompts and 2 items of extensions in four plans; or the transcript (2) and extension UI (3) planes with 2 page loads and 1 fault | 596 785 | `FifoExactlyOnce`, `WaitingHasWaker`, `PressureTruthful`, `QueueContract` (`RetentionBounded`, `ClosedIsFinal`, `SentOrClosed`); `SlotsAreTrue` (`OwnedIsTrue`, `DeliveryTrue`, `OneSlotEach`, `ClaimsEnd`), `QueueKept` (`NothingVanishes`, `NothingTwice`, `ForeignUntouched`, `RecordedOnce`); `ExtensionUiExact`: dialogs are neither lost nor repeated, though two planes share one numbering and a baseline covers them differently |
| `renderer` | the six retries of the code; or 5 transcript events, no fault, buffer 5, both askers; or 2 keys, pending buffer 1, 2 hosts in five plans; or 2 files, 3 hydrations in four | 556 337 | `CycleServed`, `ForceSurvives`, `RemovedStaysDead`, `CyclesEnd`; `TranscriptFaithful` (`NeverShownTwice`, `TranscriptExact`); `KeysRunOnce` (`RunsOnce`, `ConfirmedRan`, `RunsForItsOwner`, `GateNotAhead`, `GateBeforeFrame`), `EveryKeySettles`; `HistoryExact` (`TranscriptExact`, `InstalledOnce`), `HistoryHeals` (`HydrationEnds`, `DirtyHeals`) |
| `locks_shared` | two sessions replaced onto the same file | | ends in a violation of `HeldLockIsWatched` |
| `editor_drafts` | 2 edits, a submission, 2 crashes | | ends in a violation of `KeepsDrafts` |
| `editor_batch`, `editor_restart` | an edit and a replacement; a crash and a replacement | | end in violations of `LiveBatchIsInstalled` |
| `custody` | a prompt behind a compaction, one behind a navigation, a compaction of Pi's own that fails | | ends in a violation of `CustodyLosesNothing` |

The last five are the subject of section 4.

**Why these bounds.** Three semantic frames let one be covered by a baseline, one
be replayed and one be live. Two page loads give an answer of the old page
crossing the new one's. A buffer of two overflows with three publications. Two rounds
(`maxBaselineAttempts`) are the smallest number with a retry and an exhaustion. Five
transcript events hold a message of three events with others before, after or across
the baseline. Two identities show a predecessor and a successor. Sizes 1 and 2 against
4 bytes and 3 messages reach either bound of the queue first. Two files and two
transitions let a lock move and the next one fail; two attempts of the crash budget
have a first, a last and one too many. Two prompts are the smallest number with an
order; a compaction, a navigation and a reload are one barrier of each kind, and no
second one of a kind is admitted beside the first. The seventh plan, with a failing
compaction of Pi's own around a drained prompt, is the one in which custody loses its
order; `log.taken` names the prompt it takes, and `CustodyKept` speaks of the others'
behaviours. Of the lifecycle's plans, moves and closing together are there because the
proof asked for them: the lock may be kept for a close that waits, which no plan showed
as long as moves and closes were apart. Three hosts let an editor be recovered and the
successor fail as well. Two keys are the smallest number
that can be swapped, repeated or skipped. Three hydrations allow one that is
superseded while its successor is itself refused.

**Why the instances differ.** `QuietAgreement` is asked of one plane, the first
identity and the coordinated asker, because elsewhere it is not promised: a
publication may overtake a late answer, or be lost in a gap, in such a way that the
page stays *exact as of its cursor* but behind main until the next publication
reveals the gap in the numbering. With two planes of which one is the transcript even
`TranscriptExact` fails without any fault: while a page that follows one plane makes
a forced attach for the other, a later publication can overtake the answer, fence the
page, and make the next baseline skip the event of the replay that was lost. The
transcript is then read again only if something else marks it.

### Fairness

Fairness is stated only where a liveness property needs it, and only of what the code's
event loops do by themselves: what is queued is delivered, what was started is
continued, a timer that runs fires, a promise that Pi has to settle is settled. Nothing
is fair that a user, a fault or a rival does. In detail:

* `AuthoritySync`: the host's answer, the settling of a transition, every arrival and
  delivery, the continuation of an attach, the history read, and an `Ask` that is
  *needed* (the coordinator's timers, lifecycle events and focus changes make a page with
  an unfollowed plane ask again). The budget of retries is not in this module: when no
  timer is armed a later event asks.
* `AuthorityAttachRetry`: both answers, the retirement microtask, the timer.
* `IpcSendQueue`: every owed callback. Nothing makes the host send or close.
* `SessionLocks`: settlement of lock operations and of closing steps.
* `EditorCustody`, in plans marked fair: the page sees main's record, host and main
  receive, a replacement ends, and a failed host is started again.
* `RuntimeLifecycle`: exits of processes that were told to stop, timers, and the
  steps of activations. A host need not become ready: silence ends in the watchdog.
* `HostTransport`: the child answers and the channel delivers. `FenceHeals` asks for
  no more than a state request on its way to the child.
* `HostProcess`: the timers of start, dialogs and stop; the exit after a SIGKILL or of
  a child that dies anyway.
* `IntentAdmission`, `NavigationPresentation`, `PanelInput`, `HistoryHydration`: their
  scheduler, deliveries and timers, in plans marked fair. `EveryKeySettles` leaves out
  a terminal that is hidden, for which the page keeps its keys until it is shown.

## 4. Findings and known exceptions

**Two sessions, one file, no lock** (`locks_shared`, `HeldLockIsWatched`).
`permitTransition` sets `targetFile` before it holds the lock and looks only at
`byFile`, which does not know another record's reservation. The second session's lock
attempt is denied, it rolls back, and `abortTransitionLock` unlocks the path, through
proper-lockfile's per-process table, although the lock is the first session's: the first
commits and goes on with no lock at all.

**A clear outlives its host** (`editor_drafts`, `KeepsDrafts`).
`recoverEditorAfterRestart` (`session-registry.ts:1866`) returns early when the new host
had nothing to recover, and leaves the fences of a clear of the earlier host in the
record. Revisions start at 0 again, so the next draft, not above the old clear's
revision, is taken for delivered when that host crashes, and dropped.

**A refused patch stands in the way of its own replacement** (`editor_batch`,
`LiveBatchIsInstalled`). A patch that is refused because a replacement has begun is
kept as the recovery of a live host (`session-registry.ts:4011`); the batch that ends
the replacement is then refused as unexpected.

**A dead host's replacement stands** (`editor_restart`, `LiveBatchIsInstalled`).
`handleRuntimeFailure` never clears `_hostTransition` (`session-registry.ts:2238`): the
initial batch of the restarted host is refused and the session stays transitioning.

**The drain shifts the wrong item** (`custody`, `CustodyLosesNothing`). While
`drainCustody` awaits the admission of the first item, a failed compaction of Pi's own
can take that item out of custody (`state-authority.mjs:3623-3627`); the `shift` after
the await (`3331`) then removes the one behind it, which is never sent, given back or
settled.

The following were met while modelling: counterexamples that TLC found to earlier,
stronger forms of the properties. The properties as they stand name the exception, or
the instance leaves its cause out; each line says which.

| Where | What the code does | How the project treats it |
|---|---|---|
| `renderer-publication.ts:398` | a timeout, a gap or an overflow discards transcript publications, and the next baseline follows beyond them (`processes-and-ipc.md:68` promises otherwise) | the transcript part of `renderer` has no faults |
| `App.tsx:680` | a predecessor's late answer makes the page follow the predecessor; `authorityNeedsBaseline` does not compare owners | `QuietAgreement` speaks of the first identity |
| `sessions-store.ts:5230`, `Composer.tsx:1833` | a component's own attach fails and nobody fences the page | `page_sync` has the coordinated asker only |
| `renderer-publication.ts:173` | the frame right behind a transition batch (`state-authority.mjs:4531`) is dropped by the router that the batch stopped | an attach follows anyway; no property needs the frame |
| `session-registry.ts:782` | `openSession` forgets a failed record that still holds its lock for the restart, and the lock is stranded | `ReopenFailed = FALSE`; `NothingStranded` does not claim it, and it takes two sessions of one file, which `FilesApart` excludes |
| `session-registry.ts:5439` | a switch reserves its file at prepare, and the successor permit for the same file is refused | modelled; no property forbids the refusal |
| `session-registry.ts:2046` | an initial batch that was deferred for a host that died in its recovery is found by the next activation, which fails with "Recovered editor baseline could not be installed" | modelled: that activation fails, and a restart is charged for it |
| `Composer.tsx:700`-`763` | a crash with a patch in flight overwrites the visible draft by what main kept; a timed-out patch retires the keystrokes typed behind it | `KeepsDrafts` speaks of what main knew, not of what the page shows |
| `session-registry.ts:1381` | an exit during the wait for a reconciliation is ignored: a dead process stays installed as ready | `NoDeadAuthority` excepts plans with work to reconcile; the hazard of this line has no property |
| `session-registry.ts:2199` | the restart timer finds the user's activation still at work, and the retry is lost | `RetryServed` excepts it and guards the other half of the hazard only |
| `session-registry.ts:2184` | a timer armed earlier survives the spent budget: one more restart | `CrashLoopBounded` allows one |
| `session-registry.ts:4778`, `4814` | a failed move can leave its fence up, or the host in a checkout that the record does not name | modelled; no property forbids it |
| `state-authority.mjs:2489` | a prompt that arrives while Pi streams passes earlier ones in custody behind the streaming prompt's fence | `CustodyFifo` orders what custody takes |
| `state-authority.mjs:3685`, `3680` | restored custody stays "unknown" in `activeIntents`, which refuses later reloads; a prompt that failed after it ran is recorded "not_processed" | modelled; no property forbids it |
| `state-authority.mjs:3359` | a drain refused by an open compaction is not repeated when that compaction fails | fair plans have no failing compaction |
| `session-host.ts` (gap handling) | an answer that is to lift the fence is judged by the number the fence stopped counting, and asked for again | `FenceHeals` bounds the child's publications |
| `UnifiedTuiHost.tsx` (`dispatchPanelInput`) | under a fence a new key can be buffered before an older one that waits in the chain, and they run in that order | `RunsOnce` is about repetition, no property about order |
| `state-authority.mjs` (`registerQueuedPrompt` and its callers) | a prompt whose item left already is registered again, against an extension's append of the same text; a turn that fails before its echo leaves a direct delivery to the next message | `may.early` with texts of their own; `DeliveryTrue` excepts `may.late` |
| `sessions-store.ts:3036`, `App.tsx:694` | a rejected first read leaves no mark that it is owed; the notice of a new file is dropped when its runtime is gone | `log.gaveUp`, and `page.file = host.file` in `TranscriptExact` |
| `bridge.mjs:2293` | an extension that calls Pi's own API adds entries behind a captured branch, which the installation hides | `TruthShown` excepts `log.foreign` |

## 5. Proofs

Proved with TLAPS for all values of the constants that satisfy the named assumptions
(`SyncAssumption`, `RetryAssumption`, `BoundsAssumption`, `LifecycleAssumption`,
`AdmissionAssumption`, `LocksAssumption`, `OpenedAssumption`, `NavAssumption`), which only
say that bounds are natural numbers, that plans keep to them, and sets are what they are named for, that the kinds of intent have no member in common,
and that `None` is none of the things it stands for the lack of. The theorems on locks
have one more hypothesis, `FilesApart`, stated with them. Every set of
plans is covered, the ones that no run has included: a plan bounds the environment, so a
theorem for all of them is one about every environment that plans can describe.

* **`RouterCollectsForFlight`**: `Spec => []AttachingHasFlight`. The router is
  `attaching` exactly while an attach is in flight, through supersession,
  timeouts, gaps, host replacement, page loads and every exit of `performAttach`.
  Left to itself the property is nearly inductive: what is missing is that a
  flight and `None` can be told apart and that the router's record has the field
  that the updates keep. `MainInv == MainShape /\ AttachingHasFlight` adds this.
  The lemmas say of each function of the router whether it enters, leaves or keeps
  the attaching mode (`ExpectingKeeps`, `RoutedKeeps`, `DetachedLeaves`,
  `AttachingEnters`, ...); there is one lemma per action that touches main, and one
  for all that do not (`Untouched`).
* **`CallersAreServed`, `ForcedCallersAreAnswered`, `RemovedSessionsStayDead`**:
  the coordinator, for every retry budget. `RetryInv` adds to the types and
  `CycleServed` what an attempt under way implies (`Attempts`), that a removed
  session keeps nothing (`Gone`), and that a forced caller implies the sticky
  force (`Forced`). The first is needed because the two continuations act on an
  attempt's behalf after an await; the last carries `ForceSurvives` across a
  joined attempt. The two action properties follow from `RetryInv` and the step.
* **`QueueIsFifo`, `QueueNeverStrands`, `QueuePressure`, `QueueClosesForGood`**: the
  send queue, for every bound, set of sizes and number of sends. `QueueInv` joins the
  first three properties, since they need each other: the order of what is sent
  depends on waiting messages never being passed by a new one, which depends on the
  queue being empty when nothing blocks. It also needs the shape of the queue and that
  tokens are issued in order (`WireInv`). Every ending of the drain loop shifts a
  prefix of the queue to the wire (`ShiftedExtends`). The fourth is an action property
  that needs no invariant.
* **`FencesRepairWholly`**: `Spec => []RepairedWholly`, and **`ListenersGetTheFeed`**:
  `Spec => FeedContract`, the refinement of `HostFeed` by `HostTransport`, for every
  set of budgets and number of epochs. Nothing in the properties says what a frame's
  number tells. `WireIsHonest` does: a frame's number is its place in what the child
  sent, so the epoch, the request that it answers and whether an epoch begins with it
  can be read off the number alone; frames that are lost or repeated keep that.
  `AnswersAreSent` ties the answers to those places, `FeedIsCounted` ties what
  listeners got to SessionHost's counter, and `FenceClearsAttaches` says why no attach
  of before the fence waits behind it. With `TransportInv` each step is one of the
  feed's or a stutter: the refinement is the invariant and one lemma per action.
* **`TimersAreTrue`**: `HostProcess`'s `Spec => []TimersFollowHumans`, for every set of
  dialogs and panels and number of openings. The invariant is inductive as it stands:
  each handler of a surface sets the timers in the turn in which it changes the set of
  blockers. `StopEscalates` is the safety in `StopEnds`: a stop that was asked for has
  a timer for its next step until the last one, SIGKILL, is taken.
* **`LifeIsLocked`**: `Spec => []OneLockedHost`, and **`CrashesAreCharged`**:
  `Spec => []CrashBudget`, for every set of plans, budget and number of processes. The
  invariant is stated over a registry `w` and the processes `p` as values, because a
  turn of the registry runs several helpers one after the other: `Core` (`Placed`,
  `Installed`, `Forked`, `Locked`, `Ended`, `Idle`, `Shown`, `Charged`, `Paid`) holds of
  every value between two helpers, `Rested` (`Tidy`, `Justified`) between turns only.
  `Placed` is the heart of `NoOverlap`: a living process is the installed or the retiring
  one. `Paid` is the accounting behind the crash budget: each restart made, armed or
  about to be scheduled has its own failure in the count, but for one from a timer armed
  before the count began anew. `Justified` lists why a lock may be held by a session
  without a host; `NoIdleLock` follows from it, and had to be corrected for it: a close
  that waits is one of the reasons. What is resumed when a retirement ends (the
  activation, its waiters, the move, the release, the close, the restart) runs in one
  turn and is proved as a chain of stages, each handing the obligations that remain to
  the next.
* **`VisitsAreSparing`**: `Spec => VisitsSpareOthers`, on top of the same invariant.
  `Visited` adds what ties a visit to its process across turns: the installed process
  was forked for the visit of the record, a mark of use on that process is a mark on the
  visit, and a process for which a permit has been given belongs, as long as it is up, to
  the visit under release. The look at the stop asks only for the marks on the visit:
  that these are the marks on the process, after any crash, restart, move or return
  between the probe and the permit, is the content of the theorem. `Calls` says what any
  helper of a turn leaves of this, and is closed under doing one helper after another.
* **`CustodyIsKept`**: `Spec => []CustodyKept`, **`BarriersExclude`**:
  `Spec => []Exclusive`, and **`PromptsAreHandedRightly`**: `Spec => HandedRightly`, for
  every set of intents and plans and number of waiting drains. `AdmissionInv` has eight
  parts. `Fresh` and `Ordered` make the order of custody a fact about one history
  sequence: the `at` of an item is its place in `log.kept`. `Pending` ties what the
  authority believes of a prompt to the stage it has with Pi, `IdleFenced` ties idle
  prompts to the fence. `HeadSent` is why FIFO survives a drain: of what is in custody
  only the awaited item may be with Pi, and it is the first. `Alone` is the exclusion of
  a reload. `Safe`, what the properties say of custody, follows only together with
  `HeadSent`, and only as long as a failed compaction has taken no item that was
  being drained (section 4). Most helpers only move
  what is there: `Follows(v, w)` says so of a state `v` made from `w`, `FollowsKeeps`
  proves once that it keeps the invariant, and what does more (dispatch, custody, handing
  over, acceptance, the beginning of a navigation or reload) has a lemma of its own. The
  proof needs the four kinds of intent to have no member in common; an earlier form of
  `AdmissionAssumption` let two kinds be the same set.
* **`OwnersKeepLocks`**: `FilesApart => (Spec => []LocksAreTheirOwners)`,
  **`NoLockIsStranded`**: the same for `NothingStranded`, and **`LossIsFinal`**: for the
  action properties of `LossIsTerminal`. They hold for any number of sessions, files,
  lock acquisitions, hosts and replacements, with rivals or without. `FilesApart` says
  that no two sessions can come to the same file: what one of them may be opened with or
  replaced onto is no file of another. (So a failed record that `openSession` forgets
  for another session of its file, whose lock stays behind, is beyond the theorems.) Nothing in the code guarantees it, and it cannot be
  left out: `locks_shared` shows two sessions that lose a lock to one another without it.
  So the theorems say that every loss of that kind takes two sessions of one file; the
  run `registry` is the instance with one session. `LocksInv` says of each record by
  itself how its fields hang together (`Sound`: `Within`, `Locking`, `Hosting`,
  `Replacing`, `Ended`), of each acquisition in flight what it tells of its record
  (`Started`), and of each file why its lock directory is there (`Slot`: it is listed,
  being removed or just made) and who has it (`Watching`, `Held`). The two that carry the
  argument are `Replacing`, by which an acquired reservation is never the lock that the
  transition started from, so that aborting it does not unlock the primary; and `Slot`,
  by which a lock that is being removed is no longer listed, so that no unlock by path
  meets a later acquisition. A late compromise callback changes nothing
  (`LateIsStale`): the library lists another token by then, or the record's claim is gone.
  Most actions change one record and unlock some of its paths; `RecordStep` proves that
  case once, from what the record gives up and what it claims afterwards (`Yields`).

* **`BranchIsShown`**: `NavigationPresentation`'s `Spec => BranchShown`, for every set of
  plans and number of navigations and prompts, and **`BranchIsShownBeside`**, the same
  for the specification that `page_sync` checks. The four invariants and the action
  property in `BranchShown` speak of host and page only; what is between them decides.
  The invariant is stated over a host `h`, a wire `f` and a world `w` (page, flight,
  requests, log) as values, because a turn of the page runs several helpers. `Alone`
  bounds the escrow: it holds at most the branch that the host is on, because nothing
  runs, and no navigation starts, while it holds one. With it navigations can be numbered
  in the order in which they are dispatched, run, told and shown (`Numbered`,
  `OrderHost`, `OrderWire`, `OrderPage`), which is why no late conversion finds an older
  branch to install. `Told1` and `Told2` say that an outcome is told only after the page
  has shown all that it was told of before: the acknowledgement that lets the host go on
  is sent after the installation. `EscrowPage` and `EscrowWire` say that what a page of
  this host waits for is shown or in the escrow still; `Elsewhere` that a branch can
  leave the escrow unshown only if another page load acknowledged it, and then this page
  is dirty and has no stale baseline ahead. `Tally` counts: from the page's entries to
  the host's by the events on the wire. The helpers of the page are proved one by one,
  in the form `Stays` (the invariant holds of the new world, and what is shown is the
  same) or with what they install; each action is a short chain of them.

Two defects of the models came to light in these proofs, neither of them in the code.
`CASE` chooses any of the branches whose guards hold; where guards overlap, as those
of `Received`, `Reduce`, `Restore`, `ShowReplay` and `Routed` did, the value is
unspecified, though TLC takes the first. They are nested conditions now, in the order of
the code's early returns. And `NavigationPresentation` put no bound on the numbers in a
plan: `NavAssumption` does.

## 6. What is only model-checked, and what is left out

**Only model-checked.** All liveness (`PageRecovers`, `ComesBack`, `CyclesEnd`, `SentOrClosed`,
`CloseCompletes`, `RetryServed`, `EveryIntentSettles`, `NothingWaitsForever`, `BranchHeals`,
`EveryKeySettles`, `HistoryHeals`), which the prover does not handle under fairness;
the properties that rest on folds over sequences and so on induction over data (the
joined replay and with it `NoRollback`, `AgreedOrFenced` and `ExtensionUiExact`; the byte count of
`RetentionBounded`; Pi's queues, `SlotsAreTrue` and `QueueKept`; the transcripts,
`TranscriptFaithful` and `HistoryExact`; the candidates of an editor, `DraftsKept`); and, for
no better reason than that it is not written yet, the safety of `PanelInput`
(`KeysRunOnce`). The locks of
sessions that share files have no theorem beyond `FilesApart`: there the code fails.

**Abstractions of AuthoritySync**, with the reason for each:

* the panel plane is left out: its baselines never start following; its
  acknowledgements are in `PanelInput`;
* the compatibility path (`session.events`) is left out: transcript events are
  published on the sequenced plane only (`state-authority.mjs:3636-3642`);
* the failure notice and the "starting" status of a restart are one notice, both
  fence the page and nothing happens between them that the page could tell;
* the adoption of a successor by the registry is part of `CommitTransition`'s batch;
* a call and main's handling of it are one step, a superseded caller is answered
  "unavailable" at once, late responses of abandoned requests are dropped where
  they are abandoned, and a rejection and the `detach` that follows it are one step;
* a transport gap loses publications and pending answers; one that swallows a
  control message is the subject of `HostTransport`;
* payloads that the schema has and no host produces (`reset_required`,
  `baseline_required`) do not occur; nor does the branch for predecessors below one,
  since presentation sequences start at two, or the rejection of a stale
  generation, since one ordered page exists per generation;
* the history read (`Rehydrate`) is external and happens only when nothing is
  streamed and the page has the host's cursor: its races are in `HistoryHydration`.
  Until the first read the transcript is `stale`.

**Of the other modules.** `AuthorityAttachRetry`: one session, since the coordinator
keeps nothing across sessions; identifiers are never reused (`ids.ts`); `cancelAll` and
callbacks that throw are left out. `IpcSendQueue`: contents are numbers.
`SessionLocks`: compatibility routing without a lock (`noteSessionFile`,
`updateSessionFile`) is left out. `RuntimeLifecycle`: `deactivateSession` has no caller in
production code; the recovery of an editor's text is one step of an activation, its own
protocol is `EditorCustody`. `EditorCustody`: a text is a number; attachments, the consume
chain of local commands with its successors, planned respawns, the legacy submit path
(`_retainedIntents`) and the text the composer shows are left out.
`IntentAdmission`: editor sources, Shell Turns, extension commands and the close
handshake. `HostTransport`: payload validation and the typed wrappers around a request.
`PanelInput`: ANSI, sizes and panels without authority. `HistoryHydration`: the parsing
of a file into blocks. `NavigationPresentation`: the layout of the tree.

**Not modelled at all**: file and network I/O (settings, credentials, git, SQLite,
history parsing), presentation, schemas, and what the plan lists below.

## 7. Plan

Done: the authority path and its retry, the send queue, locks and lifecycle, the
transport with its refinement, admission, queue ownership, navigation, panel input,
history, the editor. Next, in this order:

1. The safety of `PanelInput` as a theorem.
2. Session search: the worker's generations, the catalog and pages of results. Shell
   Turns. Dialogs of extensions and their single resolution.
3. The quit fence; the retained record of intents and its pruning; the pure algorithms
   (tree flattening, ranking, splicing of diffs) against reference definitions.

## 8. Running

From this directory, for any run of `PROJECT.json` and any proofs module:

```
tlc -workers 2 -config PageSync.cfg MCPageSync.tla
tlapm AuthoritySyncProofs.tla
```
