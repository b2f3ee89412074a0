# TLA+ models of Kimi GUI

Kimi GUI is a desktop client (Vue in a Tauri shell) for the Kimi Code daemon. The
daemon keeps the sessions, runs the agent and executes tools; it is not part of this
repository. The client keeps a *copy* of what it shows, and nearly everything that is
hard about the program is keeping that copy right while REST answers, WebSocket
frames, timers and the user interleave. That is what is modelled here.

JavaScript runs one callback at a time, so an action of a model is one synchronous
stretch of code, from a callback's start, or from the line after an `await`, to the
next `await` or the end. Everything between two such stretches may interleave.

Paths below are relative to `src/web/src` unless they start with `src-tauri`.

## 1. Inventory

| Component | State | Operations | Modelled in |
|---|---|---|---|
| Coalesced runner, `lib/snapshotSync.ts` | `inFlight`, `queued` per key | `run`, `request`, the `finally` of a call | `CoalescedRunner` |
| Session synchronisation, `composables/useKimiWebClient.ts` | `lastSeqBySession`, `epochBySession`, `turnActiveBySession`, `sessionsRequiringSnapshot`, `sessionsRetryingStaleSnapshot`, `sessionsWithStaleCursor`, `wsSubscriptionOrder` | `syncSessionFromSnapshot`, `onResync`, `processEvent`, `retainWsSubscription`, `forgetSession`, `recoverStaleConnection` | `SessionSync` |
| Daemon socket, `api/daemon/ws.ts` | `subscriptions`, `pendingSubscriptions`, `connected`, `reconnectTimer`, terminal attachments | `connect`, `reconnect`, `subscribe`, `unsubscribe`, `onServerHello`, `trackCursor`, frames | `SessionSync` (sessions; not terminals) |
| Local turn starts, `composables/client/useWorkspaceState.ts` | `promptGenerationBySession`, `pendingLocalTurnStarts`, `afterLocalTurnsSettled` | `beginLocalTurn`, `settleLocalTurn`, `isLocalTurnSnapshotCurrent`, `afterLocalTurnStartsSettle` | `SessionSync`, `PromptQueue` |
| Prompt queue, same file | `queuedBySession`, `inFlightBySession`, `promptIdBySession`, `queueFlushFailures` | `sendPrompt`, `enqueue`, `flushQueueHead`, `steerPrompt`, `unqueue`, `reorderQueue`, `finishPromptLocal`, `handleSessionSnapshot`, `abortCurrentPrompt` | `PromptQueue` |
| Event batcher, `composables/client/eventBatcher.ts` | pending queue, frame and task handles | enqueue, slice, flush, discard, dispose, split, coalesce | `EventBatcher`, `OrderedFeed` |
| Reducer, `api/daemon/eventReducer.ts` | the client state | `reduceAppEvent` | seq and turn flag in `SessionSync`, messages in `AgentProjector`, tasks in `TaskPoller` |
| Projector, `api/daemon/agentEventProjector.ts` | message log, current and reusable message, stream lengths | `project`, `seedInFlight`, `reset` | `AgentProjector` (main agent), `TaskPoller` (task and subagent rows) |
| Task poller, `composables/client/useTaskPoller.ts`, `lib/taskMerge.ts` | task lists, poll timer, timer to stop, fetched outputs | poll, load, merge, watcher | `TaskPoller` (not outputs) |
| Terminals, `components/Terminal.vue`, `composables/useTerminal.ts`, `composables/codex/useLocalPty.ts` | xterms, `terminal`, `loading`, `currentId`, the bridge | mount, start, restart, switch, close, unmount, output, exit | `LocalTerminal` (local backend) |
| Side chat, models and providers, notifications, appearance, attachments, dialogs, auth gate, storage | small UI state | settings and view actions | no |
| Mappers, HTTP, server auth, `messagesToTurns`, Vue components, i18n | none, or the view's own | conversions, rendering | no: no control to check |
| `src-tauri/src/daemon.rs` | instance files, the child process | `connect_daemon`, `restart_daemon` | `DaemonLaunch` |
| `src-tauri/src/pty.rs` | session table | `pty_create`, `pty_write`, `pty_kill`, output and exit threads | `LocalTerminal` (not write, resize) |
| `src-tauri/src/runtime.rs`, `plugin_tui.rs`, `usage.rs`, tray, shortcut, badge | files of the user, platform handles | sequential commands | no |

How they interact. A user's prompt goes from the composer to `sendPrompt`, which sends
it by REST or queues it; its turn comes back as WebSocket frames, through the projector
and the batcher to the reducer (`processEvent`), which also fires what a turn's end
causes: draining one queued prompt, notifications, unread marks. Opening a session,
a `resync_required`, and returning to a silent socket fetch a REST snapshot instead,
which replaces the copy (but for older messages, which `lib/snapshotMessages.ts` keeps) and restarts the subscription at its watermark. Local turn
starts tell that path which snapshots are too old for what the user has just sent.

What is hard, and what would be correct:

* *Snapshot against events.* The answer to a snapshot request may be older or newer than
  what has been applied. In the end nothing may be missing or stale.
* *Snapshot against the user's prompts.* A snapshot the daemon took before it had the
  prompt must not wipe it; a snapshot that was skipped must be fetched again.
* *Resync.* Must be carried out whatever else happens, unless the request fails.
* *Subscription.* Broadcasts reach sessions that are not, or not yet, subscribed; frames
  in transit are lost with the connection; epochs change with the daemon.
* *Answers to prompts.* Accepted, refused or lost. A refused prompt goes back, a lost
  one must not be sent again; none may vanish or run twice.
* *Turn ends.* Learnt from up to four sources, perhaps twice, perhaps never; at most one
  drain each, and the session must not stay busy for good.
* *Batching.* Slices, frames and timers must not reorder, lose or strand events.
* *Streaming.* Deltas are lost, repeated, straddle a snapshot; steps are retried and interrupted.
  What is on the screen must be the daemon's text, in order and once, or a repair must be due.
* *Polls against events.* A list that was read earlier than it is written must not revive what has ended,
  and polling must not stop while something runs.
* *Shells.* Commands, answers and two event threads are unordered. No shell may be left without
  somebody to kill it, and no event of an earlier shell may reach a later one.
* *Daemons.* Attempts, timeouts and restarts of several apps on shared ports and records must not leave
  daemons behind.

`PROJECT.json` lists each hazard at its line with the property that covers it, or why none does.

## 2. Modules

### CoalescedRunner

`Request` is `request`; `Settle` is the `finally` block of a call, including the further
call a mark starts. `started`, `finished` and `needed` are history: which call serves the
last request. Nothing calls `run` but `request` and the `finally` block.

### SessionSync

One session, its socket, the snapshot machinery and the user's turn starts.

* *Daemon* (external): `log` holds the durable events of all epochs, `base` where each
  epoch began. `EmitEvent` sends to a subscriber, or to everybody when it is a
  `work_changed`, or replaces the frame by `resync_required` (buffer overflow). `ServeFrame`
  replays after a cursor, or asks for a resync when the epoch is gone. `AnswerSnapshot`
  is one atomic read. `Restart` opens an epoch.
* *Socket*: `link`, the frames in transit both ways, and `cursor` (an entry of
  `subscriptions`). `ServerHello`, `TrackCursor`, `Subscribe`, `Unsubscribe`,
  `ConnectionLost` and `ReconnectTimer` follow `ws.ts`.
* *Snapshots*: there are two requests at most, the runner's and the one `selectSession` makes past the
  runner. `SnapshotOfForgotten`, `DropStaleSnapshot`, `DeferSnapshot`, `ApplySnapshot`
  and `SnapshotFails` are the branches of `syncSessionFromSnapshot` after its `await`, in
  the order of the code. `Requested` and `Settled` are the runner's methods for one key.
* *Events*: `ReceiveEvent` is `trackCursor`, `reduceAppEvent` and the seq-gated turn end
  of `processEvent`. The batcher between them is left out: `EventBatcher` shows that it is a
  FIFO, and the code flushes it before a snapshot is examined.
* *Local turns*: `BeginTurn`, `PromptAnswered` with `SettleTurn`.
* `seen`, `fired`, `firedTwice`, `gaveUp` and `skipped` are history variables. `skipped` records
  that a connection was lost while the cursor it will resume from was ahead of the copy;
  it is the gap that the run `sync_gap` reports, and `Converged` excludes what follows from it.
  `late` says that the last event applied was older than the copy. The reducer sets the turn flag from such an event all the
  same (`eventReducer.ts:867` has no seq gate), so a `turn.started` that arrives after a newer snapshot lights a session that is idle,
  until the next turn event, snapshot or `work_changed`. `Converged` does not ask for the flag there; all else it asks.

### PromptQueue

One session's prompts. A submission is an element of `posts` with where it came from
(`send`, `flush`, `merged`, `steer`), the queued prompts and the typed one it carries, and its
fate at the daemon and at the client. `Enqueue`, `EnqueueAndFlush` and `SendNow` are the three
branches of `sendPrompt`; `Steer` is both branches of `steerPrompt`; `AnswerOk`, `AnswerLost`,
`RefusedSend`, `RefusedFlush`, `FlushExhausted` and `FlushForgotten` are what follows the
`await`. `Handle` is `processEvent` for the kinds of event that matter, `Overhear`
what an evicted session hears. `credit` counts the ends announced less the drains made.

The ends are four: a turn that ends (`ended`, or `handed` to the next parked prompt), a session that falls quiet, a parked prompt
that is dropped, and a prompt that a hook blocks (`DaemonBlocks`). The last two have no turn, and `processEvent` lets go of the
prompt only if its id is the one known (`FinishedHere`). A blocked prompt whose single event is handled before the answer to its
submission, or after Stop has deleted its id, is not recognized: it is in `missed`, the flag sticks, and `InFlightBacked` and
`InFlightEnds` say so (`BlockMissed`). A prompt that is parked and then blocked is announced as one that is dropped.

Snapshots: `Resync` is `onResync`; what the daemon then leaves out (`Omit`) only a snapshot makes up for. `MustApply` is
`mustApplySnapshot`: after a resync or an eviction a snapshot is applied though the client is past it (`Overtaken`). A drain by such a one is not
counted in `credit`: it can show the session before a turn that the client has already seen start. Other snapshots (a session re-opened, a
window that comes back) cost a disturbance. The two places that fetch one are modelled as one, and a request that fails is left to
`SessionSync`. An evicted client may be back at any time, since it overhears until it has a snapshot.
Stop is `AskStop` (which prompt), `ServeStop` (the daemon's part) and `StopMissed` (after the first `await`); each
costs a disturbance. As in the code, the id deleted after a miss is the one known by then, perhaps a newer
prompt's, and the second request stops whatever runs by then, perhaps a later turn.
A refused text of no entries and no attachments is never submitted, so a steer needs one.
In the code the budget of a queued prompt is three failures; the runs use two.

### OrderedFeed, EventBatcher

`OrderedFeed` is the promise: events are applied once each in the order of arrival, in
runs of any length, only a dropped session's may be left out, and what empties the backlog without applying it (`Close`, the
batcher's `dispose`) is the last thing that happens. `EventBatcher` has the
queue, the two timers, merging and slices, and implements it with
`backlog <- ` the numbers and sessions of the waiting events (property `AppliedInOrder`).
A merged group is kept as its events with a common `start`, so that the model can say
what merging must not lose. `Subsequences` is `Array.prototype.filter`, by the positions that stay, for `discard` here
and for the reducer's message lists in `AgentProjector`; `SelectSeq` is recursive, and nothing could be proved of it.

### AgentProjector

One session's main agent. *Daemon* (external): `journal`, the turn and its `steps`; durable
frames are `Journal`ed, deltas are volatile and carry their offset. A delta is one unit of text, named
by step and offset, so that the screen can be compared with the stream. A retried step counts as a
new one.

`TakeFrame` is `onRawAgentEvent`; each `Project...` action is one case of `_project` with the reducer's
handling of what it emits, because the batcher between them is a FIFO that is flushed before
snapshots. `log`, `current`, `reuse` and `len` are the projector's state, `shown` is
`messagesBySession`. `Align` is `alignDelta` with its three outcomes: `ProjectDelta` (append what is new),
`ProjectNothing`, `ProjectGap`. `ApplySnapshot` is the
tail of `syncSessionFromSnapshot` with `seedInFlight`: one message for the turn in flight, stream lengths from
the daemon.

`Merged` is `mergeSnapshotMessages`. A message made from events has an id of its own and the client's time; it stays
when that is before the time of the page's first message, which is the daemon's. So with the clocks apart, or with a page that begins at the
message's own step, the same step is on the screen twice (run `projector_merge`). The model lets every event-made message up to some step stay
(`kept`; the profile's `early` bounds the step, and 0 stands for clocks that agree); they are never written again, so only the steps are
kept. `ShownPrefix` and `AbandonedHidden` do not ask of such a step. The page is taken to reach back over all modelled steps: older pages that the user has
loaded stay too, and hold nothing of these.

History: `handled` (turn ends), and `lost`, `misaligned`, `repeated`, which say when a
property is not asked. These are windows in which the code is known to show less, or more, than the daemon sent:

* `misaligned`: a snapshot and the stream do not meet. A mandatory snapshot may be older than what was
  consumed (`useKimiWebClient.ts:1401-1530`); or frames older than the snapshot still arrive, and a late delta of
  offset 0 is then appended a second time after the seeded text (`agentEventProjector.ts:892`).
* `lost`: a delta is dropped and no later one of its step shows the gap.
* `repeated`: subscribing again replays durable frames; a repeated `turn.step.started` opens a second bubble, a
  repeated `retrying` strips again. A snapshot ends the window unless durable frames are then still in transit twice
  (`ComeAgain`). `BubbleOfOneStep` is not asked in it: a connection lost within the replay leaves the bubble of an
  older step open, and the deltas of the current step are appended to it. It takes two disturbances.

Also seen, outside the model or no property of it: a snapshot whose answer was read before a
`resync_required` takes the session out of `sessionsRequiringSnapshot` (`useKimiWebClient.ts:1502`); the
output lines of a running tool card are wiped by the next `messageUpdated`; a volatile delta that overtakes a
replay raises `lastSeq`.

### TaskPoller

Rows of background tasks, by task id (`rest`) and, for subagents, by agent id (`live`, `linked` when the
two are known to be one). `Reduce` is projector and reducer for the four task events, `ReadList` the daemon's answer,
`WriteRows` what a poll or a load does with it (`keepLiveSubagents`), `Watch` the watcher, run after every change.
The model shows some things as the code has them: a list older than `task.started` drops the new row
(`useTaskPoller.ts:176-193`); a late list may show a bash task as running once more. Outside the model:
`taskCompleted` sets `outputPreview` to undefined (`eventReducer.ts:766`), against the comment at
`agentEventProjector.ts:1433`; `loadTasksForSession` drops previews.

### LocalTerminal

The drawer, `useTerminal` with its local backend, `useLocalPty` and `pty.rs`. `call` is where the start in flight
waits (bridge, kill, create, answer); `kills` are the kill commands under way; `shells` and `table` the native side.
The shell's reader and waiter threads append to `events`, the listeners (`Hears`) filter by `currentId`.
Exempted, because the code goes wrong there: an exit heard before the answer with the shell's id is
dropped (`missed`; `useLocalPty.ts:31` says otherwise); a session changed while a start is in flight shows the shell of the
old directory (`crossed`; `useTerminal.ts:177`); a drawer unmounted during a start leaves its shell to nobody
(`useLocalPty.ts:114`; `NoOrphanShell` exempts that one shell, `ClosingEndsShells` in the run `terminal_orphan` does not); a session changed while
xterm loads makes two xterms, and everything is written twice (`Terminal.vue:86`).
`ensureBridge` keeps its promise also when it was rejected: after `BridgeFails` every later start of that drawer fails.
The waiter's removal of the table entry and its exit event are one step, in that order.

### DaemonLaunch

Several apps, each in one call of `connect_daemon` or `restart_daemon`; `daemons` are processes with port, record and
heartbeat. A deadline may pass at any time. `Latest` orders records by the raw heartbeat: one in milliseconds
outranks all others (`daemon.rs:197`), the pid never changes, and the restart ends in its timeout. A shutdown that is accepted while its answer is
lost fails the restart all the same (`ShutdownUnanswered`). An app makes one call at a time: two restarts at once are not modelled.
`Connect` may be tried again after a failure, though the app does so only when it is started anew. `untracked` marks an app that has
forgotten a daemon of its own: it settled on another's, or found no token.

### MC modules

`MCAgentProjector` holds the three profiles. `MCClientParts` puts `CoalescedRunner`, `EventBatcher` and `TaskPoller`, which share
nothing, into one run, and `MCSyncDesktop` does so with `SessionSync`, `LocalTerminal` and `DaemonLaunch`: the initial state chooses the part that moves.

### Proof modules

One for each component module: `CoalescedRunner_proofs`, `SessionSync_proofs`, `EventBatcher_proofs`,
`PromptQueue_proofs`, `AgentProjector_proofs`, `TaskPoller_proofs`, `LocalTerminal_proofs`, `DaemonLaunch_proofs` (section 5).

## 3. Runs

| Run | Shows | Bounds |
|---|---|---|
| `client_parts` | runner: calls never overlap, no request lost or invented, all served; batcher: FIFO refinement, lossless groups, nothing stranded; task rows: what runs is polled and settles, an end sticks | 2 keys, 4 calls each: a call with its mark, its follow-up, and one more round; 2 sessions, 3 events, 1 group a slice, groups of up to 3 characters; 2 tasks in 2 sessions, 2 lists in flight, 2 switches, 1 failure |
| `sync_desktop` | `Converged`; shells, daemons | 4 events, 2 epochs, no prompt, 2 disturbances; 3 starts, 2 chunks, 1 event in transit; 2 apps, 2 ports, 3 daemons |
| `sync_turns` | `Converged`, `OwnPromptsShown`, `ResyncHasDriver`, `ResyncCompletes` | 2 events, 2 epochs, 1 prompt, 2 disturbances |
| `sync_gap`, `sync_twice` | two comments of the code that do not hold | 3 events, 2 disturbances |
| `queue` | `Conserved`, `NeverRunsTwice`, `OneDrainPerEnd`, `InFlightBacked` | 2 prompts, 2 submissions, 2 disturbances |
| `queue_live` | `GivenUpAfterBudget`, `InFlightEnds` | 2 prompts, 3 submissions, 1 disturbance |
| `queue_race`, `queue_forgotten` | two more | 2 prompts, 2 submissions, 1 disturbance |
| `projector` | the two copies agree, text is shown in order, once and whole, retries leave nothing, turn ends are handled | three profiles: `Steady` (2 turns, 2 steps, 2 deltas), `Mixed` (a thinking and a text delta each), `Disturbed` (5 frames, 1 disturbance, a merge that may keep the first step's bubble) |
| `terminal_orphan`, `projector_merge` | two more | 1 start; the profile `Disturbed` |

*Disturbances* are the steps outside steady streaming (lost connection, overflow, restart,
re-open, eviction, archive, lost answer, another client's turn); each costs one of
`MaxFaults`. In the session runs two are enough for each pair to meet, which is where the interesting
histories are; three events give a start, an end and a broadcast around them, a fourth
one more after the disturbances; with a prompt, two events are its start and its end. For the projector,
two turns and two steps put a retry or an interrupt before another step and before another turn;
two deltas give one inside, one at the edge of a gap; frames may be two ahead, so a snapshot falls
between any two of them. Three starts of a terminal are a shell, its successor and one that crosses; three daemons are
one for each app and a restart. Larger bounds exceed the time of a run. All bounds are guards named in the modules.
`CHECK_DEADLOCK` is off: every model stops when its bounds are used up.

The disagreements found:

* **A gap after a broadcast** (`sync_gap`). `subscribe` enters the cursor at once, the daemon
  serves it later. A `work_changed` broadcast in between moves the tracked cursor past
  events that were never delivered. A connection lost before the replay resumes behind them.
* **A turn end twice** (`sync_twice`). A mandatory snapshot older than the local watermark moves the
  watermark back; the turn end replayed after it passes the `seq > prevSeq` gate again.
* **Two sends at once** (`queue_race`). Another turn's end clears the in-flight flag of a prompt whose
  POST is unanswered, and the next prompt goes out beside it.
* **A queue resurrected** (`queue_forgotten`). `restoreQueue` does not ask whether the session still
  exists, as `flushQueueHead` does.
* **A shell that outlives its drawer** (`terminal_orphan`). The comment on `dispose` says that it kills the process. A shell whose
  start is in flight is not known to it yet; the answer makes it current in a controller nobody uses any more.
* **The same step twice** (`projector_merge`). A snapshot is said to replace anything inside its window. The merge compares the client's
  time of a bubble with the daemon's of the page, and ids that never agree, so a bubble may stay beside its own message.

## 4. Assumptions

About the daemon, from how the client uses it: frames of a connection arrive in order
or not at all; a served subscription replays the durable events after its cursor, then
streams; a snapshot is one atomic read at `asOfSeq`, with the step in flight; deltas carry the seq of the last durable frame;
a task's end is announced after its start; a pty's waiter removes the table entry before it emits the exit; `work_changed` is broadcast; a parked
prompt starts in the same step as the previous turn ends; the daemon reports
`main_turn_active`. `PromptQueue` takes the feed to be exact and leaves its defects to `SessionSync`.

Fairness. `Network` (a frame is delivered, the timer fires, the handshake ends), the
answer to every request (`http.ts` times requests out, and a timeout is an answer), a
turn's end and the batcher's task. For the task poller: events arrive, lists are read and written, and the interval ticks;
`ReceiveEvent` and `Tick` are strongly fair only because the bound on requests in flight disables them
now and then. The projector, the terminal and the launch have no liveness property: nothing obliges the user, the agent or a shell. Not assumed: that the user does anything, that no
disturbance happens, that frames fire (`requestAnimationFrame` stops in a hidden tab), that a
further event comes.

## 5. Proofs

For every value of the constants, from the ASSUMEs of the modules only:

* `CoalescedRunner`: `TypeCorrect`, `CallsNeverOverlap`, `RequestsKept`, `NoSpuriousCall`. The
  three safety properties are not inductive: that a mark is *waiting* must be tied
  to what it stands for. `Marked` says that a key is marked exactly when the last request needs
  a call after the current one; `TypeOK /\ OneCallPerKey /\ Marked` is inductive, and each
  property follows from it.
* `SessionSync`: `PromptsNeverWiped` (`OwnPromptsShown`) and `ResyncDriven` (`ResyncHasDriver`).
  That a snapshot applied now holds every prompt follows from what was so when it was *requested*: `Harmless`
  says, of each request in flight, that unless `isLocalTurnSnapshotCurrent` will refuse it,
  every live prompt had been accepted before the daemon read the session; it needs that an open
  prompt is pending, that an accepted one is kept by the daemon, and that no request in flight
  carries the generation the next prompt will get. A lemma for each of the runner's two
  operations says that it keeps all requests harmless; then there is one lemma per action. For `ResyncDriven`
  the addition is that a session that is gone has no copy, so re-listing it owes no resync.
  `StateWellFormed` (`TypeOK`) and `CopyConverges` (`Converged`) come from `SyncInv`. `Converged` speaks of a quiet state only; the
  invariant says what is so on the way there. `Journal`: the epochs partition the daemon's log. `SnapshotsTrue`: an answer
  tells what was so at its watermark. `Wire`: a frame in transit is the log's and of the current epoch. `OnTrack`, the core: unless a snapshot is due or a gap was skipped, either the connection is
  down and the copy holds everything up to the cursor (`CursorHonest`), or a resync is in transit, or the last request on its way up
  asks for all that is missing (`AskingLast`), or copy and frames in transit together are all the daemon has (`Streaming`).
  The turn flag needs `WorkComesLast` (the last frame in transit is the last change of work, or a resync) and, where the last event of the log is
  a turn's, `FlagTrue`: a flag that is not `late` is what the log says at the cursor.
* `EventBatcher`: `NothingStranded`. A task per waiting event is not inductive, because
  `scheduleDrain` returns early if a frame *or* a task is set. `Scheduled` adds that a frame is never set
  without a task. The steps are cut along the code's helpers: a lemma for `drainSlice` and one
  for `scheduleDrain`, then one step per action.
  `StateWellFormed` (`TypeOK`) and `GroupsStayWhole` (`GroupsLossless`): `Good` says of any queue that it holds whole groups of
  events that arrived; arrival, the removal of leading groups and the removal of a session keep it.
  `BatcherIsOrdered` is the refinement `AppliedInOrder`: under the invariant each step is a step of
  `OrderedFeed` or a stutter. A slice takes a prefix of the backlog, `Discard` the subsequence of the other
  sessions, and a control event is an arrival with an application.

* `PromptQueue`: `PromptsConserved` (`Conserved`) and `RunOnce` (`NeverRunsTwice`). The invariant is about places:
  the queue, the submissions that were not refused and the prompts taken back are disjoint,
  and cover all prompts of a session not forgotten; a refused submission is refused by the daemon too.
  `Placed` says so of values given as arguments, because two steps of the code move prompts twice
  (enqueue and flush; give back and flush). There is one lemma per kind of move
  (`Requeued`, `Submitted`, `HeldOn`, `GivenBack`), and each step is one or two moves. Cardinalities come in only at the end.
  `WorkingBacked` (`InFlightBacked`): the flag alone says nothing of the daemon. The invariant has four parts. Announcements tell the
  truth (`LineInv`, `HeardInv`): from the client's turn flag through the events it has not handled one arrives at what runs now, the
  same of a snapshot with what was announced since, and an end that clears nothing never comes alone. The flag (`FlagInv`) goes with
  the newest submission that could raise it: it is unanswered, or its turn, its place in the line or its end is still to be heard of, or it was blocked and not
  recognized. Each step is cut into what the line says before and after (`LineStep`) and what the client makes of it (`Keeps`).
  `DrainsCredited` (`OneDrainPerEnd`): the credit is at least the number of ends still in the feed, and one more where an end that
  was missed is still shown as running (`DrainInv`); that what was announced since a snapshot is a suffix of the feed, unless it
  is overtaken, makes the count come out when it replaces the feed.
  `TypesCorrect` (`TypeOK`): references name submissions (`Formed`), and submissions are only added (`PostsGrow`).
* `AgentProjector`: `TypesHeld`, `TurnEndsHandled`, `LogShown`. `EndInv` adds that the durable frames in transit are in order
  and that none past `lastSeq` is missing unless a resync stands for it; `MessageInv` that the two copies agree
  and what the projector may refer to exists. One lemma per kind of frame.
  `OneStepPerBubble` (`BubbleOfOneStep`) and `NothingAbandonedShown` (`AbandonedHidden`) come from `TextInv`. What a bubble may
  hold depends on which frame the client heard last, so the invariant describes the journal (`JournalInv`: what frame `q` may be
  after frame `q - 1`), the way of its frames (`WireInv`: each comes after the one it was sent after, or after one the client has
  heard of; a delta lies between the durable frames it was sent between), that while `Steady` (neither `misaligned` nor `repeated`)
  the next durable frame is the one after the cursor (`SteadyInv`), and that a snapshot tells what the journal tells (`SnapshotInv`). Only
  then `BubbleInv`: the open bubble is the step's at the cursor, and a bubble waits to be refilled only between `retrying`
  and the frame after it; and `AbandonedInv`: of a step that may still be retried the text is in the open bubble alone.
  `StreamsInOrder` (`ShownPrefix`) and `FinishedStepsWhole` (`ShownComplete`) come from `ShownInv`, which adds to `TextInv` what is true where
  `Steady` is not: `FateInv` (a step is live only while the daemon is in it, and the journal tells how it ended; after that frame none
  is in the step), `DeltaInv` (the deltas in transit were sent, and are in their stream's order), `RenderedInv` (only what was streamed
  is shown, and the steps of the transcript are over), `AnswerInv` (what a snapshot holds stays true), `LinkInv` and `FollowInv` (not
  `misaligned`, the client misses no frame though some may come again; a delta in transit is not older than the cursor, and comes
  after all that is shown of its stream), `StreamInv` (a stream is shown in one bubble, whole up to some piece, and the counted length
  is that of the text in the open bubble of the step at the cursor) and `CompleteInv` (`Steady`, no repair asked for: what was
  sent is shown or in transit unless it was retried, is in the transcript or was lost). The messages that a merge keeps are written by
  nothing afterwards, and the two properties leave their steps out.
* `TaskPoller`: `RunningPolled` needs nothing more; `EndsStick` needs that of an agent's events the completion
  comes last (`EndComesLast`), and that a row that is done is not revived by `Folded`.
* `LocalTerminal`: `ShellsOwned`, `ExitsTrue`, `RunningTrue`, `DirectoryTrue`, from one invariant `TerminalInv`: the ids of the
  start in flight, the table and the display are fresh or known in the right places. One step per action, one lemma per conjunct that is disturbed.
  `ScreenTrue` (`OneShellOnScreen`) needs `ScreenInv` besides: each shell's chunks are in transit in order (`StreamsInOrder`), and the next
  chunk of the current shell is still to come or not yet read (`Continues`); an id is not current again once it was dropped.
* `DaemonLaunch`: `OneEach`, `NothingLeft`. `Minded` says of an app that is not `untracked` that all its living daemons are
  its `child`, and where in its call there is none; `Evolves` is what any step does to the daemons of others.

Only model-checked: liveness (`RequestsServed`, `ResyncCompletes`, `InFlightEnds`, `EverythingHandled`, `RunningSettles`), which is
beyond this prover. So is `GivenUpAfterBudget`, which speaks of the number of refusals of a prompt and would need a count along the submissions. Every invariant and every other action property that a passing run checks is stated by a theorem.

## 6. Plan

Done, in this order: `CoalescedRunner`, `SessionSync`, `PromptQueue`, `OrderedFeed` and
`EventBatcher`, `AgentProjector`, `LocalTerminal`, `TaskPoller` and `DaemonLaunch`, and the proofs above. What would come next:

1. `PromptQueue`: skill activation and goal mode's extra request.
2. `SideChat`: two sends at once (`removeLastSideChatUserMessage` takes the last one, whichever failed), two
   `/btw` at once (the second target hides the first), a chat closed while it streams.
3. The daemon's terminals (`attachTerminal`, replay) beside the local ones; `plugin_tui.rs`.

## 7. Not modelled

Message contents and rendering, settings, modes, attachments, usage and git sidecars:
they follow the session and decide nothing above. In the modelled components: the outputs of tasks and their
once-only fetch, the roster of subagents a snapshot brings, approvals and questions, goals and compaction (each event writes
one value it carries), the daemon's terminals, `pty_write` and `pty_resize`, the old lock file. The side chat: see the plan.

Most of the repository's lines are components that show state (`codex-app`, `components`,
`views`, settings pages), wire mappers and their types: a line of them is a template, a style or a field. The
models cover the lines that decide what is shown and sent, a small share of the whole.

Several sessions matter only to eviction (one disturbance), to the
batcher, the terminal and the task poller (two sessions there).
