# Mistral Vibe: models and proofs

Mistral Vibe is a coding agent. Its terminal, editor and programmatic surfaces
are clients of an *app server* (`src/vibe/app_server`), which owns the agent
loop (`src/vibe/core/agent_loop`), runs one turn at a time, turns core events
into a numbered public history and carries callbacks (approvals, questions) to
the client and answers back. Everything is one asyncio loop per process: two
pieces of code interleave at every `await` that may suspend, and a task can be
cancelled at any of them. That is where this project looks.

The surfaces, the session's files and the file checkpoints are as concurrent: the
terminal's handlers and its drain, a save and the process's end, the user's
editor and a review.

`docs/adr/0009-app-server-boundary.md`, `docs/adr/0011-unified-harness-backend.md`
and the docstrings of the code say what the parts promise. Where a run refutes
such a promise it is listed under [findings](#findings) with the sentence it
refutes.

Contents: [inventory](#inventory), [plan](#plan), [the turn
controller](#the-turn-controller), [the event stream](#the-event-stream),
[the agent loop](#the-agent-loop), [the message queue](#the-message-queue),
[the session log](#the-session-log), [checkpoints](#checkpoints),
[configuration](#configuration),
[runs](#runs), [proofs](#proofs), [findings](#findings), [what is not
modelled](#what-is-not-modelled), [how to run](#how-to-run).

## Inventory

Components that carry the program's own logic, the state each keeps, how they
are driven, and what makes each correct. "Hard" names the behaviour that tests
reach badly. Status and sources of every component, the ones left out too, are
in `PROJECT.json`.

| Component | State | Operations | Hard | Correct when |
| --- | --- | --- | --- | --- |
| Turn controller `_turns.py`, `_execution.py` | reserved operation, active turn, its task and projector, callback records | start, run, steer, interrupt, inject, answer, reject, finalize, reset, close | request tasks, the turn task, the loop scheduler, a disconnection and shutdown interleave at every `notify` | one turn at a time; a tool gets the answer the client was told was accepted; an ended turn leaves nothing open; a started turn ends |
| Request broker `_request_broker.py` | a future per approval or question | request, resolve, reject | tool tasks cancelled while they wait | every request gets one outcome |
| Server requests and lifetime `server.py`, `_handler.py`, `_dispatch.py` | connection state, request tasks, locks | initialize, dispatch, attach, detach, shut down | cancellation of any request at any await | detaching removes subscriptions and nothing else |
| Event stream `server.py`, `_legacy_session_backend.py` | watermarks, held-back notifications, one bounded queue and its lock, one subscription | notify, publish, subscribe, forward, redeliver | three routes to a client, back-pressure with a lock held, attachment while events are numbered | no event lost, repeated or reordered; a client that comes back gets all of it and the open callbacks |
| Transport and client `transport.py`, `client.py`, `connection.py`, `session.py`, `events.py` | bounded queues, pending requests, projection | send, read, pump, resync, reconnect, close | a reader and a pump that wait for each other | a gap is recovered; the projection never goes back |
| Public history `_projector.py`, `_projection.py`, `_session_history.py` | entries by ID, frozen entries | project, finalize, effects, notices | updates computed together and sent apart | completed entries are immutable; one effect spans its lifecycle |
| Session lifecycle and handoff `_root_session.py`, `_host.py`, `_runtime.py`, `_worktree_effects.py` | attached session, aliases of old IDs, root backend | start, resume, fork, clear, compact, rewind, delete, stop | failure after a partial start; handoff during a turn | identity, history and watermark change together; a failed start leaves nothing |
| Child sessions `_sessions.py` | child runtimes, links, their callbacks | ensure, read, answer, close | a child's callback answered through the root | a callback reaches the loop that asked |
| Manual shell `_shell.py` | operations, processes, interrupted IDs | run, interrupt, close | interrupt before the process is known, timeout racing the end | an operation ends once, with one outcome |
| Agent loop `agent_loop/_loop.py`, middleware, hooks, compaction | messages, stats, tool tasks | act, inject, compact, rewind | parallel tools, cancellation between a call and its result | every tool call has one result in the history |
| Session log `session_logger.py`, `session_loader.py` | messages file, metadata file | append, rewrite, patch a field, reset, resume | crash between the two files; a reset while a save waits | what is loaded is what was saved |
| Checkpoints and rewind `checkpoints/`, `rewind/manager.py` | log of turns, edits, decisions | record, seal, reconcile, decide, truncate, restore | partial restore; manual edits between turns | projections are closed under dependency |
| Configuration `config/` | layers with cached data, fingerprint and lock; the installed configuration | load, patch, reload, copy, rebuild, subscribe | overlapping patches and reloads; other writers; partial failure over layers; cancellations; copies of locks in use | patches that run to their end do not undo each other; what is installed is what the files hold |
| Message queue `message_queue.py` | queued items, their widgets, pause, drain task | enqueue, pop, pause, drain | enqueue and drain across awaits; a failing injection | every queued prompt is run or given back |
| Managed shell `tools/builtins/managed_shell` | shell process, command markers | run, interrupt, restart | a timeout followed by the late output | output belongs to its command |
| Voice, narration, ACP, setup, LLM backends, MCP, telemetry, worktrees, teleport, reasoning routers, the *Pay-to-Think* demos | | | | adapters, input and output, or pure scoring |

How they interact: a surface calls `AppServerSession`, whose `AppServerClient`
sends requests through a transport; `AppServer.serve_connection` makes one task
per request, which calls the backend (`LegacySessionBackend` over
`RequestHandler`) and so the turn controller. The turn controller runs
`AgentLoop.act`, projects its events and calls `AppServer._notify` for each
update, which numbers it and gives it to the backend's queue; a forwarder task
takes it from there back through `AppServer._route_notification` to the
transport, the client's reader, its pump and its projection. A tool that needs
an answer stores a future in the broker; the turn controller opens a callback
record, publishes it and waits; the answer comes back as a `callback/result`
request.

## Plan

Done, in the order of the system's weight:

| Modules | What |
| --- | --- |
| `TurnController`, `TurnLifecycle` (abstract), `TurnRefinement`, `TurnControllerProofs`, `TurnClosureProofs` | the heart of the server |
| `EventStream`, `EventStreamProofs` | from a numbered event to the client's projection |
| `AgentLoop`, `AgentLoopProofs` | what `act()` does inside a turn |
| `MessageQueue`, `MessageQueueProofs` | the terminal's queue and its drain |
| `SessionLog`, `SessionLogProofs` | the two files of a session, crash and resume |
| `Checkpoints` | edits, decisions and rewinds of files |
| `ConfigLayers`, `ConfigLayersProofs` | patches, reloads and copies of the layered configuration |
| `SequenceFacts` | lemmas on sequences that the proofs share |

`AgentLoop` is the detail of what `TurnController` lets happen in `act`
(`AskCore`, `ToolResult`, `ActCompletes`, `ActFails`, a thrown cancellation) in
any order; `SessionLog` is what its saves reach; `MessageQueue` is a client of
turns that begin and end by themselves. They meet at those interfaces and are
checked one by one: each has a state space of its own in the millions.

Left, in order:

1. Proofs: `Checkpoints`, first its types, which rest on what a replay returns.
2. `PublicHistory`: entries, effects and callbacks with injection outside a turn;
   composes with `TurnController` through the order of emitted updates.
3. `SessionHandoff`: root identity, lifecycle transition under one lock
   (`server.py:859`), fork, worktree roll-back; composes with the first two.
4. `JsonRpcClient`: request bookkeeping, abandoned requests (`client.py:130`),
   the client's own event queues (`session.py:736`).
5. Child sessions, manual shell (`_shell.py:142`) and managed shell, ledger.

## The turn controller

`TurnController` models one attached session: `TurnController` of `_turns.py`,
`SessionExecution`, the request tasks of the server that reach them, the loop
scheduler of `_legacy_session_runtime.py`, the futures of the broker, and the
two entries (callback, effect) each request has in public history.

*State.* Slots of the controller keep their names (`activeTurn` is
`_active_turn`, `activeTask` the turn whose task is in `_active_task`, and so
on). `pc[t]` is the await the task `_run_turn` of turn `t` is suspended in;
`task[h]` is request task `h` likewise. `core`, `asked` are the broker's tables;
`callbacks`, `resolution`, `future`, `coreResolved`, `lock` are the fields of
`CallbackRecord`. `sent` summarises what was handed to `notify`; `landed` is a
history variable for one finding.

*Actions.* One action is what a task does between two awaits: `_run_turn` is
`RunTurn`, `AnnounceTurn`, `EnterAct`; `_handle_core_request` with
`_open_callback` is `OpenCallback` to `ApprovalSaved`; `_finalize_turn` is
`ActCompletes` or `ActUnwound`, then `SettleTurn`, `GoIdle`, `CompleteTurn`,
`EndTurn`. `answer_callback` is four actions because it notifies twice before
it sets the record's future. What the agent loop does inside `act` is any of
`AskCore`, `ToolResult`, `ActCompletes`, `ActFails`, in any order the futures
allow. `Task.cancel()` is `CancelTask`: it is delivered where the task is
suspended (`"thrown"`); `deny and cancel the turn` makes the turn cancel itself
(`"self"`), which is delivered at its next suspension.

*Data left out.* Messages, tool names, answers' contents, streamed text,
statistics, notices. An answer is a token; `Saved` answers also write
configuration, `CancelTurn` cancels.

*Bounds.* A turn or request ID is used once, so the constants `Turns` and
`Requests` bound a behaviour; `Methods` selects what the environment does in a
run. Two turns are needed for every property that speaks of a predecessor's
task still sending `turn/completed`, two request tasks for two answers of one
callback. `turn_safety` has two turns, one request and two tasks with all
methods, and checks the refinement on them; tools that ask concurrently are in
`agent_safety`, and the theorem has any number of requests. Identities are
symmetric; the liveness run uses no symmetry.

*Fairness* (`FairSpec`, in `turn_liveness`). Weak fairness of the turn's and the
request tasks' own steps: asyncio runs every ready task. Nothing forces a tool
to ask or an exception to happen (`TurnMay`). Strong fairness of answering: the
client keeps answering a callback that stays open, although a request slot may
be taken again and again; without it a user who walks away leaves the turn
waiting, which is intended. Interrupts, disconnections and shutdown are off in
that run because the hazards listed below show they can leave the session busy.

`TurnLifecycle` is the promise to the tools: one turn inside the agent loop, no
turn twice, a request raised by the running turn gets at most one outcome and
has one when its turn stops. `TurnRefinement` maps it onto the turn controller.

## The event stream

`EventStream` models the path of one session's events. An event is its ID:
because the state of a session is a prefix of its events, a snapshot is its
watermark, and a history is correct when the IDs are. A callback has no ID and
is `0`. The tasks are the turn (which survives a disconnection), request tasks
that emit events (which a disconnection cancels), the forwarder with its
generator, the `session/resume` and `session/read` requests, the serving task's
clean-up and, on the other side, the client's reader and pump.

*State to code.* `lockq` is `_events_lock` (holder, then waiters in order, as
`asyncio.Lock` grants it); `queue`, `subscribed`, `projection` are `_events`,
`_events_subscribed`, `_projection` of the backend; `fpc`, `fitem`, `after` the
forwarder's control point, its item and the generator's cursor; `routing` is
`_attaching` and `_connection_attached`; `pending` is
`_pending_notifications`; `wire` the transport's queue to the client;
`incoming` the client's; `view` the ID of its projection. `next[s]` is what
source `s` emits after its current event without another task running in
between: the second update of a core event, or the callback after its entry.

*Actions.* `Begin` projects and numbers; `Publish`, `Put`, `SendDirect` are
`publish_notification`, `publish_callback` and the direct route when the backend
does not take the event; `TakeEvent` to `CloseStream` are the generator with its
`finally` clause; `ServeResume` to `Redeliver` are the attachment;
`Detach`, `Detached`, `CloseTransport` are `_detach_connection`. `Detach` is
careful about generators: one suspended in `get` or `yield` enters its `finally`
clause and queues for the lock, one never started does not run it, one already
waiting there is thrown out.

*Bounds.* `MaxEvents`, `MaxConnections`, `MaxInterrupts`, `MaxBatch`; the three
queue sizes (256 in the code) are parameters. Queues of one make every queue
fill within three events, which is what back-pressure is about; queues larger
than the number of events (in `stream_reattach`) keep back-pressure out of the
question of re-attachment. Three connections are needed for a subscription
leaked by the second to be refused to the third. `CHECK_DEADLOCK FALSE`: events
and connections run out.

*Fairness.* Weak fairness of every task that can go on, on both sides: each is
a coroutine the loop runs when its queue, lock or future is ready. A client that
has lost its connection makes a new one (`_pump_messages` does so at once).
Nothing forces new events, interrupts or departures.

*Left out.* A second session or a handoff on one connection, child sessions,
`flush_events` of requests (they only wait), shutdown, the contents of a
snapshot that is ahead of its watermark (the finding shows it is taken; what the
client's projection makes of the duplicate entry is not modelled), an update of an
entry that is not in the backend's snapshot (older than its page of 200 entries, or its
history is unknown), which `consume` cannot apply (`events.py:371`), so that the event
goes the direct route and the next one is a gap; messages of a
connection still unread when it closes (dropping them commutes).

## The agent loop

`AgentLoop` models one `AgentLoop` of `_loop.py` with the hooks mixin, the
permission store and the effect of compaction: the conversation, the turn, and a
task per tool call.

*State to code.* `messages` is `self.messages` without the system prompt; a
message is its role and the calls it makes or answers. `pc` is where `act()` is;
`call[c]` the tool and the place of the task of call `c`; `lockq` is
`PermissionStore.lock` (holder first) and `rules` its session rules; `reactive`,
`clear`, `stop` are `_reactive_recovery_used`, `_pending_clear_context` and
`user_cancelled`; `loose` says that `_tool_event_queue` is still set by a
generator that was dropped. The rest are history variables of the properties.

*Actions.* A turn starts by filling in missing results (`Filled` is
`_fill_missing_tool_responses`) and appending the prompt; `BeforeTurn` is the
middleware; `CallModel` is the moment the conversation is sent; an answer is
`AnswerText`, `AnswerCalls`, `ModelFails` or `ContextTooLong`; `AfterSave` and
`PostHooks` decide whether the turn goes on. A call goes through `PreTool`
(hooks may answer it), `Decide` (under the lock: allowed, denied, or the user is
asked), `Approve` or `Deny`, and ends by `ToolSucceeds`, `ToolFails` with
`FailureRecorded`. `Steer` appends a message at any await of a turn. An
interrupt finds the task inside the generator (`InterruptInside`: the calls are
cancelled and waited for, `TasksCancelled`) or finds the turn controller
handling an event of the batch (`InterruptOutside`: the generator is dropped and
closed later, `CloseDropped`).

*Properties.* `ContextWellFormed` is what providers require: every call has one
result in the run of results right behind its answer, and every result stands in
such a run. `EveryCallAnswered` is the weaker form that steering
leaves. `AskedOnce`, `AnsweredTurnIsAnswered`, `NothingRunsBetweenTurns`. Two
exclusions are part of them and deliberate: a message steered into a running
batch stands between calls and results (`mixed`), and a turn interrupted while
its controller handles an event leaves tools running (`abandoned`). In the first
case the next turn inserts a second result for a call whose own result comes
behind the steered message; in the second the results land after the turn, or in
the next one.

*Bounds.* `MaxTurns`, `MaxCalls`, `MaxBatch`, and `MaxExtras` for whatever makes
the turn longer: steered and injected messages, retries of hooks, compactions,
clearings, edited plans. Two turns are needed for what an interrupted turn leaves
to the next; two calls for concurrent asking. The run has one extra at a time.

*Also reached by the model, without a property:* a message steered while the
last save or the hooks are awaited ends the turn unanswered; one steered during
a compaction's summary is behind the summary's input and before it in the
conversation, so the model never sees it; `_pending_clear_context` set by a turn
that is then interrupted clears the next one; a call cancelled in its pre-tool
hooks, or in the hooks of its own failure, has no result until the next turn
fills one in; a turn that begins while a dropped generator is not closed fails
with "A tool batch is already active".

*Left out.* Files and skills a prompt mentions, thinking levels, streamed
chunks and statistics, reloading and switching agents, the second of two
interrupts. `MaxExtras` also stands for `_drain_pending_injections`. `AnswerCalls`
appends an answer and the results of its calls that cannot be resolved in one step;
the code appends those one by one, with an event before each (`_loop.py:2151`). A
message steered, or an interrupt, between two results is modelled for the calls that
run, not for these.

## The message queue

`MessageQueue` models `MessageQueue` and `QueueController` of
`textual_ui/message_queue.py` with the handlers of `VibeApp` around them.

*State to code.* `items`, `paused`, `widgets`, `header`, `enabled` are
`_items`, `_paused`, `_widgets`, `_header`, `_drain_enabled`; a widget is named
by its item. `drain` is the drain task: where it is suspended, the prompts it
has taken (`pending`), the item and widget in its hands. `enq` are the two tasks
that can be inside an `enqueue_*` (the message pump and the side channel),
`worker` the one of Ctrl+C. `agent`, `closing`, `bash`, `picker` are what
`_agent_job_active`, `_finalize_turn_ui`, `_bash_task` and `_input_app_ready`
say.

*Actions.* Between two awaits the drain is not interrupted (`DrainRuns`,
`LoopIsFree`). Entering is two or three actions because the header and the
widget are mounted across awaits; `Take` pops an item and the first widget,
`Flush`, `Gate`, `Inject`, `StartTail`, `RunBash`, `RunCommand` are what becomes
of it. Turns begin by the drain, by the user, by a command, or by the server
(`UnsolicitedTurn`), and end in two steps (`TurnStops`, `TurnClosed`) because
`_finalize_turn_ui` awaits before it starts the drain. Two jobs end without looking at
the queue: the task of `/compact` (`CompactEnds`; it is no turn, and its `finally`
clause only clears `_agent_task`) and a turn that was to be retried and is not
(`TurnNotRetried`, when `begin_retry` refuses). `overlooked` notes that such a job left
something in the queue with no drain, until something else looks.

*Properties.* `HandledOnce`: an accepted item is in exactly one place and leaves
it with exactly one outcome. `PromptsKeepOrder` over all requeueing.
`WaitingItemIsDrained`: a shell line or command does not wait in an unpaused queue
with nothing under way, unless a drain crashed or a job overlooked it. Without that
second exception the statement is `QueueDrainsWhenIdle`, which is the docstring's and
which `QueueIdle.cfg` refutes. `QueueLockstep.cfg` refutes the docstring's lockstep of
items and widgets.

*Bounds.* Items are entered once; `Typed` chooses which: two prompts (with
pictures) beside a shell line, and every other pair. Two prompts show
order and partial injection, a third item in front or behind makes the drain
cross kinds. One Ctrl+C worker at a time; the code lets several overlap
(`exclusive=False`).

*Also reached:* a prompt, unlike a line or command, does wait in an unpaused idle
queue when it is entered as the last turn closes, since `enqueue_prompt` does not
start the drain; a prompt dispatched while idle is shown and never sent when a
turn has begun meanwhile (`app.py:2302`, outcome `unsent`), or overtakes queued
ones; a queued prompt is refused with an error when the scheduler's turn begins
first; an injection that fails takes the drain's prompts with it (`lost`);
Escape does not hold back prompts the drain has already taken from a queue that
is then empty; `on_discard` awaits before the widget is popped, which by then may
be another's.

## The session log

`SessionLog` models the two files of each session: `messages.jsonl` (`log`) and
`meta.json` (`meta`: the count and the fingerprint of the last message), the
conversation in memory, and the tasks that save or patch.

*Actions.* `RequestSave` takes its snapshot before it waits for the lock;
`ReadMetadata`, `WriteMessages`, `ReplaceMetadata` are the steps of the worker
thread, `SaveReturns` gives the lock on. `PatchMetadata` is
`_persist_metadata_field`. `BoundaryUnchanged` decides whether a save appends or
rewrites. The conversation grows, is rewound, gets a missing tool result inserted
before its end, has its end replaced. Faults: `Crash` between or within the
writes (an append may leave some lines and a cut one), `WriteFails`, and
`CancelSave`, which lets go of the lock while the worker goes on. `Restart` and
`Rebind` load whatever is loadable.

*Properties.* `LogHoldsConversation`: without faults the log is what was saved;
with them, a readable log still holds it in order. `RewoundStaysGone`: what a
completed save took out never comes back. `MetadataMatchesLog`. They exclude two
cases named in `Plain`: a message put before an older one (the boundary check can
take the result for an append to what a failed save left) and a cancelled save.
`RewoundStaysGone` is not said either of a session that began with a message twice
(`repeated`).

*Bounds.* Three messages, two directories, a save and a patch at once, one fault.
`MaxPatches` bounds patches and `MaxPatches` bounds patches and cancellations, `MaxLines` what is resumed: a log of two
lines is the shortest with a boundary inside it, or with a line appended twice..

*Also reached:* after a crash between append and metadata the next saves append
the same lines again, once per resume; a cut line makes the session unloadable; a
first save that crashes leaves a session that cannot be resumed;
`_persist_metadata_field` looks for the file before it has the lock; an edit that
changes neither length nor the last message is not written. What `repeated` excludes
takes three failed saves: one leaves a log with a message twice, as in `1 2 1`; it is
loaded and `reset_session` takes it to a new directory; two appends there stop after
their first line and a third succeeds, so that the log is `1 1 1 2 1` with a count of 3;
loaded again and rewound to `1 1 1`, the conversation has the fingerprint in its
place, nothing is written, and 2 is back at the next load.
`reset_session` while a save waits lets that save mark the new session as
persisted (not modelled: `_persisted` only gates such patches).

## Checkpoints

`Checkpoints` models the log of turns, manual edits and decisions
(`checkpoints/`), its review (`review/manager.py`) and the rewinding of files
(`rewind/manager.py`), over a disk that tools and the user's editor change at any
time.

*Operators.* A file is `Absent` or a sequence of lines, each written once, so
that a difference is the lines in common and the gaps between them (`Regions`,
where the code uses a sequence matcher). `Replay`, `Applied`, `ComputeDeps`,
`RestorePlan`, `Decision`, `Drift` are the functions of `History` and
`Checkpointer` of the same meaning; `Splice` also notes which lines it replaced
beyond its own, and which it did not find.

*Actions.* `BeginTurn`, `AddSnapshot`, `SealTurn` are the recorder in a turn;
`ReviewState` and `Decide` the review, with the reconciliation that goes first and
all that can be decided together (`Targets`: any hunks of a file, an owner's, those of
the last turns, all); `Rewind` in place; rewinding into a fork, which saves the
conversation between restoring the files (`ForkRestores`) and cutting the log
(`ForkCuts`), while the user's editor goes on writing; `RewindFails`; `ResetMessages` and
`Rebind` what clears the log; `Steer` what makes a message one can rewind to without a
turn of its own.

*Properties.* `ProjectionIsDisk`: what the log says a file is, it is, but for what
changed since the log was brought up to date. `RewindIsExact`.
`SplicesFindTheirBase` and `KeptRestsOnKept` for decisions. `HandEditsSurvive`: a
decision takes away no line written by hand unless that edit is reverted itself.

*Bounds.* Two files, one of three lines and one that does not exist yet, two
changes of the disk among the kinds in `Splices0`, one decision, and one rare event: a
fault, a second file in a turn, steering, a reset, a fork, or another decision. Two
changes are the least for one hunk to depend on another and for a hand edit between
two turns; two decisions for what was kept to be reverted. Where a file has a line
twice the run goes no further, which `CheckpointTwice.cfg` shows to happen.

*Also reached:* replacing the lines around a deleted one does not depend on the
deletion, so reverting the deletion puts the line in the middle of what replaced
it; a file that cannot be read when the turn is sealed loses that turn's change to
a later manual edit; a failed write of a decision leaves the first files written;
rewinding to a steered message with `restore_files` restores nothing.

*Left out.* Binary files and encodings, the anchors and diffs the review shows.

## Configuration

`ConfigLayers` models `ConfigOrchestrator` with its builder and its file-backed
layers: the calls of `apply_patch` and `reload` that overlap, the copies made for
child sessions, previews and forks, the synchronous `rebuild` of an agent switch,
and whoever else writes the files.

*State to code.* `store` is the files, `cache` the `_state` of each layer of each
orchestrator (data and fingerprint; a fingerprint is the number of the write that
made the file), `config` is `_config`. `lock` holds the queue of each layer's
`asyncio.Lock` and of the builder's, `bound` the locks somebody has waited for:
`asyncio` binds a lock to its event loop at that moment. `task[t].part[l]` is the
child task that patches layer `l` for call `t`; `pos`, `seen`, `got` are the
place and the locals of `build`. `orphans` are writes whose task was cancelled
while its thread goes on. `writer`, `author`, `told`, `shaken` are history.

*Actions.* `BeginPatch` validates and makes a child task per layer; `StartPart`
takes the fingerprint and queues; `ApplyPart`, `WritePart`, `PartSaved` are
`_handle_apply_patch` around its thread; `LayersSettled` is `gather` returning,
whatever became of them. `StartBuild`, `StartRead`, `LayerRead`, `Installed` are
the forced build; `ReadConflict` is the reader's second look at the file.
Reading and writing are steps of threads, so edits and other orchestrators come
in between. `CancelTask` is a request that goes away with its connection.

*Properties.* `OwnWritesSurvive`: what a patch put into a file is changed by no other
patch of this orchestrator that does not name it, although each replaces the file by
what its layer has cached. Both are patches that were not cancelled. The thread of a
cancelled one writes without the lock over whatever it finds, and what it had written
before its layer took it over is overwritten by the next patch, as the layer does not
know of it: `CancelTask` hands its fields to `"orphan"`. `MutationsAreSerial` is the
same promise for that thread, and `ConfigOrphan.cfg` refutes it. `CopyIsMade` and
`CopyLocksAreFree` say what `copy()` promises; `config_copy` and `ConfigCopyHeld.cfg`
refute one each. `ConfigIsCurrent`: when no call is under way, the configuration is the
merge of the layers, and a layer the orchestrator wrote last is cached as it is.
It excludes what follows a failed read or a cancellation until a build that began
later is through (`shaken`): both are left to the next reload by the code.

*Bounds.* Two layers, two fields of which one names what the other defines, so
that a merge of both files can be rejected; three patches: a value, its removal,
and one over two layers. Two calls, one copy, two events of any kind; edits
change the defining field. Two overlapping calls already give every order in which
a patch meets another's write, build or failure. `Strategies` is `{"cancel"}`, as
no caller asks for `REPLACE`.

*Also reached:* `set_tool_permission` ignores the failures `set_field` returns
(`_loop.py:935`), so a permission that was not saved is reported as saved; a
write that went on after its cancellation, or a child's, is overwritten by the
next patch (`ConfigConflict.cfg`).

*Left out.* Trust, the layers held in memory (overrides, agent profile,
discovered and enforced settings), merge strategies other than priority,
migration, list indices of `upsert_field`.

## Runs

| Run | Distinct states | What it asks |
| --- | --- | --- |
| `turn_safety` | 175 000 | With starts by client and scheduler, interrupts, answers, rejections, resets, disconnection and shutdown: `OneActiveTurn`, `CoreGetsAcceptedAnswer`, `EndedTurnIsClosed`, `IdleIsAnnounced`, `CompletedTurnWasAnswered`, `ResolutionIsFinal`, and that the controller implements `TurnLifecycle`. |
| `turn_liveness` | 52 000 | `StartedTurnEnds`: a started turn ends and frees the session. `AskedIsSettled`: a tool that asked gets an outcome. |
| `stream_safety` | 477 000 | `NothingLost`: what is between the client's projection and the watermark is on its way, once and in order. `OpenCallbackIsOnItsWay`. `ViewNeverGoesBack`. Over three connections and an interrupt. |
| `stream_pressure` | 3 400 | With queues of one and a client that reads, `CatchesUp`: back-pressure alone never blocks for good. |
| `stream_reattach` | 71 000 | `CatchesUp` and `CallbackArrives` when the client goes away at any moment and attaches again. |
| `agent_safety` | 1.6 million | The model is always sent a well-formed conversation; the user is asked in order; turns end answered and leave nothing running. |
| `queue_safety` | 1.2 million | Items are handled once, in order, and wait for nothing only where a drain crashed or a job overlooked them. |
| `session_safety` | 1.9 million | What was saved can be resumed and what was rewound stays gone, over one fault at any step. |
| `checkpoint_safety` | 0.25 million | The log's projection is the disk, rewinds are exact, one decision or two respect dependence and hand edits. |
| `config_safety` | 0.7 million | Overlapping patches that are not cancelled do not undo each other, and the last build saw everything. |
| `session_overlap`, `config_copy` | | Each refutes one documented claim; see *Findings*. |

`NothingLost` speaks of behaviours in which nothing numbered was dropped
(`lost = {}`); events are dropped only by a cancellation of their publisher or
forwarder, and the set is emptied by a new snapshot, so the property covers
every re-attachment. Deadlock is not checked where the bounds make the system
stop, and each configuration says so. Symmetry is used in the safety runs only.

## Proofs

The theorems are not bounded: they hold for any sets of turns, requests, items,
sessions, savers, layers and calls, and for any numbers where the runs need limits.

| Module | Theorem | States |
| --- | --- | --- |
| `TurnControllerProofs` | `TypeCorrect` | `Spec => []TypeOK` |
| | `OneTurnAtATime` | `Spec => []OneActiveTurn` |
| | `AnswersAreTrue` | `Spec => []CoreGetsAcceptedAnswer` |
| | `ResolutionsAreFinal` | `Spec => ResolutionIsFinal` |
| | `TurnsImplementLifecycle` | `Spec => ImplementsLifecycle` |
| `TurnClosureProofs` | `EndedTurnsAreClosed` | `Spec => []EndedTurnIsClosed` |
| | `IdleSessionsShowIdle` | `Spec => []IdleIsAnnounced` |
| | `CompletedTurnsWereAnswered` | `Spec => []CompletedTurnWasAnswered` |
| `EventStreamProofs` | `TypeCorrect` | `Spec => []TypeOK` |
| | `EventsAreNotLost` | `Spec => []NothingLost` |
| | `OpenCallbacksArrive` | `Spec => []OpenCallbackIsOnItsWay` |
| | `ViewGoesForward` | `Spec => ViewNeverGoesBack` |
| `AgentLoopProofs` | `AskingIsOrdered` | `Spec => []AskedOnce` |
| | `NoToolWithoutTurn` | `Spec => []NothingRunsBetweenTurns` |
| | `TypeCorrect` | `Spec => []TypeOK` |
| | `ContextIsWellFormed` | `Spec => []ContextWellFormed` |
| | `CallsAreAnswered` | `Spec => []EveryCallAnswered` |
| | `TurnsEndWithAnAnswer` | `Spec => []AnsweredTurnIsAnswered` |
| `MessageQueueProofs` | `TypeCorrect` | `Spec => []TypeOK` |
| | `ItemsAreHandledOnce` | `Spec => []HandledOnce` |
| | `QueuedPromptsKeepTheirOrder` | `Spec => []PromptsKeepOrder` |
| | `WaitingItemsAreDrained` | `Spec => []WaitingItemIsDrained` |
| `SessionLogProofs` | `TypeCorrect` | `Spec => []TypeOK` |
| | `MetadataCountsTheLog` | `Spec => []MetadataMatchesLog` |
| | `LogsHoldTheConversation` | `Spec => []LogHoldsConversation` |
| | `WhatIsRewoundStaysGone` | `Spec => []RewoundStaysGone` |
| `ConfigLayersProofs` | `TypeCorrect` | `Spec => []TypeOK` |
| | `ConfigurationIsCurrent` | `Spec => []ConfigIsCurrent` |
| | `PatchesDoNotUndoEachOther` | `Spec => OwnWritesSurvive` |

What is assumed of the constants is named where they are declared, and every run
evaluates it. `TokenAssumption` (turn controller), `QueueAssumption` and
`ConfigAssumption` say that identities are distinct from each other and from the
marks used beside them, that a patch names layers and fields there are, that the
stack lists each layer once, and that the two strategies are those of
`ConflictStrategy` (`types.py`). `AgentAssumption` says that the bounds are
numbers. `SizeAssumption` (event stream) says that the tasks that publish are
finitely many and other than the turn's, and that the queues and bounds are numbers;
`LogAssumption` that the mark for "no file" is not a session, a saver or the contents
of a metadata file.

**Turn controller.** The inductive invariant is `IInv == TypeOK /\ Scheduling /\
Holding /\ Answering`. `OneActiveTurn` alone is not inductive: `Begin` is
guarded by the execution slot and the previous task, so the argument needs who
holds them. `Scheduling` says so: the task under way is the one in
`_active_task`; a reserved or running turn holds the execution unless shutdown
gave it back; a reserved turn exists only after the previous task ended; a
lifecycle operation holds the execution. `Holding` says what a suspended task
relies on: an answering request holds the lock of a record without resolution, a
turn past `acting` has a current request. `Answering` follows an answer from the
resolution to the future to the core: each holds only what the one before it
holds, which needs `Holding` to know that a resolution is not replaced in
between. Each part is proved preserved action by action, with lemmas for the
groups of actions that leave it alone.

The refinement needs one more invariant, `Pending`: a request is pending only
while its turn is in the agent loop, and of the registered callbacks only the
turn's current one is pending, so that rejecting all callbacks at once
(`_cancel_callbacks`) is one `Settle` of the abstract specification and not
several.

`TurnClosureProofs` adds what history shows. A turn's entries are closed by one
call at its end, so the question is what can touch them before and after:
`Projecting` (the projector in place is the turn's own until it goes idle),
`Owning` (a request belongs to the turn that asked it, and an open callback blocks
its effect), `Closing` (what finalization closed stays closed), `Showing` (an
answer is shown before it reaches the future, and the future before the core) and
`Recorded` (a turn recorded as completed was answered). The interesting steps are
a late answer to a turn that was left, which finds no open entry, and a turn cancelled
between an answer and its future. `IdleIsAnnounced` needs none of them: whoever
sends `running` or `blocked` has just looked for an active turn.

**Event stream.** The inductive invariant is `IInv == Framed /\ Budget /\ Numbered
/\ Locked /\ Connected /\ Awaited /\ Stream /\ Unbroken /\ Coming`. `NothingLost` says
that what is between the client's projection and the watermark is on its way, and
nothing of how it stays so when an event goes from one queue to the next. `Chain`
(in `Stream`) says it part by part: the client's queue, the transport, what the
forwarder or the attachment has in hand, the backend's queue and those that wait for
its lock each *carry* the numbers from where the part before ends to where the part
behind begins (`Carries`); what is not newer than the projection may stand anywhere
in it, as a snapshot overtakes what was on its way. A step moves an element over one
boundary or drops a part: `CarriesNext`, `CarriesFirst`, `CarriesRises` and
`ChainStep` say what that does to the chain. The rest is what each step needs to know: `Locked` that the lock is
waited for in the order of the numbers, which is why events put in the queue one by
one are in order; `Connected` and `Awaited` that an attachment answers once, before
anything of its stream, and that no snapshot on its way is older than the projection;
`Budget` and `Numbered` that no number is ahead of the watermark. `Coming` is the
same for callbacks, which have no number: an open one that is published is known, in
the pipeline, or delivered again by the attachment under way. It needs `Unbroken`:
from the entry that opened the callback on no number is missing among those that wait
for the lock, so none of them breaks the stream with the callback in it.

**Agent loop.** `IInv == Calling /\ Locking /\ Batching`. `AskedOnce` is not
inductive because it does not say why only one call is asked about: `Locking`
does. The calls that wait for the lock or for the user are exactly those in its
queue, each once; the user is asked for the call at the head, about a tool
without a rule; and what the user approved for the session is a rule. That order
is kept by the lemmas on a queue that is appended to (`AppendKeepsOrder`) or left
by its head (`TailKeepsOrder`), and emptied by cancellation (`Cancels`).
`Calling` says that an identity of a call is new when an answer uses it, so no
task is overwritten. `Batching` is the second theorem with the place `act()` is
at. `IInv` was checked with TLC on the bounds of `agent_safety` before it was
proved.

**Conversation.** The second part of `AgentLoopProofs` adds `CInv == Sound /\ Asked /\ Finishing`
over the messages. The properties speak of the moment the model is called; between
two calls the conversation is not well-formed, and `CInv` says how it is not.
`Sound`: everywhere outside a running batch each answer is served (`Served`: its
results stand behind it, and right behind it unless something was steered in), and
at any time the conversation is tidy (`Tidy`: no result stands behind an answer that
is not its own, none twice, none alone). After an interrupt it is tidy and not
served; that is what `_fill_missing_tool_responses` is for at the next turn.
`Asked` (`LastAsk`): during a batch it is the last answer that waits, exactly the
running calls have no result, and if nothing was cancelled the others have theirs,
so that the end of a batch serves it. `Finishing` says what the last message is on
the way to the end of a turn. The heart of the proof is `Filled`: `FilledIs` says
where in the new conversation each message and each added result stands,
`FilledStands` which results then stand right behind an answer, and `FilledFacts`
that the result is tidy and serves every answer. It needs no well-formed
input, only one that is tidy: a conversation with any number of interrupted turns is
repaired. `SpeakingKeeps` and `RecordKeeps` do the same for a message and for a
result that are appended, and `SentFacts` for the part of the conversation after the last
summary, which is what the model gets.

**Message queue.** `IInv == TypeOK /\ Shape /\ Lined /\ Placed /\ Started`. The
proof follows the *line*: the prompts in the drain's hands, then what is in the
queue. A prompt that is taken, and prompts given back by a pause or by the image
gate, leave the line as it is; everything else takes something out of it or puts
something at its end. So `Lined` (the line holds each item once, in the order of
entering, behind everything that was said) is kept by three lemmas: `LinedThins`,
`LinedJoins` and `LinedSaid`. `Placed` is the partition of the accepted items into
the line, the one the drain runs and those being entered. `Shape` says what the drain can have in its hands at each of its
awaits. `Started` strengthens `WaitingItemIsDrained`: a handler that is entering
counts only if it will start the drain itself, that is, for a command or a
resumption; a queued shell line relies on the job that made it wait. `Overlooks` is why
the theorem has its exception: `OverlooksKeeps` is the one lemma in which a job ends and
no drain is started.

**Session log.** `IInv == Typed /\ Working /\ Locked /\ Counted /\ Holding /\ Gone`. That a
save may append instead of rewriting is decided from two facts of the metadata, a
count and one message, and neither property says why they suffice. `Counted` does, as
long as nothing failed: the log is what was written last, and it is `Elder` than the
conversation. A message that stands in both stands no later in the log, and where it
stands in the same place everything before it is the same. Every edit of the
conversation keeps that (`ElderEdited`, `ElderRewound`), because a message is only
added, replaced or preceded by another at the end, or cut off with all behind it; and
it makes the check of the boundary an exact one: the fingerprint in its place means
that the whole log is a prefix. Between a save's two writes the metadata is behind,
so `Counted` speaks of what the save holds instead. `Locked` says that unless a
save was cancelled the worker is alone and what it read is still there, with
`RemoveFirst` for the lock's queue; `Working` that a save has the conversation
as it is. `Holding` is the weaker promise that outlasts faults: a log without a
cut line contains, in order, what was written, and as much of the conversation as the
metadata counts when the boundary fits; so an append to what a failed save left keeps
it, and may repeat messages (`session_overlap`). `ThinnedIsFound` turns
containment, which the proof handles as a map between places (`Thinned`), into the
search from the left by which `IsSubsequence` is defined. `Gone` is why what was
taken out stays away although such a log has messages twice, in any order. For each
session there is a conversation `x` that its metadata stands for, with that many
messages and that last one; of all that was ever saved there (`Taken`) the log, and
the conversation at hand, have only what is in `x`, and nothing of `x` was taken out.
What could go wrong is that the boundary fits although part of `x` is missing from the
conversation, so that `x` is replaced by less and what is missing is still in the log.
`Ends` excludes it: a sequence that has the last message of `x`, no earlier than `x`
has it, has all of `x` before it. `Traced` says the same of the conversation and
the log message by message, which is what an append needs to keep it (`TracedGrows`)
and what makes `Ends` true again when a save makes the conversation the next `x`
(`TracedEnds`).

**Configuration.** `IInv == Typed /\ Queues /\ Calls /\ Own /\ Kept /\ Builds`.
`Queues` gives each lock to the head of its queue and to nobody else, also through
cancellations and copies that have a held lock for good. With it, `Own` follows a
file from the thread that wrote it to the layer that caches it: a layer whose file
its orchestrator wrote last has it cached, or the one call that wrote it is about
to. `Kept` says the same field by field, with the fields a patch does not name
taken from the cache: that is why patches that are not cancelled do not undo each other
although each writes the whole file (`WhoWrites` says that a file is changed by a patch,
by the thread of a cancelled one or by somebody else, and by nothing more). `Builds` says that a build has read what is cached, or that another
one will come, and that an orchestrator at rest has installed what is cached.

**Sequences.** `SequenceFacts` has what these proofs use of queues: who joins, who
leaves from the middle (`RemoveFirst`), what two sequences in a row hold, and
`Thinned`, the relation of a sequence to one it was made from by leaving elements
out. `CountUp` and `Iterates` are what may be said without induction of a definition
that counts up: that there is a function which does. `Flattened` says what `FlattenSeq` computes: where each of the joined sequences
begins and what stands there. The prover has no induction; where one is needed it is
the least element of a set of numbers (`NatMin`, and `UpTo` for what holds of all
numbers up to a bound).

Every inductive invariant was checked by TLC, on the bounds of the component's run,
before it was proved. Seven things changed in the models on the way: `Names` was
separated from `ItemsOf` so that `HandledOnce` also says that no prompt is twice in
the drain's hands; a lock is left by `RemoveFirst`, of which more can be
proved than of a filter; `Results` picks the calls in their order by rank
(`NthCall`), because nothing can be proved of the library's sorting; the assumptions of `ConfigLayers`
name what had been taken for granted, as do those of `EventStream` and `SessionLog`; the
filters of `EventStream` are a function (`Without`) and its pipeline is made of maps, as
nothing can be proved of the library's `SelectSeq`; and `RewoundStaysGone` has the
condition `~repeated`, because the attempt to prove it without led to the behaviour
described under the session log, which the run's single fault cannot reach.

Only model-checked:

- Liveness (`StartedTurnEnds`, `AskedIsSettled`, `CatchesUp`, `CallbackArrives`), which
  is out of the prover's reach.
- `Checkpoints`: its operators replay a log over files by recursive functions, and what
  those compute for every log needs induction over data (`ProjectionIsDisk`,
  `RewindIsExact`, `SplicesFindTheirBase`, `KeptRestsOnKept`, and `TypeOK`, which rests
  on what a replay returns; so also `HandEditsSurvive`).

## Findings

Each is a run that TLC refutes, with the shortest behaviour in its trace.

| Run | What happens | What it refutes |
| --- | --- | --- |
| `session_overlap` | A save is cancelled; its worker writes on without the lock; the next save does not see its count and appends the same messages again. | `session_logger.py:59`: "Serializes writes so concurrent saves cannot interleave appends" |
| `config_copy` | Two calls meet at a layer's lock, which binds it to the event loop; from then on `copy()` raises when it deep-copies the layers. | `orchestrator.py:90`: "Return an independent in-memory copy of this orchestrator." |

Fifteen more configurations are kept beside the runs. Each checks one documented
claim and ends in a counterexample; they are run by hand.

| Configuration | Property | What happens |
| --- | --- | --- |
| `TurnDetach.cfg` | `ReservationHasOwner` | A connection lost before the response of `turn/start` is written: the execution stays reserved and nothing will start the turn. ADR 0009:370 says detachment "only removes that connection's subscriptions and callback claims". |
| `TurnSteer.cfg` | `SteerStaysInItsTurn` | A steer accepted for a turn that ends while the message is saved is projected into the next turn. ADR 0009:206 says stale steers fail "instead of affecting a new turn". |
| `TurnFrozen.cfg` | `CompletedEntryIsImmutable` | An answer racing finalization sends `running` for an effect after the update that completed it. ADR 0009:255: "A completed entry is immutable." |
| `StreamDetach.cfg` | `PublisherGoesOn` | A client that leaves while the backend's queue is full leaves the publisher waiting in `put` with the lock that a new subscription needs (with 256 events in the code, fewer here). ADR 0011:64. |
| `StreamLeak.cfg` | `SubscriptionHasReader` | A disconnection right after `subscribe`, or during the generator's `finally`, leaves the only subscription taken; every later resume is refused. ADR 0009:364. |
| `StreamSnapshot.cfg` | `SnapshotMatchesWatermark` | A snapshot taken between two updates of one core event contains the second, whose event is numbered later. ADR 0011:55. |
| `CheckpointStuck.cfg` | `OpenTurnIsRunning` | A file that cannot be read when a turn begins leaves the turn open in the checkpointer: `create_checkpoint` is outside the `try` that seals it (`_loop.py:1326`), and every later turn fails (`checkpointer.py:78`). |
| `QueueLockstep.cfg` | `PromptHasWidget` | A prompt is popped by the drain while `enqueue_prompt` awaits the mounting of the header: it has no widget yet and is dropped without a message. `message_queue.py:186`: "keeps the parallel list of pending widgets in lockstep with it". |
| `CheckpointTwice.cfg` | `NoLineTwice` | A deletion is reverted, the decision is dropped by a rewind to a later turn (the file stays), the lines are taken for a manual edit, and reverting the deletion again inserts them a second time. `history.py:531`: "Closure guarantees every splice lands on its exact base". |
| `ConfigConflict.cfg` | `ConflictIsNoticed` | A file is edited after it was loaded; a patch compares its fingerprint with the cached one (`layer.py:239`), not with the file, and replaces the file. `types.py:22`: "Raised when a backing store is modified externally during an optimistic config operation". |
| `ConfigOrphan.cfg` | `MutationsAreSerial` | A patch is cancelled while its thread writes, which frees the lock; another patch of the same orchestrator writes a field; the thread replaces the file with the field's old value. `layer.py:162`: "Serialize all state mutations through a single lock." |
| `ConfigCopyHeld.cfg` | `CopyLocksAreFree` | A copy is made while a call holds a layer's lock: the copy has that lock held, and nobody who releases it, so its patches of that layer wait for ever. The test `test_orchestrator_deepcopies_and_stays_functional`. |
| `QueueIdle.cfg` | `QueueDrainsWhenIdle` | A shell line or command is queued while `/compact` runs; the task ends without starting the drain (`app.py:3975`), and the item waits in an unpaused, idle queue. `message_queue.py:552`: "The main queue drains when idle". |
| `ConfigTold.cfg` | `AppliedChangeIsTold` | A patch begun before another's reload undoes its value, finds nothing different from when it began, and publishes no event: subscribers keep the other's value. `types.py:47`: "Emitted after a successfully applied change." |
| `ConfigFrozen.cfg` | `NeverFrozen` | An agent is switched while a task holds a layer's lock: `rebuild` blocks the event loop until a thread gets that lock, which the blocked loop cannot release. `utils/concurrency.py:15`: "handling nested event loops". |

The models also reach the states below; those of the newer modules are in their
sections under *also reached*.

- A connection lost while an answer is projected: the entry says answered, the
  future is unset, later answers fail on the entry and the turn waits
  (`CancelRequests` on a request in `AnswerEffect`).
- An interrupt between `start()` and `start_turn()` is accepted and cancels
  nothing; one before the `try` block, or a second one in finalization, ends the
  task without `turn/completed` (`Interrupt`, `DieBeforeTry`).
- An interrupt of a publisher waiting in `put` leaves a gap in the backend's
  stream, and the gap ends the connection (`Interrupt`, `TakeEvent`, `Detach`).
- `session/read` after a gap is awaited by the task that drains the queue in
  front of its response (`Consume`, `Receive`).
- Closing a transport with a full unread queue waits for ever, holding the
  connection lock (`CloseTransport`).

## What is not modelled

Message contents, text streaming and formatting. The stdio transport and the
serialisation of messages. Network, models, MCP, git and shell processes, the
bodies of tools. `inject()` outside a turn (`_turns.py:337`), the status events
other than idle (`_turns.py:678`), the five-second limit of cancelling tasks
(`_execution.py:28`). The composition of the agent loop with the turn controller
and of the log with the loop: their interfaces are the same actions, their product
is beyond TLC. Components that the plan has not reached are listed above and in
`PROJECT.json`. The voice, setup and ACP surfaces, the reasoning routers and the
demos are adapters, screens or pure arithmetic and come last if at all.

## How to run

    tlasany EventStream.tla
    tlc -workers 2 -config TurnSafety.cfg MCTurnController.tla
    tlc -workers 2 -config StreamSafety.cfg EventStream.tla
    tlc -workers 2 -config AgentSafety.cfg MCAgentLoop.tla
    tlc -workers 2 -config QueueSafety.cfg MCMessageQueue.tla
    tlc -workers 2 -config QueueIdle.cfg MCMessageQueue.tla
    tlc -workers 2 -config SessionSafety.cfg MCSessionLog.tla
    tlc -workers 2 -config CheckpointSafety.cfg MCCheckpoints.tla
    tlc -workers 2 -config ConfigSafety.cfg MCConfigLayers.tla
    tlc -workers 2 -config ConfigOrphan.cfg MCConfigLayers.tla
    tlapm TurnControllerProofs.tla
    tlapm TurnClosureProofs.tla
    tlapm AgentLoopProofs.tla
    tlapm EventStreamProofs.tla
    tlapm SessionLogProofs.tla
    tlapm SequenceFacts.tla
    tlapm MessageQueueProofs.tla
    tlapm ConfigLayersProofs.tla

Operators with a comment "Mutant" are plausible bugs of the definition after
them. They are used by no run as they stand; put in place of that definition,
each makes the property named beside it in `PROJECT.json` fail.
