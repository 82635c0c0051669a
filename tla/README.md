# TLA+ models of the leti-ai server

leti-ai is a headless coding-agent server: an HTTP API (`crates/leti-server`)
over a runtime (`crates/leti-core`), with SQLite, a broadcast bus and provider
clients behind ports (`crates/leti-adapters`), plugins
(`crates/leti-plugin-*`) and a terminal client (`tui/`).  This directory holds
TLA+ models of the parts of it where several actors share state, TLC
configurations for small instances, and TLAPS proofs.

## 1. The system

### Parts, state, operations

| Part | State | Operations | What is hard | What makes it correct |
|---|---|---|---|---|
| Turn slot (`turn_slot.rs`, `app_state.rs`, `routes/message.rs`, `routes/cancel.rs`, `routes/session.rs`) | `active_turns[sid]`, `pending_turns[sid]`, `TurnHandle` (token, `cancel_emitted`, `exited`), `sessions.status` | claim, mark running, commit, drop, enqueue or start, drive, drain, final status, abort, cancel_session, DELETE, boot sweep | prompts, injected turns, finalizers, cancellers and DELETE on one key; awaits between the release of the slot and the status write; process death | one driver per session, nothing queued is lost or run twice, one Cancelling event, FIFO, a session at rest does not read running |
| Background delivery (`injected_turn.rs`, outbox part of `sqlite/memory_store.rs`, reconciler in `main.rs`) | outbox rows with leases, reminder reservations, heartbeats | append, claim own, reconcile, renew, acknowledge, release | lease expiry against slow queues, late answers of attempts that lost their lease, store errors, crashes | delivered is final and heard, one reminder, one beating attempt, eventual delivery |
| Subagent tasks (`runtime/subagent/*`, `subagent_spawner.rs`, `subagent_driver.rs`, `tools/builtins/subagent_*`) | live map, quota counters, ownership word, terminal cache, `subagent_executions` rows, parked callers | admit, persist, seed, run, patch, settle, finalize, background, cancel, interrupt, await, continue | background route against settlement, lost wake-ups, error paths that must all give the slot back, dropped handlers, restarts | quota exact, one channel for the outcome, one Settled frame, the row agrees, callers return |
| Sibling messages (`tools/builtins/send_message.rs`, inbox part of the registry, driver and store) | roster, in-memory inbox, durable inbox rows | resolve, store, push, recover, re-arm, seed, acknowledge, unlist | a push between the re-arm decision and the end; memory and store both feeding the transcript | acknowledged means seeded, read once, accepted messages are read |
| Event bus and SSE (`bus/mod.rs`, `sqlite/event_repo.rs`, `routes/event.rs`) | id counter, `events` table, broadcast ring, client cursors | publish, subscribe, replay, lag | the seam between replay and live frames, ids against broadcast order, overflow | no durable event is skipped by a client that follows its cursor, none is repeated |
| Permission manager and questions (`config_perm/*`, `permission_repo.rs`, `question_registry.rs`, `dispatcher/execute.rs`) | pending asks, rules, stored decisions, question slots | check, reply, cancel_ask, accept_ask, hydrate; register, resolve, cancel | a reply against a cancel, remove-then-restore windows, restart | one decision per ask, nobody is left waiting, a denial stays a denial |
| Tool scheduler and dispatcher (`tools/scheduler.rs`, `tools/dispatcher/*`) | two semaphores, keyed read/write locks | acquire, run, release, cancel | lock creation races, lock order, permits held while waiting | exclusion per key, no deadlock, limits |
| Turn loop (`runtime/turn_loop*.rs`, `processor.rs`, `retry.rs`, `doom_guard.rs`, `compaction.rs`) | transcript, step counter, guard windows | step, stream, retry, compact, stop | cancellation and faults at each await, a compaction that stops half-way | every tool call of a turn that goes on gets a result, the loop makes progress, the doom guard is exact |
| Projection, prompt, reminders | none (functions of the transcript) | project, prepare | pairs of calls and results, cut points, reminders that a compaction swallowed | calls paired with results, nothing lost by compaction, reminders exact |
| Store (`sqlite/memory_store.rs`) | tables | CRUD, compare-and-swap | transactions against crashes | as used above |
| Model turn (`runtime/conversation.rs`, `chat_hooks.rs`, `retry.rs`, `turn_stream.rs`, `processor.rs`, `openai/*`, `openrouter/*`) | attempt and sleep counters, decoder task, channel, accumulator, streaming parts, `session_costs` | hooks, build and POST, retry, decode, accumulate, store, bill | the network cuts the bytes anywhere; cancel, idle timeouts, a full channel; two cost writers | stored is what was said, live is what is stored, billed once, retries bounded, the turn ends |
| Hooks and plugins (`dispatch.rs`, `dispatch/runner.rs`, `leti-plugin-api`, `leti-plugin-registry`) | sorted chains | register, install, dispatch | order over plugins, panics and timeouts as denials | what is sent is what the last hook of the chain agreed to |
| Workspace: file tools, shell, Python, file system (`tools/builtins/*`, `read_history.rs`, `localfs/*`, `emushell/*`, `pyexec/*`) | the directory, read history, observations, one interpreter per call | read, write, edit, list, glob, grep, bash, python, delta reminder | other writers, restarts, cancel and timeout at any poll of a script | nothing unknown is replaced, a script does what its syntax says, an abort is clean and reported |
| Web fetch, routes, auth, TUI | see `PROJECT.json` | | sequential or I/O | |

### How the parts interact

A prompt claims the turn slot of its session and hands it to a task that runs
the turn loop.  The loop calls tools through the dispatcher, which asks the
permission manager and the scheduler.  The subagent tool admits a task in the
registry and spawns a driver, which runs a turn loop of its own on a child
session.  A foreground caller parks on the task; the background route moves the
outcome to the outbox.  A settlement in the outbox becomes an *injected* turn of
the parent session: it goes through the same slot as a prompt, or waits in
`pending_turns`, its lease kept alive by a heartbeat.  Siblings write to each
other's inbox, which a driver drains between two runs of its loop.  Everything
publishes on the event bus, and clients follow it over SSE.

## 2. Modules

| Module | Models | Extended by |
|---|---|---|
| `TurnSlot` | one session's slot, queue, driving tasks, cancellers, DELETE, boot sweep | `MCTurnSlot`, `TurnSlotProofs` |
| `DeliveryOutbox` | outbox rows, leases, workers, heartbeats, attempts, reconciler | `MCDeliveryOutbox`, `DeliveryOutboxProofs` |
| `Settlement` | what the outbox promises (abstract); `DeliveryOutbox` refines it | instance in `DeliveryOutbox` |
| `SubagentTask` | the tasks of one root session from admission to finalize, and their foreground callers | `MCSubagentTask`, `SubagentTaskProofs` |
| `SubagentInbox` | sibling messages | `MCSubagentInbox`, `SubagentInboxProofs` |
| `EventStream` | the bus, the durable log, the SSE handler and its client | `MCEventStream`, `EventStreamProofs` |
| `Prompts` | permission asks and questions: the calls that wait, the requests that answer, cancel | `MCPrompts`, `PromptsProofs` |
| `ToolScheduler` | the waves of a batch of tool calls, permits, keyed locks, nested turns, cancellation | `MCToolScheduler`, `ToolSchedulerProofs` |
| `Projection` | operators: transcript to request, reminders, compaction, doom guard | `TurnLoop` |
| `TurnLoop` | the turn loop of one session, its compactions, its ways in, settlements that write to its transcript | `MCTurnLoop`, `TurnLoopProofs` |
| `PluginHooks` | operators: registration, `install_all`, chain order, what a hook may answer | `ProviderWire` |
| `ProviderWire` | operators: request body and headers, HTTP errors, SSE parser, chunk decoder | `ReplyProcessor` |
| `ReplyProcessor` | operators: the accumulator of one reply, its cost, and what a reply means | `ModelStream` |
| `ModelStream` | `run_turn` with its hooks, retries, stream and cost; the decoder task; the upstream | `MCModelStream` |
| `WorkspaceFs` | operators: the `Filesystem` trait over a directory | `ShellText` |
| `ShellText` | operators: the builtins of the emulated shell that only read | `EmuShell` |
| `EmuShell` | operators: parser lowering, evaluator, builtins that write, the Python guest | `Workspace` |
| `Workspace` | the tools of one session on its directory, other writers, restarts, the delta reminder | `MCWorkspace` |
| `TurnSlotProofs`, `DeliveryOutboxProofs`, `SubagentTaskProofs`, `SubagentInboxProofs`, `EventStreamProofs`, `PromptsProofs`, `ToolSchedulerProofs`, `TurnLoopProofs` | theorems about the module each is named after | |

Conventions.

* A DashMap `entry()` section, a mutex section without an await, a
  compare-and-swap and a SQLite transaction are single steps.  An await is a
  boundary between steps, and so is a point between two critical sections where
  another thread can look.
* Every map is keyed by session, task or message, and operations touch one key:
  `TurnSlot` describes one session, `SubagentTask` one root session.
* Variables under "Observation only" record history for the properties; no
  action reads them.
* An operator marked "Wrong on purpose" is a variant of the action below it with
  a plausible mistake in it.  No specification uses it; it documents which
  mistake each property excludes.
* Failure is explicit: a store error, a panic, a dropped handler future or a
  process death is an action of its own, bounded by `MaxFaults` or
  `MaxRestarts` (both kinds together by `MaxFaults` in `Workspace`).

### TurnSlot

`slot` is `active_turns[sid]` and `pending` is `pending_turns[sid]`.  A member
of `Turn` is a request and, at the same time, the identity of its `TurnHandle`
(the code compares handles by `Arc::ptr_eq`).  `phase[t]` says how far the turn
is: `claimed` and `marked` are the awaits of `prompt_async` under a `SlotGuard`;
`queued`, `reclaimed`, `starting` belong to injected turns; `running`,
`resolved`, `released`, `saved`, `exited` are the points of `spawn_driven_turn`:
driver running, final status computed, slot drained, status written, next turn
started and waiters notified.  `next[t]` is the queued turn for which a
finalizer has claimed the slot again.  `DriverResolves` fixes the final status
from the token as it is at that moment, and `WriteFinalStatus` stores it later,
as in the code.  What a turn does while it runs is left open; `TurnLoop` says it.

DELETE cancels the turn that holds the slot and leaves `pending_turns` alone, so that
a turn queued behind it then runs, uncancelled, on the deleted session; this is what
the model does too.

### DeliveryOutbox

A delivery attempt is identified by its lease id.  Ids are fresh UUIDs in the
code; in the model an id may be taken again once neither a row nor an attempt
refers to it, so a finite set serves any number of attempts.  A lease carries
what is left of it in ticks; `Tick` cannot overtake a due heartbeat
(the runtime polls its timers).  `RenewFails` is the store error that ends the
heartbeat loop while the turn goes on, the one way to two attempts at a
settlement.

An enqueued attempt may never be driven: `SlotGuard::drop` (`turn_slot.rs:42-46`) frees
the slot and leaves the queue alone, and the attempt's heartbeat then renews its lease
for ever, so that the reconciler leaves the row to it.  `Drive` therefore has no
fairness, and `EventuallyDelivered` says that a recorded settlement is delivered or an
attempt at it waits in the queue from some point on (`Waiting`).

### SubagentTask

`task[t]` is the `TaskHandle` with the program counter of the spawner or driver
working on it; `delivery` is the ownership word, changed only by
compare-and-swap.  The foreground call is split at the points where it can race:
look up, `notified().enable()`, check under the status lock, sleep, wake.  A
continuation (`Continuation`) differs in three ways: nobody may be waiting, its
HTTP handler can be dropped, and its fallback does not settle.

### SubagentInbox

The sender's three steps (resolve, store, push) interleave with the driver's
recovery, re-arm decision, seeding and end.  A message that is pushed between the
re-arm decision and finalize is accepted and stays unread until the next run of the
task, if there is one; `InboxDrains` states that window as its exception.  A seeding
can fail after the rows were acknowledged (the transcript is read again to start the next
run); the rows then stay delivered.

### EventStream

`log` is the `events` table, `counter` the value inside the `next_event_id`
mutex and `lock` its holder; a publish stops at each await inside the lock, where
it can fail or its future can be dropped.  `chan[c]` is what the ring still holds
for a subscriber; a full one loses its oldest frame and the client is told
`Lagged` before anything else.  The handler subscribes, checks the cursor against
the window, fixes the tip, reads pages, and only then follows the channel.  The
client is that of `tui/src/api/sse.ts`: it keeps the id of the last frame it saw
and reconnects with it after an error or a `lagged` frame.  Session filter and
global stream differ in `Filter[c]` only.  A frame can reach a client twice on two
connections: one that reconnects with the id of a row whose broadcast is still to
come gets an empty replay, hence no high-water mark, and then that frame.
`InOrder` is therefore stated per connection.

### Prompts

`pending` is the map of asks in `ConfigPermissionMgr` and `deferred[c]` the
one-shot channel on which `run_one` waits; `slot`, `question` and `answer` are the
same for `ask_user` and `QuestionRegistry`.  `Check` is the whole of `check`: the
subagent's scope, the plugin hook, the ruleset, the mode, and the wrapper of
injected and detached turns with the prompt policy of the tool (`Wrapped`).  What a
hook and the mode say is a free choice.  A reply is split where it awaits:
`accept_ask` takes the ask out (`AcceptTake`), stores the decision, and only then
installs the rule and sends, or puts the ask back.  A request can be dropped at any
of these points, and the channel then reads deny.

Three things the properties state as exceptions.  A reply that comes before the call
took its channel is accepted, and the call, finding no ask, counts as denied
(`early`).  A call that is cancelled while an always reply holds its ask waits for
that reply; when the store then fails the ask is back in the map and the call no
longer listens to the cancel (`returned`), although the comment in `execute.rs`
at the race says a cancelled call is not parked for ever.  A question
that a misrouted answer holds while its call ends is put back and stays (`stray`).

In the instance both calls are interactive; the other manners of `Wrapped` end in
allow or deny at once.  `hydrate` and `record_always` have no caller in the server:
always answers last until the process ends, and there is no restart in the model.

### ToolScheduler

`dispatch_batch` cuts the calls of an assistant message into waves (`Wave`) by
comparing their claims as they are spelled; the scheduler then compares resolved
keys, across turns.  A call takes a permit of its turn, its locks in the order of
their keys, and a global permit, in this order (`pc`).  `table` is the map of weak
references to lock objects; a lock object is named by the call that made it, and
`lock()` is split between look-up and insertion, where another turn can insert its
own.  `ahead[c]` is the FIFO order of tokio's semaphores and locks: it holds the
calls that came earlier for the same thing.  A subagent call keeps its permits while
its child turn runs its own batch.

`NoDeadlock` is an invariant that says what may be true when no step is enabled.  No
step of a batch can repeat for ever (every one moves a program counter or a cursor
forward), so it amounts to termination, of cancelled turns too.

The exceptions in the properties are real.  Two tasks in `lock()` at once can make
two lock objects for a key (`raced`).  `scheduling_key` canonicalises only what
exists, so that a new file under two spellings has two keys (`Misspelt`).  Subagent
calls that hold all global permits leave none for their children (`Starved`); only a
cancel ends this.

### TurnLoop and Projection

`log` is the transcript: a sequence of messages that only grows, each with its parts.
`loop` holds the locals of `run_loop`, `run_turn` and `run_compaction`; its `pc` names
the point between two writes, and `todo` the parts still to be written to the message
at hand, one step (`Write`) each.  A fault can come at every such point.  The
settlement of a background task writes its reminder at any moment, the slot
notwithstanding.  `seen` is the prefix of the log that `input.messages` was made of.

`Projection` holds the functions of the transcript: which messages a summary stands
for (`Owner`), what each message becomes in a request (`Project`), which reminders
hold (`Active`), are stored (`WithReminders`) and shown (`ShownReminders`), what a
compaction keeps, supersedes and shows the summarizer (`SummaryView`), which lines come
after the request for the summary (`AfterRequest`), and what the doom guard
remembers and concludes.

Free choices: whether the window is full, what hooks say, which calls the allowlist
refuses, which calls succeed.  A call's id is made of its message and place (providers
give unique ids).  Of the reminder producers, the two that read the transcript are
modelled (recovery after a compaction, failed calls), and the settlement.  Reasoning
parts, step markers, costs and the back-off between retries are left out.

The exceptions in `RequestPaired` are real:

* a loop that ends between a message with calls and the message with their results
  leaves the calls unanswered (`stopped`), and nothing repairs them later.  The doom
  guard is such an end: results of tools that ran are dropped;
* a result whose call a summary stands for is still projected, although
  `docs/testing-conventions.md` (164-165) wants an orphan result dropped;
* the reminder of a settlement may be stored between a call and its result;
* `build_compaction_projection` puts the request for the summary before the last `keep`
  lines by count (`compaction.rs:150-160`), so it can come between a call and its
  result (`Parted`).  It parts the calls of one message at most.

Two more observations.  Text of a failed compaction attempt that was already flushed
is projected, although `docs/architecture.md` (152-154) says it is suppressed.  And
`build_compaction_projection` keeps the first system message only: a summary is the
only one there is (`HistoryKept` relies on it), because no caller in the server uses
the injected origin that stores a system clause.

### ModelStream and its operators

The turn is at one of `pc`'s points: the four hook chains, `open` and `post` (body and
headers of an attempt), `sending` (the POST is out), `error_body`, `backoff`, `stream`,
`done`.  Two tasks run in `stream`: the decoder, which reads pieces of the reply's
bytes (`rest`), parses, decodes and puts deltas into `chan`; and the turn, which takes
them, runs `Processor::step` and then makes the writes of that delta one by one
(`todo`), any of which the store may refuse.  A reply is a list of frames, each with
its line ends, possibly folded over two `data:` lines; the upstream writes it
(`Bytes`), the network cuts it after any token, and it may stop anywhere.
`ReplyProcessor` also says what the reply *means* (`Said...`), read off the frames
directly, and `ReplyKept` compares the two.

Free choices: what a hook answers, the status of an answer, when the upstream
breaks off or stalls, the jitter.  The text of messages, the JSON syntax and the events
`PluginError` and `Error` are abstract.  Elapsed time counts only for `slept`.

What the properties state as exceptions, or the model shows besides:

* `retry.rs` (3-4, 17-19, 67-69) says 4xx answers bubble up at once; `map_http_error`
  (`transport.rs:231`) turns every one but 401, 403 and 429 into a `Network` error, which
  is retried.  `RetryBounded` names it: 400, the one such status of the model, is the
  member of `TakenForNetwork`.  A body over the
  family's size cap is a `Network` error too, and is retried although it cannot succeed.
* The wait for the answer to a POST has no limit of its own, and `read_capped_body` is
  neither limited nor cancelled: `TurnEnds` excepts them (`Unlimited`).
* Nothing limits how long an upstream may go on sending.  `Fillers` are what it may
  repeat for ever (`Repeats`): a heartbeat, and a chunk without content.  Endless chunks
  keep the turn alive.  Endless heartbeats do not, for the turn has a timeout of its
  own; but each starts the decoder's idle timeout anew and is skipped without a send
  (`stream.rs:43-50`, 77), so the decoder never sees that the receiver is gone.
  `TurnEnds` excepts both (`Floods`), and each only where it is needed.  Fillers come
  before the reply or after it.
* A call that is opened twice at one index, with the same name and before it has
  arguments, is accepted and the second opening replaces the first
  (`processor.rs:140-150`, against "Decode" in its doc, 8-9).  `WellFormed` and `SaidCall`
  say so; a reply of the instance does it, and two others open a call again under
  another name or too late, and are refused.
* While it waits for room in the channel the decoder looks at neither the token nor its
  idle timeout; the drop of the receiver is what frees it.
* A stream that closes without a finish reason ends the turn as `EndTurn`: text heard
  live stays an empty part, and a tail that does not decode is swallowed.
* A denied params or messages hook returns before `publish_error` and leaves an empty
  assistant message.  A finish and a later usage chunk store two step-finish parts.
* The openrouter enrichment comes after the size check.  Text after a finish
  would overwrite the finished part; only usage follows a finish in the replies of the
  instance, as in the protocol.
* A turn that ends after DELETE evicted the session's cost makes the entry again.

### Workspace and its operators

A path is a sequence of names, a text a sequence of lines of words, so that words can be
paths again (`xargs rm`).  `EmuShell` evaluates a script to its result in one step.  It
can, because the run learns of its clock and its token only where it polls them: `when`
is the number of the poll that finds the run cancelled, and the one that finds it late,
and a run for every such pair is every run there is.  `LowerScript` is `parse.rs` from
the syntax tree on; the tree-sitter parser is external.  `Meaning` reads the tree
directly, and `ScriptMeaning` compares the two.  The write and edit tools have two
steps, the look at the file and the write; other programs act between them.

What the model shows besides:

* A statement the lowering does not know (`[ ]`, `!`, a subshell) vanishes, and its
  guard with it: `[ -f y ] || rm y` removes the file.  A redirect around anything but a
  command (a pipeline, a list, a loop) lowers to an empty command of status 0
  (`parse.rs:135-146`); whether `a | b > f` has that tree is up to the grammar, which is
  external.  An `elif` followed by another clause is lost, against the comment in
  `lower_if` ("Model elif as a nested if in the else branch"), and so is a substitution
  in double quotes.  `Kept` names these, and `ScriptMeaning` is stated for the scripts
  without them; the instance has scripts with each (`tests`, `whole`, `elifs`).
* `$?` is always empty, although the comment in `env.rs` says the status surfaces there.
* A command around a substitution that was cut short still runs, once, with the part of
  the text there is (`halved`); a cancelled `rm a b > c` still writes `c`.
* A cancel that only the last `rm` or `python` of a script notices is reported as that
  command's exit status.
* `mkdir -p` onto a file reports success.
* A write of the session's own makes the delta reminder name the file; the write tool
  makes no observation, so a later change by others to a file the session only wrote is
  not told (`free` in `ReplacedKnown`).
* The read tool shows a slice: from an offset, at most so many lines and bytes, long
  lines cut (`Shown`).  It records the path all the same, with an offset past the end too
  (`read.rs:133`), so that after a partial read the session may replace text it was
  never shown: `opened` in `ReplacedKnown`.
* A failure to record the observation is ignored (`read.rs:153`); what others do to the
  file later is then not told (`unmarked`, part of `free`).
* The walk of grep stops at `GREP_MAX_FILES` and at `GREP_MAX_TOTAL_BYTES`, and passes
  over files that are too large, without saying so (`walk.rs:106-111`, 124).  `PageExact`
  compares a page with all matches (`Matches`), and `Stopped` is its exception.  The walk
  order is the directory's (path order in the model).

Left out of the shell: several flags in one word, `-5` for `-n 5`, byte counts and
character ranges, `cut` delimiters other than a space, regular expressions.

## 3. Runs

| Run | Bounds | Shows |
|---|---|---|
| `turn_slot` | 3 turns, 1 canceller, DELETE that may time out | `TypeOK`, `OneDriver`, and `SlotExact` (queue, hand-over, FIFO, one Cancelling event) |
| `turn_slot_live` | 3 turns, 1 process death | `RestNotRunning`, and `QueuedStarts` under fairness |
| `delivery_outbox` | 2 settlements, 2 workers, 3 lease ids, 1 fault, lease of 2 ticks | `SettledOnce`, `LeaseExcludes`, the refinement `ImplementsSettlement`, and `EventuallyDelivered` |
| `subagent_task` | 2 tasks, one a continuation, quota 1, lifetime 2, cache 1, 2 faults | `QuotaExact`, `OneChannel`, `EndsOnce` |
| `subagent_task_live` | 1 continuation, no cache, 2 faults | `WaiterReturns`, `SlotReleased` |
| `subagent_inbox` | 2 tasks, 2 messages, depth 1, 1 fault | `ReadExactly`, `InboxDrains` |
| `event_stream` | 2 publishers, 2 sessions, 1 client of one of them, 3 ids, channel of 1, window of 2, pages of 1, 2 faults | `IdsInOrder`, `NoGap`, `CatchesUp` |
| `prompts` | a tool call and an `ask_user` call of two sessions, 2 requests of any kind, 1 fault; the glob of the first call covers the second, whose own permission is no glob | `AnswersKept`, `NoOrphans`, and `CallEnds` under fairness |
| `tool_scheduler` | 5 turns with 6 calls, 2 permits per turn, 2 global, subagent calls nested twice, one new file under two spellings, 2 cancels, 2 calls that may be refused | `Exclusion`, `OrderKept`, `NoDeadlock` |
| `turn_loop` | 3 prompts, settlements and compactions together, 2 assistant messages of at most 1 call, a tool that reads and one that writes, 2 steps per loop, 2 recent messages kept, threshold 2 | `RequestPaired`, `HistoryKept`, `RemindersExact`, `LoopBounded` |
| `model_stream` | 3 attempts, base delay 2, deadline 5, Retry-After 0, 1 or 9; a channel of 1 item, pieces of up to 4 tokens or all the rest; 2 calls pending at most; one cost record or DELETE; 2 fillers; the plugin sets, set-ups and 9 replies of `MCModelStream` | `ReplyKept`, `LiveMatches`, `BilledOnce`, `RetryBounded`, `RequestExact`, and `TurnEnds` under fairness |
| `workspace` | 13 scripts and 3 Python programs, each cancelled or late at every poll up to the 22nd; 8 steps, 4 lines of output; reads of the whole, of a slice and past the end; 2 calls of the write and edit tools, 1 change by others, 1 restart or failed observation, and after a script 3 of these 4; walks of 3 files or 3 lines; pages asked for by a session that has read nothing (`Paging`: they depend on the directory only) | `ScriptMeaning`, `AbortClean`, `SkipReported`, `ReplacedKnown`, `PageExact` |

A property whose definition is a conjunction of named parts (`SlotExact`, `SettledOnce`,
`LeaseExcludes`, `EndsOnce`, `ReadExactly`, `IdsInOrder`, `AnswersKept`, `LoopBounded`,
`AbortClean`) is one promise of the component; the comments at the parts say what each
excludes.

Why the bounds are enough.  Three turns are a holder, a queued turn and a fresh
request racing with the hand-over; a fourth adds another queued turn and no new
pair of racing steps.  One canceller next to DELETE gives two cancellers of one
turn; `CancelledOnce` is proved for any number.  Two settlements are what a
batch claim needs, and two workers what a duplicate append needs; a fault lets an
attempt lose its heartbeat or fail.  Attempts that are never driven keep their lease
ids, one per settlement and one more per lost heartbeat, so three ids always leave one
for a take-over.  Two tasks under a quota of one make admission wait for a
finalize; a cache of one makes the second settlement evict the first.  An inbox
of depth one is full after one message.  Three ids with pages of one row give a
replay of two pages; a window of two lets a client fall out of it; a channel of
one frame overflows on the second.  Clients do not interact, so one is enough.
Two requests are what a race for one ask needs; two calls let a rule made of one
ask decide the other.  Two global permits and two levels of subagent calls are the
smallest case in which children starve; the three other turns meet on one file and
on the workspace in every order.  Three inputs and two assistant messages give two
compactions, one of them of the other's summary, with a settlement or a prompt around
them, and two steps of a loop, which is what a threshold of two judges.

A retry needs a second attempt and a deadline hit a third.  A channel of one item makes
the decoder wait on every delta.  Pieces of up to four tokens cut every separator
(the longest has four) at every place.  The replies hold text, reasoning, calls with
and without index, two calls in one chunk, a usage chunk, heartbeats, folded data and
mixed line ends, a call opened twice, and replies that must be refused.  A script of the instance polls
at most 22 times, but for `until`, whose second loop repeats until its step budget ends
it at the 30th poll.

Two places where the code does not do what a comment or document of the repository
says.  They were checked with properties that TLC found violated, and are left out of
the properties above.

1. A finalizer releases the slot and then writes its terminal status without
   comparing handles, so it can overwrite the `running` of a fresh turn
   (`turn_slot.rs:137`, against `app_state.rs:82-83`, "so a stale finalizer can't stomp
   a fresh turn's status").
2. When a background hand-over, the settlement and finalize all come before the
   foreground call looks its task up, the call returns the cached output and the
   outbox delivers it too (`task_registry.rs:456`, against `docs/architecture.md:126-127`,
   "the original tool result and the outbox cannot both expose the child output").
   `OneChannel` is therefore stated for callers that waited on the live handle.

## 4. Fairness

* Spawned tasks and accepted requests are polled until they finish: weak
  fairness of the steps of a turn, a driver, a sender and a caller.
* The driver of a turn resolves (`DriverResolves`, `RunLoop`, `DriveOk`): the
  turn loop is bounded by its step limit and provider calls by their timeouts.
  An upstream that keeps a turn waiting in one of the ways `TurnEnds` excepts is outside
  this assumption: the slot, the outbox row and the task then wait with it.
* Nothing makes a queued attempt start (`Drive`): an aborted set-up leaves the queue.
* The SSE handler serves an open connection and the client reconnects after its
  backoff, which has no limit of attempts.
* The five-minute timer of a question runs out; nobody has to reply or to cancel.
* The runtime polls the turn and its decoder; a hook answers or times out, a back-off
  ends, an idle timeout ends the decoder's wait unless a piece restarts it.  A cancelled
  decoder finds out, for `select!` chooses at random among what is ready.  Nothing makes
  the upstream answer a POST, finish an error body or stop sending.
* The clock, the heartbeats and the five-second reconciler go on for ever.
* No fairness is assumed of requests, cancels, faults or restarts, and none of
  the success branch of an action that may fail.

## 5. Proofs

Eight modules hold theorems.  Each is about the specification the runs check, with
the same constants and the same definitions, and holds for every value of the constants
that satisfies the module's assumption: any number of turns, tasks, clients, calls,
requests, messages and keys, any limit, and any number of faults and restarts.  The
proofs are laid out alike: lemmas about the operators, what each action does to each
record, one lemma per action (or per group of actions that leave the invariant's
variables alone), and the theorem from these by PTL.  TLC checked each inductive
invariant on its run's instance before it was proved.

What is assumed of constants is what the code gives: identities differ from the "none"
values, bounds are naturals, a channel and a page hold at least one item, the heartbeat
period is positive and shorter than the lease, the publishers, and the messages between
siblings, are finitely many, a tool call is one call of one batch, and the order of lock
keys is a strict one.  The threshold of the doom guard is positive, and `PRESERVE_RECENT`
is from 1 to 4 (`compaction.rs` says 4).

### TurnSlotProofs

* `TypeCorrect`: `Spec => []TypeOK`.
* `SlotSafety`: `Spec => [](OneDriver /\ QueueExact /\ HandoverExact)`.
  `OneDriver` alone is not inductive: `drain_next_turn` gives the slot away on
  the strength of `slot = t`, so the proof needs `SlotOwner` (the slot names a
  turn exactly while the turn's phase entitles it to the slot), from which
  `OneDriver` follows; the hand-over needs `QueueExact`, because the popped
  turn must be in phase `queued` and occur once; and a finalizer that starts its
  `next` needs `HandoverExact`, so that it starts a turn nobody else starts.
* `CancelledOnce`: `Spec => []CancelOnce`, from the invariant that the count of
  Cancelling events of a turn is at most one and is zero while its gate is open.
* `SlotServesExactly`: `Spec => []SlotExact`, which adds the order of service.  `Fifo`
  says that the turns offered are the started ones followed by the queue; it is
  inductive only with "a vacant slot has nobody waiting", without which a newcomer
  overtakes the queue, and that is false once a set-up is aborted.
* `RestsNotRunning`: `Spec => []RestNotRunning`.  `Rest` says that while the status
  reads `running` some turn will still write a terminal one, and that what a resolved
  turn has to write is never `running`.

### DeliveryOutboxProofs

* `OutboxTyped`: types, and that a claimed attempt names its settlement.
* `OutboxSettlesOnce`: `Spec => []SettledOnce`, from `Recorded`: reservation, reminder
  and row appear together, and an attempt that may acknowledge was heard.
* `OutboxLeasesExclude`: `Spec => []LeaseExcludes`.  The argument is about time
  (`BeatHolds`): what is left of a lease plus the time since the last beat is at least
  the lease's length, and a beat is due before that time reaches it, so the row of a
  beating attempt cannot expire and nobody else can claim it.
* `OutboxImplements`: `Spec => ImplementsSettlement`, one step per action: a step of the
  outbox is a step of `Settlement` or leaves what `Settlement` sees alone.

### SubagentTaskProofs

* `SubagentTyped`: `Spec => []TypeOK`.
* `SubagentQuotaExact`: `Spec => []QuotaExact`.  `Quota` adds which tasks are live: those
  between admission and finalize, so that each way out decrements once.
* `SubagentOneChannel` and `SubagentEndsOnce` share one invariant, `Outcome`.
  `Channel(t)` ties the ownership word, the caller and the outbox: a caller with a
  result saw the word in the foreground and it is terminal.  `Ending(t)` ties the row,
  the handle and the announcements: the driver's version is the row's until it writes
  the outcome, so its compare-and-swap cannot miss.

### SubagentInboxProofs

* `InboxReadExactly`: `Spec => []ReadExactly`.  `Posted` says where a message can be: in
  the inbox or among the drained, in one of them and once; how often it is in the
  transcript; and that only a message stored before the driver's recovery (`early`) can
  be both in the transcript and still to come.  From the occurrences the proof gets to
  the count in `ReadExactly` by the cardinality of the set of places.

### EventStreamProofs

* `StreamIdsInOrder`: `Spec => []IdsInOrder`.  `Publishing` says that ids are dense, that
  the publisher inside the lock has the next one, and that every collision is paid for
  by a dropped publish (`Paid`).
* `StreamNoGap`: `Spec => []NoGap`.  `Serves(c)` follows a client across the seam: what
  is in its channel (`Channel`), where its cursor and its replay are (`Reading`), that
  the replay leaves nothing out up to where it is (`Replayed`), and that what will not
  be replayed is in the channel or about to be, unless the client was told that it
  lagged (`Followed`).

### PromptsProofs

* `PromptAnswersKept` and `PromptNoOrphans`, from `Prompting`: what an ask, its call and
  the request that decides it know of each other (`Asks`, `Replies`), that a rule which
  was not seeded is in the store, and that nobody is asked what a rule decides
  (`Ruled`), and the same bookkeeping for questions (`Questions`).

### ToolSchedulerProofs

* `SchedulerExcludes`: `Spec => []Exclusion`.  `Locked` says that a writer shares no lock
  object, that a call holds its locks from the lowest key up, and that calls which look
  a key up find the same object unless the key was raced for.
* `SchedulerLocksAscend`: calls take locks in the order of their keys, the part of
  `NoDeadlock` that can be said without ENABLED.
* `SchedulerKeepsOrder`: `Spec => []OrderKept`.  `Waved(t)` says that the calls before the
  current wave have ended and those after it are idle.

### TurnLoopProofs

* `TurnLoopInv`: `Spec => []Inv`, for any tools, thresholds and bounds.  `Inv` has three
  parts.  `Typed`.  `Sound(log)`, about the transcript alone: a part fits the role of its
  message, a call is numbered after its message, a result follows its call with nothing
  but settlements in between, text comes first, and a compaction stands for the messages
  from the first one on.  And what the loop knows of the transcript at each point: what
  is still to be written fits where it goes (`Pending`), where markers and messages are
  (`Located`), that only settlements came since the step or the projection (`Following`),
  that a call has a result, or will have, or a loop ended before it had (`Answered`),
  which messages are the steps of the loop (`Turns`), that `doom_history` is what the
  transcript says of the last of them (`Remembered`, `Ended`), that no reminder is missing
  (`Reminded`), and that a lap is paid for by a step or a compaction (`Paced`).
* `RequestsPaired`: `Spec => []RequestPaired`, for the requests of turns and of
  compactions.  A result is never superseded before its call, for a compaction supersedes
  a beginning of the transcript; the rest is `Answered` and `Sound`.  That the request
  for a summary parts the calls of one message at most follows from the same: two
  messages with calls cannot both be before the cut with a result after it, because the
  results of the first are stored before the second.
* `RemindersAreExact`: `Spec => []RemindersExact`.  The lemma `Prepared` says that after
  the reminders were stored none is new; nothing but settlements is stored before they
  are sent.
* `LoopIsBounded`: `Spec => []LoopBounded`.  The lemma `GuardJudges` says that a history of
  threshold + 1 steps decides as the transcript does, compactions in between or not.
* `HistoryIsKept`: `Spec => []HistoryKept`, from `TranscriptLossless`:
  `Spec => []Lossless`, an invariant on top of `Inv`.
  * `Faithfully(log)`: the message of a summary has text and no calls, whatever it stands
    for was in view of the summarizer, its request precedes it, and *a later summary
    stands for everything an earlier one does*.  From the last follows that all
    superseded messages have one owner (`OneOwner`), so that one summary is projected.
  * `Ahead`: what is being written comes after every summary, so that no write touches
    a message that a summary stands for.
  * `Compacting`: what `run_compaction` has settled so far.  What it will supersede is
    fixed before the request is stored and committed many steps later, with settlements
    and reminders stored in between; they come after the request and change none of it.

  The hard part is that `should_compact` counts projected *lines* and
  `superseded_messages` counts stored *messages*, so a compaction could keep more
  messages than came after the last one and supersede less than it did, leaving two
  summaries projected.  `Room` excludes it by counting.  What comes after a cut is
  the messages that were kept, the request, the summary, and whatever followed.  If there
  is no result among them, each message is at most one line, the request is none, and
  the line of the summary takes its place in the count.  If there is one after the
  request, its call is too; if there is one among the kept messages, at least two were
  kept (`TwoLines`: a result is never the only line).  Either way that makes four
  messages, as many as `PRESERVE_RECENT` asks for.  This is where `PRESERVE_RECENT <= 4`
  is used: a larger constant needs another argument.  TLC checked `Lossless` for each value
  from 1 to 4 first, on the instance of `turn_loop` with two calls per message.

### Only model-checked

* The liveness properties `QueuedStarts`, `EventuallyDelivered`, `WaiterReturns`,
  `SlotReleased`, `InboxDrains`, `CatchesUp`, `CallEnds` and `TurnEnds`: they need
  fairness, which the prover does not reason about.
* `NoDeadlock`, which is stated with ENABLED.
* Everything about `Workspace` and `EmuShell`, which have recursive operators.
* The properties of `ModelStream`.  `ReplyKept`, `LiveMatches` and `BilledOnce` compare
  what was stored, heard and billed with folds over the chunks of a reply, and
  `RequestExact` rests on the sort of the hook chains: facts about them for every reply
  and every set of plugins need induction over data.  `RetryBounded` does not; TLC checks
  it, and it is the next one to prove.

## 6. Plan

In order:

1. `BackgroundDelivery`: composition of `TurnSlot` and `DeliveryOutbox` (an
   attempt is driven exactly when its turn gets the slot), showing which
   fairness assumption of the outbox the slot discharges and which it does not
   (`SlotGuardDrop` leaves the queue alone).
2. The remaining reminder producers and their cadence, the permission rule engine, the
   merge of configuration layers and the hooks around tools, as operators checked
   against reference definitions over bounded inputs.
3. The todo and plan-mode tools, the subagent control tools.
4. Proofs: `RetryBounded` of `ModelStream`, then the new modules.

## 7. Not modelled

Rendering (TUI), HTTP framing, authentication, metrics, configuration parsing, the host
shell executor, web fetch and file routes: sequential code or I/O with no state shared
between the actors above.  Elapsed time is not measured but for the sum of back-offs: a
timeout is an action that may happen.  Text of messages, prompts and events is
abstract.  Within the modelled parts: the cost roll-up of subagents, output buffers,
depth and privilege checks of subagents, `list_models`, the Python language beyond its
calls to the file system, and refusals that change no state.
