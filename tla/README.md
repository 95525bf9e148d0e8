# flit in TLA+

This directory holds TLA+ models of [flit](../src/README.md): modules that
follow its code, TLC configurations that check them on small instances, and
TLAPS proofs that hold for every value of their constants. `PROJECT.json` lists
which definition stands for which lines, what each run checks, which variant of
a definition breaks which property, and the hazards the properties are for.

Source paths below are relative to `src/server/internal/` unless they begin
with `src/`.

## The system

flit is a coding agent that runs as one server process (Go) with a Flutter app
as its client. A *session* is one conversation with a model in one directory.
Everything that happens in it is an event in an append-only log in SQLite; the
state in memory can be rebuilt from that log.

| Component | State it keeps | Operations | What is hard |
|---|---|---|---|
| Session runtime, `agent/session.go`, `queue.go`, `turn.go` | log and task state (stored); queue, prompts, allowed patterns, the running turn (memory) | send, queue edits, interrupt, answer, the turn's own steps | one goroutine and many callers on one lock that is released between steps; appends that fail; crashes |
| Compaction, `agent/compact.go` | a pending ask; summaries in the log | at a step, at the end of a turn, or as a run of its own | an ask that outlives its turn |
| Manager, `agent/manager.go` | the sessions loaded, `closing` | passes calls on, Close, marking at start | checks made before the session's lock is taken |
| Model call, `agent/turn.go`, `llm/llm.go` | attempt, retries, what came of the reply | attempts, RetryModelCall, watchdog, interrupt | a retry that was accepted and a reply that begins; two ways to cancel one call |
| Limiter, `llm/limit.go` | per provider and model: slots in use, waiters | Acquire, release, Changed | a grant that races the end of a context; a limit that changes |
| Attach, `agent/session.go`, `src/app/lib/application/flit/` | subscribers and their buffers; the app's stream and fold | replay, follow, drop, reattach | appends during a replay, slow clients, broken connections, two streams of one app |
| Scheduler, `scheduler/`, `cron/` | jobs, next slots, last slots (memory and store) | rescan, fire, run, finish | slots missed or run twice around crashes and edits |
| Webhooks, `webhooksvc/`, `webhook/` | per hook: running, waiting; runs (store) | accept, start, finish | redelivery, a concurrency that changes, restart |
| Unattended runs, `agent/cron.go` | the outcome channel of a session | start, refuse, time out, finish | a timeout that races an answer |
| Branches and history, `agent/branch.go`, `branches/` | tree of branches in the log | fork, switch | forks cut short; a summary of another branch |
| llama.cpp caches, `agent/llamacpp.go` | slots and save files | pick, restore, save, discard | a cache of a prompt that is no longer sent |
| Devices, `devices/` | token cache | Lookup, Revoke | a lookup that races a revocation |
| Worktrees, `agent/worktree.go`, `gitx/` | a directory per session | create, remove | a turn in a directory that goes away |
| Tools, MCP, LSP, catalog, learning, timeline, export, configuration | files, caches, external processes | | mostly input and output |

They interact by calls within one process (Manager to session, session to
Limiter, scheduler and webhooks to Manager), by the log (session to Attach), by
channels (prompts, subscribers, run outcomes) and by contexts that end
(interrupt, timeouts, shutdown).

What makes each part correct:

- *Session*: one turn at a time; the stored state is the turn's; queued
  messages are delivered once, in order, are never lost and never stranded; a
  restart rebuilds the queue and the permissions; prompts can be answered and
  are settled once; interrupt and Close end what runs.
- *Limiter*: slots are neither leaked nor doubled, order is kept, the limit in
  force bounds what is granted, and every waiter is served or cancelled.
- *Attach*: the app sees the log, each event once and in order, all of it.
- *Model call*: a call is made again only if nothing came of it or a user asked
  before anything had come; what cancels it ends it.
- *Scheduler*: no slot twice and none forgotten, runs of a job never overlap, the
  row of a run says what its turn did, a job is always freed again.
- *Webhooks*: one run for a delivery unless it failed, slots neither exceeded
  nor idle while somebody waits, no repeat ignored without a reason, waiters
  move on.
- *Branches and history*: the path of a branch is what was said on it, the summary
  and the request stand for all of it, and the request is a valid conversation.
- *Prompt caches* (not modelled): what is restored belongs to the prompt sent.
- *Devices* (not modelled): a revoked token does not work.

## Modules

    Session ──── MCSession                 (symmetry for TLC)
            └─── SessionProofs <── SessionQueueProofs
    Limiter ──── LimiterProofs
    EventLog <── Attach ── AttachProofs    (Attach implements EventLog)
    Webhooks ─── WebhooksProofs
    Scheduler ── SchedulerProofs
            └─── MCScheduler               (schedules for TLC)
    ModelCall ── ModelCallProofs
    Conversation ── ConversationProofs
    Session, Attach, Limiter ── MCServing  (the three in one run)
    MCScheduler, ModelCall, Conversation ── MCParts (the three in one run)

Limiter, ModelCall, Session, Scheduler and Webhooks are layers: a call waits in
Limiter, is made by ModelCall, is one step of a turn in Session, and that turn is
one step of a run in Scheduler or Webhooks. Each layer takes from the one below
what is checked there (a turn ends, a call ends), so each is small enough to
check. Conversation looks at the same log as Session and Attach, but at its
contents.

### Session

One session with everything that acts on it. Handlers run under `session.mu`
and are one step each. The exceptions are where the code itself lets go of the
lock: Manager's checks (`SendMessage`, `Compact`) put a request into `inbox`
and `session.send` or `requestCompact` takes it out later; the four appends of
`approveWith` are four steps; the turn's goroutine steps from one model call or
tool call to the next.

| Model | Code |
|---|---|
| `log`, `state` | the `events` and `sessions` tables; `info.State` |
| `queue`, `compactAsk`, `prompts`, `allowed`, `cancelTurn` | the fields of `session` of these names |
| `offer`, `answer` | `pendingPrompt.patterns`, and the answer in its channel |
| `inbox` | calls between Manager's checks and the session's lock; `SendMessage` also stands for `startUnattended`, which checks `closing` the same way |
| `run[t]` | goroutine `t` inside `runTurn` or `runCompaction`: `pc` where it is, `step` of `max_steps`, `left` tool calls, whether its context is `cancelled`, how it `end`s |
| `closer` | how far `Manager.Close` is |
| `spent` | what is used of each bound, and messages and prompts already used |

`pc` follows `loop`: `boundary` (top of the loop to the model call), `compact`,
`call`, `tools` (between tool calls), `tool`, and within a tool `asked`,
`waiting`, `answered` or `gaveup`, `resolved`; then `ended`, before `endTurn`.

*Failures.* `SendFails`, `BoundaryFails`, `EndTurnFails`, `EnqueueFails` and a
branch of each step of `approveWith` are an append that fails: the log keeps
the events before it, and the code's error path is taken. `Stuck` is every
other way to end stuck. `Crash` ends the process with any prefix of what a
handler in progress would record; `Restart` is NewManager, with the queue and
the permissions replayed from the log.

*Abstractions.* The three events of a user message are one, `User`, which is
recorded when MessageDone is, since that is when the message becomes part of
the conversation (`history.go:36`). Texts are dropped but for whether a queued
message was edited. A model call is one step that replies, fails or is
cancelled. Whether an idle session has anything to compact is left open. The
title that the first Send stores, the session's settings and its branches
change nothing the properties look at. An edit or withdrawal whose append
fails changes nothing and is not a step.

### Limiter

The gate of one provider and model; gates share only the lock. `limit` is what
`Concurrency` returns and changes at any time; `stale` says that Changed has not
run since (`src/server/cmd/flit/main.go:326-328` stores the configuration first).
`Pump` gives all the slots that pump's loop would; `Forget` drops an idle gate.
A waiter whose context has ended takes either branch of the select if a slot is
there too (`Ready`, `Decline`).

`WithinLimit` looks at the calls that are given a slot, not at how many are in
use: a slot that is freed and handed on in the same step leaves `inUse` as it
was, and must not be handed on when the limit was lowered below it. Its second
half, `TakenFromNobody`, says what a lowered limit does not do: only a call's
own step ends its use of a slot.

### Attach and EventLog

`EventLog` is the promise: there is a log, and a client is shown it event by
event, in the end all of it. `Attach` is how it is kept: `session.attach` on the
server for each stream (`Subscribe`, `Fetch` a page, `SendReplayed`, `GoLive`,
`Relay`, `SlowClient`, `Gone`), appends that publish to all subscribers and
drop a full one, and the app's notifier (`Retry`, `ReconnectNow`, `OnEvent`,
`Dropped`) that attaches from the event after the last it folded. An earlier
stream of the app may still be served next to the new one. `Break` loses what
is on the wire. Events are their sequence numbers; page and buffer sizes are
constants (1000 and 4096 in the code).

### ModelCall

One call of the model by a turn (`agent/turn.go:198-300`), with everything that
may end it: RetryModelCall and its question to a llama.cpp server
(`agent/session.go:360-410`), the watchdog (`llm/llm.go`), an interrupt, and the
endpoint, which may answer, refuse, break or stay silent.

| Model | Code |
|---|---|
| `pc` | the turn's goroutine: `begin` (ModelCallStarted), `waiting` (in Acquire), `sent`, `returned`, `judged` (userRetry), `decided` (autoRetry), `message` (MessageDone), then how it leaves |
| `attempt`, `autoRetries`, `text`, `again`, `appendErr` | the loop's variables |
| `registered`, `callOutput` | `session.cancelCall` and `callOutput`, under the lock |
| `cause` | `context.Cause` of the call: the first cancel wins |
| `asking` | goroutines of retryCall that ask the server without the lock |
| `watch` | the watchdog: fired, asks the server, has given the call up |
| `callLog` | the events of the call, with the attempt each is of |
| `late` | an attempt returned while its timer's function waited for `watch.mu` |
| `asked` | history: when a retry of an attempt was accepted |

*Abstractions.* The reply is its deltas. The watchdog may give up at any time: the
phases and their limits (first token, stall) only take behaviours away. A
stalled llama.cpp call that wakes while the server is asked is still given up,
as in the code. Deltas the stream had read before a cancel may still arrive.
`HandlerFails` is any of the other handlers (Queued, Admitted, Progress) that
cannot record its event; their events are left out. A call that the watchdog
cancelled may still have been answered, broken off or refused by the server
(a status that is not OK is not mapped to the watchdog's error, `llm.go:340-342`).

`finish` takes `cancel` from the watchdog and stops its timer. A timer that has
just run out is not stopped: its function has `watch.mu` next (`LateFire`) and
calls what is no longer there, at once or after setting the timer again, which
ends the process (`pc = "dead"`).

### Scheduler

`scheduler/scheduler.go` with the job files (`cron/job.go`), the rows
(`store/cron.go`) and the unattended turns (`agent/cron.go`). A pass of the loop,
a rescan, `Run` and `Start` hold `Scheduler.mu` and are a step each; `finish`
is two, as the code stores the result before it takes the lock.

| Model | Code |
|---|---|
| `file`, `changed` | job files, and whether one was written since it was loaded (ModTime) |
| `job` | `Scheduler.jobs`: the file as loaded, `next`, `running` |
| `lastSlot`, `runs` | the map of that name; `cron_runs` |
| `proc` | per run its goroutine and turn: `turn`, `asked` (a prompt is open), `ended`, `saved`, `gone`; what was denied and refused, and the outcome |
| `excused`, `missing` | history: which slots of a loaded file are owed no run, and when an insert failed |

Time is a number. A schedule is the set of times it names: `every` and `at` name
them outright, `in` counts from the file's last change. `Pass(TRUE)` is a pass
with the rescan. FinishOneShot writes the file twice (`cron/job.go:458`, `481`):
disabled, then with the time it ran for; either write may fail, which is only
logged (`scheduler.go:256-258`), so `Begin` leaves the file as it was, disabled, or
finished. `Crash` may come after either write and before the insert
(`scheduler.go:270`); the other prefixes of a pass are runs that were recorded,
which the steps of a pass reach by themselves. A crash within the catch-up of
`Start` leaves what an insert that failed there and a crash after it leave.

What the code does that a reader may not expect, and the module keeps:

- The job of a removed file stays in memory while its run goes (`scheduler.go:192`),
  so a file of the same name written meanwhile cannot overlap it.
- After a sleep of the machine one run is recorded, for the earliest slot that was
  due; a restart catches up with the latest. After a sleep and a restart, a slot
  that the first run had collapsed may run after all (run `cron_sleep`). It is never
  the same slot twice (`NoSlotTwice`).
- A one-shot's file is disabled before its run is recorded. A crash in between
  loses the run: nothing is due any more. `EverySlotAccounted` speaks of files that
  are enabled and does not see it; the model has the behaviour.
- FinishOneShot works on the file as it is on disk: one that was rewritten
  since it was loaded is disabled too.
- While flit stops, the loop's select may still take the timer: a one-shot is
  disabled although its insert fails. `EverySlotAccounted` counts it as one that
  could not be recorded (`missing`).
- A denial whose following state event cannot be recorded is in the log but not
  in the run's list (`torn`), so its run may say ok.
- An end that cannot be recorded is told to the run, which records a failure.

*Abstractions.* Each prompt takes either `ask` mode. `SetEnabled` and the API's
edits are `Edit` followed by `Rescan`. A bad read of the jobs' directory, the
archiving of old sessions and notifications change nothing the others look at.
Jobs share only the lock, the clock and the loop: TLC has one, the proofs any number.

### Webhooks

`webhooksvc/webhooksvc.go` with `store/webhook.go` for one hook; hooks share
only the lock. `accept` is `Receive` (the file is read without the lock, so its
limit may be old by then) and one of `Ignore`, `AcceptSkips`, `AcceptQueues`,
`AcceptStarts`; `finish` is `Save` (without the lock) and `FinishStarts` or
`FinishEnds`. `rows`, `running` and `waiting` are the table and the hook's queue,
`proc` the goroutine of each run, `unsaved` the runs a change of which could not
be stored, `seenLimits` the values `concurrency` had since the process started.

A row `ok` stands for needs_attention as well: `DeliverySeen` treats them the same.
Filters, deliveries without an id, archiving and notifications are left out.

`WithinLimits` is what the code keeps when the limit changes. A lowered limit is
not met while deliveries wait (`finish` starts one for each run that ends,
`webhooksvc.go:342`), and after a raise a new delivery may overtake those that wait
(`webhooksvc.go:251`; run `webhooks_order`). With a limit that stays nobody
overtakes.

### Conversation

What the model is shown of a session: `branches/branches.go`, `agent/branch.go`,
`agent/history.go`, and the cut of `agent/compact.go`, as operators over the log
(`Path`, `OnBranch`, `ContextEvents`, `BuildMessages`, `ChooseCut`), named as in
the code. `OnBranch` is the set of events that the path of a branch lets through, and
`ContextEvents` those of them that a request is made from; sets of events come in
the order of the log, so `BuildMessages` is a function over the log that takes the
events of its set one after the other (`Build`). Around them a session that
produces every kind of log: a turn is a script of appends, each of which may be the
last (a crash, a failed append), with compactions between and inside turns, forks
with and without an edit, and switches. The reference they are checked against is `told`, what was said on
each branch in order, which a fork copies and nothing else rewrites; compactions
carry the set of messages their summary stands for.

An event's sequence number is its place in the log, and names its message or
branch. `Named` says whether the server names its tool calls; if not, ids are
their places in the reply and repeat (`llm.go:689-690`). A reply that is cut off
has no calls, as in the code.

## Runs

| Run | Instance | Shows |
|---|---|---|
| `session_queue` | 3 messages, 2 goroutines, 2 steps, 1 tool call, 1 edit, 1 failed append, 1 restart | the queue: in order, once, nothing lost but one message per crash, nothing stranded, rebuilt by a restart; an interrupted end starts nothing |
| `session_prompts` | 1 message, 2 prompts, 1 pattern, 1 Compact, 1 failed append, 1 restart | one turn, a true state, prompts answerable and settled, permissions rebuilt |
| `serving`, a session | 2 messages, 1 prompt, no failures | interrupts, the queue and Close make progress |
| `serving`, attach | 4 events, 2 streams, buffer 1, page 2, 1 break, 1 reconnect | safety of attach, and that it implements EventLog |
| `serving`, the limiter | 4 calls, limits 0, 1, 2 | safety and progress of the limiter |
| `session_interrupt`, `session_close`, `session_crash` | 2 messages | three of the disagreements below |
| `webhooks` | 3 deliveries, 1 request at a time, limits 1 and 2, queue of 1, 3 runs, 1 edit, 1 failure, 2 starts | repeats, slots, reasons, and that waiters move |
| `parts`, the scheduler | 1 job, 3 schedules, 3 time units, catch_up 2, 2 starts, 1 edit or manual run, 1 failure or prompt | slots once and accounted for, runs do not overlap, rows are true, jobs are freed |
| `parts`, the call | 1 automatic retry, 3 attempts, 2 deltas | replies twice only on request, cancelled calls end |
| `parts`, the conversation | 2 calls a reply, keep_turns 1 and 2, 2 switches, 1 cut, 13 events | paths, summaries and requests |
| `retry` | 2 attempts, 2 deltas | a retry that finds the reply begun shows it twice |
| `call_ids` | unnamed calls, 12 events | a request that is not a valid conversation |
| `webhooks_order` | 3 deliveries, limits 1 and 2, 1 edit, no failures | a raised concurrency, and a delivery that overtakes |
| `cron_sleep` | 1 job, 3 time units, 2 starts, no failures | a sleep that is run for twice |

*Why these bounds.* Two goroutines are enough for a second turn to start while
one still lives; the theorem `OneTurnAtATime` says that never happens for any
number. Three messages are one that starts the turn and two in the queue, the
least for an order to go wrong or for a delivery to be cut short with another
behind it. Two steps give one boundary before the limit, where the queue is
delivered, and one turn that stops stuck. One failed append and one restart
can hit at every point of every script, in either order; two would repeat them.
Two prompts of one turn follow each other, so the second is asked with the
first one's permission in force. Four calls at limit 2 fill the gate and leave
two in the queue, the least for order among waiters, and 0 is the unlimited
case. A buffer of 1 overflows at once; 4 events span two pages and leave some to
arrive live. `MCParts` and `MCServing` run modules that share no state in
one state space: `part` is chosen at the start and the others stay as they begin,
so it is their sum, not their product. Three times with a window of two hold a slot before
a crash, one within catch-up and one beyond it. Three runs at a limit of one are
one that goes, one that waits and one that is skipped or repeated. Two failures
of a call are one more than it may retry by itself. Eleven events are the least
for a compaction inside a turn that follows another turn; thirteen leave room for
a fork or a cut after it. Bounds (`Max...`) only count what clients, the network and
failures do: nothing the code does by itself is cut off.

`CHECK_DEADLOCK FALSE` is set where everything may come to rest: clients that
have nothing more to ask, a log that is not appended to any more. The limiter
never rests; that nobody waits there without a call that will end is
`NobodyWaitsForNobody`.

Symmetry (`MCSession`) over messages, prompts and goroutines is used in the two
safety runs only; no definition tells their elements apart.

### Fairness

- *Session*: each goroutine of a turn goes on (`WF` of `Advance`): it is a
  goroutine that never blocks but on a model call, a tool or a prompt. Model
  calls end by their first-token and stall timeouts or their context, tools by
  their own timeouts or their context (`tools/shell.go:55-76`); a prompt ends by an answer, which no
  client owes, or by the context. So the properties except a turn that waits for
  an answer and was not interrupted. The two steps of Close after its first are
  fair. Clients, crashes and failures are not.
- *Limiter*: a call that has its slot goes on and releases it (`defer release`
  around a stream with timeouts), and the watcher calls Changed after a change.
- *Attach*: handlers and the app go on, and the retry timer fires. Nothing has
  to be recorded and nothing has to break.

- *Scheduler*: `WF` of a run's goroutine and of a prompt's refusal. An unattended
  turn ends (`InterruptEnds`, and no prompt outlives its timeout), and the
  goroutine that waits for it does nothing that blocks. The loop, files and the
  clock are not fair: `RunsFinish` needs none of them.
- *Webhooks*: `WF` of the goroutines of runs, for the same reason. Requests are not.
- *ModelCall*: the turn's goroutine goes on, a cancelled call returns, and a server
  that is asked answers or its timeout passes. Nothing is assumed of the
  endpoint: a call nobody cancels may wait for ever as far as the model goes.

### Where the code and its comments disagree

- `session_interrupt`: an Interrupt that comes after the loop's last look at the
  context is acknowledged, and the turn still ends as done and starts the next
  with the queue, which session.proto says waits for the next Send.
- `session_close`: a request past the `closing` check starts a turn that Close
  has not interrupted and then waits for. When flit shuts down, the HTTP server
  has drained before, so this is left to requests that outlive the drain and to
  cron and webhook runs that start at that moment.
- `session_crash`: a crash between QueuedMessageDelivered and the message's own
  events loses the message. `NothingLost` says that this is the only way to lose
  one and that each crash loses one at most.
- `retry`: RetryModelCall looks whether the reply has begun, and cancels later. What
  came in between stays in the log and the reply is asked for again, which
  `agent/turn.go:245-246` says can only happen to a call that produced nothing.
  `TwiceOnlyOnRequest` says that flit never does this by itself.
- `call_ids`: results are looked up by the id of their call over the whole
  conversation. Where ids repeat, a call that was cut short is not given the
  result `agent/history.go:11-12` promises, and the request has a call without
  a result. With ids that differ, `RequestValid` holds (`parts`, and for any
  bounds `RequestsAreValid`).
- `webhooks_order`: after concurrency was raised a new delivery starts before those
  that wait, which `docs/webhooks.md:109-110` says "wait their turn in order".
- `cron_sleep`: the run after a sleep stands for all slots it missed
  (`docs/cron.md:73-76`), but only the earliest is recorded, so a restart soon after
  runs the job once more for a later one.

Three more were seen while modelling; the modules have the behaviour, and no run is
spent on it:

- `finish` "stops the timer" of the watchdog and allows "no re-arming after the
  call" (`llm/llm.go:513`, `520`), but a timer that has already run out goes on when
  `finish` lets go of the lock: it sets itself again or calls a nil function, which no
  one recovers (`LateFire`).
- A one-shot is disabled "after it runs" (`docs/cron.md:55-56`); in the code before,
  and a crash in between loses it (`Crash` of Scheduler).
- After concurrency was lowered a run that ends still hands its place on, so more go
  than the file allows for as long as deliveries wait, while `docs/webhooks.md:46-47`
  has changed files "take effect at once" (`FinishStarts`).

Two properties name their exception for a reason that is not a disagreement
with any text, but worth knowing: when the end of a turn cannot be recorded, the
session stays WORKING with no turn (`StateTracksTurn`), and its queue waits for
the next Send (`NoStrandedQueue`).

## Proofs

All in `...Proofs.tla`, checked by tlapm, for every value of the constants under
the named assumption of each module (`SessionAssumption`: goroutines are finite
and not none, `None` is neither a goroutine nor a prompt, no message is one of the
two requests that share `inbox` with messages, bounds are numbers;
`LimiterAssumption`: finitely many calls, limits are numbers;
`AttachAssumption`: buffer and page hold at least one event; `CallAssumption`,
`SchedulerAssumption`, `WebhooksAssumption` and `ConversationAssumption`: bounds are numbers, `SchedulerAssumption`
also that there are finitely many jobs, for only a finite set of slots has a
latest one, and `WebhooksAssumption` that limits are at least 1).

- *Session*. `Inv` is `OneTurn` and `StateTracksTurn` with the types of the
  control state and one more fact, that a process that is down has no turn.
  `StateTracksTurn` alone is not inductive: a step of a goroutine that is not
  `cancelTurn`'s could change the state under the one that is, so it needs
  `OneTurn`; and both need to know that a crash leaves no goroutine behind. The
  proof sorts the steps into those that leave goroutines and state alone
  (`Aside`), those by which the one goroutine goes on (`GoesOn`), and those that
  start, end or replace it, with a lemma for each. `InterruptedStaysStill` then
  follows from the invariant step by step. `Inv` keeps the types of control
  only; what follows adds the log, the prompts and the queue.
- *Session, its log and prompts* (SessionProofs, second half). `TypeOK` needs that a turn at
  a prompt names one (`Prompted`), and that `LoadQueue`, a recursive function over
  the log, is a function: there is one for every prefix, and only one, by the least
  number principle. `PromptInv` holds the set of prompts that are asked and not
  resolved against the turn that is at one: each is resolved once at most, and
  those left open beyond that turn's are counted by the failed appends and the
  restarts (`PromptsSettled`); what a waiting turn needs is there
  (`WaitsAreAnswerable`); the permissions in memory are those of the log but for the
  answer a turn is about to record, and for failures (`AllowedRebuilds`).
- *Session, its queue* (SessionQueueProofs). `QueueInv` relates the log to
  `Waiting`, which is the queue or, of a process that is down, the queue that the
  log gives back. The two agree in that messages joined in the order they were
  queued and those that wait come after, each once; messages that are recorded as
  queued but neither joined, withdrawn nor waiting are no more than the deaths of
  the process; while no append failed the log gives back the queue exactly. A
  handler that delivers messages records several events and a failed append may
  cut it anywhere: `DeliveryKeeps` follows its events one at a time.
  That gives `QueueRebuilds`, `DeliveredInOrder` and `NothingLost`. `NoStrandedQueue`
  follows from one more invariant: a queue waits on an idle session, without a
  failure or a restart, only after the last recorded state was an interrupted one.
- *Limiter*. `Inv` is the four invariants the run checks, which are inductive
  together: `GateKept` is needed for Changed, which looks at the gates in the
  map only, and `SlotsAccounted` for everything that calls pump. `PumpKeeps`
  says once what pump does to a gate that is in order; `PrefixCount` that the
  first k waiters are k different calls. `WithinLimit` and `FirstComeFirstServed`
  are action properties proved from `Inv`: `PumpGrants` says that pump gives nothing
  or stays within the limit, and takes nothing, and `GrantsNext` goes through the
  steps.
- *Attach*. `NoGap` needs to know that what is on the wire of the current
  stream goes on where the app's view ends, and that the handler's `next` goes
  on where the wire ends; with `HandlerComplete`, which puts page and channel
  behind `next`, that chain from the view to the end of the log is the
  invariant. Each step moves one event from one link to the next.
  `ImplementsEventLog` is the refinement step by step: a fold of a new event is
  `Show`, an append is `Record`, everything else a stutter.

- *ModelCall*. `CallInductive` says what the log can hold at each `pc`: deltas of an
  attempt only after it started, those of earlier attempts only with a retry
  accepted before them, and that `text` is zero as long as this attempt and
  those before have none. `TwiceOnlyOnRequest` needs the middle of that chain: a
  cause of `retry` means that somebody asked (`asked`), and `callOutput` was
  false then, so no delta came before it.
- *Scheduler*. `SchedulerInductive` ties three things together: the last slot in
  memory is not before any recorded one, and `next` is after it (`NoSlotTwice`); the
  job's `running` is the one goroutine that is not gone (`RunsNeverStack`); and
  row, goroutine and turn agree at each `pc` (`RecordsAgree`). After a crash the
  first is rebuilt from the rows: that a set of slots has a latest one is proved
  from `IsFiniteSet`, and that the next slot exists by the least number
  principle (WellFoundedInduction). `BeginKeeps` treats what a pass and a
  catch-up have in common once. `EverySlotAccounted` needs `SlotInv` besides: what
  it says holds of the file a job was loaded from, whatever has become of that file
  since; `lastSlot` has come; and a run starts at its slot or later, so that
  after a restart the slots up to the last recorded one are covered by a run.
- *Conversation*. `ConversationInv` says that `told` has, for each branch in the log, its
  path in order, and of the log that what an event names is older than itself: a
  parent than its branch, the fork than the branch it makes, a message than its end,
  which for a user's message is the next event. `PathOf` is recursive over the tree,
  so that there is such a function comes first, by the least number principle.
  Then a branch has its own events and its parent's up to the fork (`SeenOnForked`);
  what is appended to one branch is seen on no other so far (`Grown`); and up to an
  event of a path, the path is that of the event's own branch (`SamePrefix`). The
  last one is what a fork needs: it is made from a message that the active branch may
  have from a branch further up, and takes that one as its parent. `DoKeeps` treats
  the appends of every step of a turn once, however many of them are recorded.

  That a request is right takes two more parts (`ConversationIInv`). `LogShape`: the
  message of a reply, its calls and its results are a group of neighbours on one
  branch, in this order; a reply begins after a complete message of the user; what
  follows a compaction's cut begins a message, and its summary holds what its branch
  tells up to there. `TurnShape` says where the turn is in that shape: in front of a
  request the last message of the path is complete, is the user's or made calls, and
  no cut goes past it. Both are needed together: an append extends the
  group that the turn knows to be open, and a fork leaves whole groups behind.

  `CompactionForgetsNothing` (`NothingForgotten`) follows from three facts. The last
  compaction of a path stands for the path up to its cut (`LastCompactionIs`); the
  summary and the events after the cut tell what the whole path does (`ContextTells`);
  and the messages built of a set of events hold what these tell (`BuildTells`).
  The next compaction is taken from messages built in the same way (`CompactedIs`).

  `RequestsAreValid` (`RequestValid`) follows `BuildMessages` through its three
  passes. What has been built before each event ends with the message of the last
  group, its calls, and results for the first of them (`BuiltShaped`); the flush
  answers the calls that have none (`MessagesGood`); and leaving out messages that
  say nothing takes no reply with calls from its results (`LeftIsValid`). That a
  context does not start with a reply comes from the cut (`ContextOpens`). The theorem
  is stated under `Named`, that is for a server that names its calls, and it has to
  be: `call_ids` shows it false otherwise. The two before hold for any server.

  What is recursive (`PathOf`, `InOrder`, `Built`) is a recursive function, and facts about
  it are proved by the least number principle: a first place where it fails has a
  place before it where it holds.
- *Webhooks*. The three invariants are inductive with four more: the queue holds
  runs that wait, each once; a row that failed is of a goroutine that is over;
  a process that is down has nothing; a limit that a request read is one the
  file had. `running` is the cardinality of the runs that hold a slot, which each
  step changes by the one element it adds or removes.

Only model-checked: every liveness property (`InterruptEnds`, `QueueMoves`,
`CloseEnds`, `EveryCallServed`, `RunsFinish`, `WaitersMove`, `CancelledCallsEnd`, and
the fairness part of `ShowsTheLog`), which is out of the prover's reach. Every
invariant that a passing run checks, and every action property, is stated by a
theorem.

## Plan

Done: Session, Limiter, Attach and EventLog, Scheduler, Webhooks, ModelCall and
Conversation, with their runs and theorems. What would come next, most important
first:

1. An abstract queue with one consumer, which Session implements but for the
   crash above, and an abstract job that runs each slot at most once.
2. `KvPool`: save, restore and discard of llama.cpp's caches against
   interrupted compactions (`llamacpp.go:354`).
3. `Server`: rebinding on a configuration change while requests drain.

## Not modelled

Parsing and formatting (schedules, hooks, GitHub payloads, configuration,
exports, the timeline), the texts of prompts, memory and skills, what tools do,
the model catalog, HTTP and TLS, the app's screens: they keep no state that
other parts race for, or they are input and output. Generated code and these
parts are most of the repository's lines, so the share of lines that the models
stand for stays small: the parts where order, failure and concurrency decide are
a few thousand lines, and a model of the rest would restate it.

Left out although they have something to get wrong:

- *Two processes on one data directory* are out of every module; the store's
  `last_seq` check is what stands between them (`store/store.go:627-633`).
- *Devices*: Lookup reads a device and caches it in two steps; a Revoke in between
  clears a cache that Lookup then fills again (`devices.go:153`), which the comment
  there does not consider. Three operations over one map; the reading settles it.
- *Worktrees*: SendMessage reads WorktreeRemoved before it takes the session's lock
  (`manager.go:395`, against `worktree.go:106-108`): the shape of `session_close`,
  over state that is git's.
- *llama.cpp caches*: a slot may be saved after it was discarded
  (`llamacpp.go:354`); the cost is a prompt that is read again.
- *Compact requests*: one that was accepted while a turn ran is dropped when that
  turn ends stuck or interrupted (`turn.go:78-81`). Session has the step; no text
  says what should become of it, so no property does.
