# milim: a TLA+ model of the control plane

milim is a local control plane for coding agents. A Rust server owns threads, runs, queued
turns, approvals and receipts; desktop and mobile clients send it commands and follow its
events; the server runs the agents. This directory holds TLA+ modules for the core of that
server (`src/crates/milim-server/src/control`, with the tables of
`src/crates/milim-storage/src/db.rs`), for the agent loop and the Workers it delegates to
(`src/crates/milim-agents`), and for the phone's replica of a thread (`src/apps/mobile`);
TLC configurations that check them on small instances, and TLAPS proofs of the most important
invariants for every size. `PROJECT.json` maps every definition to the lines it models and
lists runs, mutants, findings, the most important hazards and theorems.

## 1. Inventory

### Parts that are modelled

**Run manager** (`control/turns.rs`, `queue.rs`, `mod.rs`, `journal.rs`, `threads.rs`).
A thread has at most one active run. `RunManager.active` is its slot: run id, a stop channel,
and whether the run takes steers. Durable state is the thread row, `user_runs` and
`user_run_inbox` (queued turns, steers, injected context). Commands accept, queue, steer,
inject, move, delete, resume and stop; a run's task claims step inputs, ends, and calls
`finish_run`, which closes the record, turns unclaimed steers into queued turns, frees the
slot and starts the next turn. What is hard: commands and `finish_run` take the thread's lock,
while run tasks, `turn.stop`, `thread.delete` and `shutdown` do not; a task may panic anywhere,
also inside `finish_run`, and its guard then finishes the run again; start-up reconciles
whatever an exit left. Correct means: no two live runs of a thread, no input lost or run twice,
no steer or interruption left behind, no terminal status replaced, a stopped run frees its
thread, the queue drains.

**Linked threads** (`control/linked_threads.rs`). A run of one thread sends mail to another.
The mail is an exchange row plus a turn, a steer or a queued turn of the target; its run's final
message or failure becomes a receipt, which is projected into the origin's timeline and claimed
by a wait or by the origin's next turn. What is hard: the exchange and the row that carries it
are separate writes, the target's run answers without the target's lock, and exits fall
between. Correct means: mail runs once, is answered once, its receipt is seen once and
survives.

**Keyed locks** (`keyed_lock.rs`). A map from command or thread id to an async mutex, whose
entries vanish with their last lease. Correct means: one lock per key at any time, no leak, no
stranded waiter.

**Command intake** (`control/commands.rs`, `attachments.rs`, `mod.rs`, `routes/control.rs`).
Every command carries a client-made id. The server takes that id's lock, replays the durable
receipt if there is one, resolves uploads, asks for a confirmation of destructive commands,
applies the effect and writes the receipt. Restores of a backup exclude commands. What is hard:
retries that overlap, callers that go away in the middle (the handler's future is dropped while
its receipt is on the blocking pool), exits between effect and receipt, tokens and uploads that
are used once. Correct means: a command is applied once, its answer never changes, a token
clears one request, an upload survives until the receipt, a restore is not written over.

**Approvals** (`milim-agents/src/lib.rs`, `control/approvals.rs`, `approval_allowances.rs`,
the bridges). A tool call under review waits in the broker, has a durable row and a prompt in
the timeline, and is answered by a client, by an "Allow for this chat" rule, by a timeout or by
the end of the run. What is hard: `resolve_approval` takes no thread lock and awaits the
runtime between reading and writing the row; native calls, in-stream requests of bridges and
the HTTP gate each deliver in their own order. Correct means: a client is told applied only for
what the runtime received, nothing runs unapproved, a finished run leaves no prompt.

**Agent loop and journal** (`milim-agents/src/lib.rs`, `context.rs`, `control/journal.rs`). One
loop per run: check limits, rebuild the messages from the journal, compact them if the window
is full, ask the model with retries, run its calls, record each result. What is hard: the loop,
the compaction and the journal each keep the messages and a position of the user's request, and
they change together only by convention; five kinds of retry have counters of their own.
Correct means: every call in a request has its result next to it, the user's request is never
lost, the record is what happened, the loop ends.

**Workers** (`milim-agents/src/threads.rs`, `milim-server/src/threads.rs`,
`routes/agents/workers.rs`). A run of a parent thread delegates to Workers: rows in a store, tasks
in a map of handles, a timer for the whole run. What is hard: a stop takes the task first and marks
the row later, a refresh reads rows and writes the run's status, and handlers, timers, tasks,
shutdown and deletion do this at once without a common lock; a task may panic and a write of a row
fail. Correct means: no Worker reads running with nothing to end it, an end is final, no place of
the limit is lost.

**Timeline and replica** (`control/events.rs`, `routes/control.rs`, `apps/mobile/src/control`,
`useMilimController.ts`). Items are numbered in the store and announced over a bounded channel;
the phone merges live events with pages it asks for and keeps a cached tail per thread. What is
hard: announcements out of order, lag, answers that arrive after the person has gone to another
thread, requests that fail. Correct means: what is shown is an unbroken piece of the selected
thread's timeline, and in the end the newest.

### Parts that are not modelled

| part | state and operations | why |
|---|---|---|
| user decisions | questions and plans a turn answers | a table beside RunLifecycle's start path; their effect on the loop is in AgentLoop |
| thread documents, views, client state | JSON documents patched by commands | data; the read-modify-write is one place without protocol |
| run execution, native sessions, harness | provider streams and external sessions of a run | outcomes are in RunLifecycle, approvals in Approvals; the rest is conversion |
| scheduler | due times | calendar arithmetic; it then sends a turn |
| MCP client | connections and tokens of external servers | has control of its own and would be next |
| checkpoints, previews, sandbox, tools, skills | git, processes, files | I/O |
| inference backends, bridges, integrations | wire formats and external programs | I/O and conversion |
| memory, privacy, identity, configuration | text search, redaction, keys | pure data |
| desktop shell and client, pairing, site, evals | user interface, transport set-up, benchmarks | outside the core |

The full list with files is under `components` in `PROJECT.json`.

### How the parts meet

A client's command enters through `command` (CommandIntake), which takes the command's lock and for
most kinds the thread's lock (KeyedLock) and applies an operation of the run manager (RunLifecycle).
A run of one thread calls `linked_thread_send` and thereby starts, steers or queues a turn of
another (LinkedThreads); `launch_turn` and `finish_run` update exchanges on the way. Each module
keeps its own part of these shared procedures: RunLifecycle has all turns and no mail, LinkedThreads
has mail and reduces other turns to taking and giving back the slot, CommandIntake takes a command's
effect as one step. The task of a run drives `agent_loop` (AgentLoop); a call that needs review goes
through the broker to a person (Approvals, of which AgentLoop sees only the decision), and
`delegate_workers` starts a Worker Run (Workers). What all of them append to the timeline reaches
the phone through Replica. CommandIntake uses the lock through `KeyedMutex`, the abstract lock that
KeyedLock is shown to implement.

## 2. Modules

| module | what it is |
|---|---|
| `RunLifecycle` | threads, runs, inbox, slots, lock holders, run tasks, shutdown, restart |
| `RunLifecycleProofs` | types, slot ownership, working tasks, terminal statuses; steers, interruptions, hand-over, claims |
| `LinkedThreads` | mail between an origin and a target thread |
| `LinkedThreadsProofs` | types, hand-over, coming answers, receipts |
| `KeyedMutex` | abstract: one lock per key |
| `KeyedLock` | the map of reference-counted locks; implements `KeyedMutex` |
| `KeyedLockProofs` | exclusion, no leak, refinement |
| `OneReceipt` | abstract: a command and its receipt are one step, and every request hears of it alike |
| `CommandIntake` | receipts, confirmations, uploads, restore admission; implements `OneReceipt` |
| `CommandIntakeProofs` | durable answers, single application, restored data, tokens, uploads, refinement |
| `OneDecision` | abstract: a call is decided at most once and hears that once |
| `Approvals` | broker, approval rows, `approval.resolve`, rules, the end of the run; implements `OneDecision` |
| `ApprovalsProofs` | applied means received, authorised runs, nothing open after a run, refinement |
| `AgentLoop` | the tool loop of a run, compaction, and the journal of its steps |
| `AgentLoopProofs` | pairing, the request's place, ledger, notes, recorded results |
| `Workers` | Worker Runs: store, tasks, handles, timers, shutdown, restart |
| `WorkersProofs` | types and the limit, handles, running Workers, final statuses |
| `Replica` | timeline, event channel and socket, and the phone's controller |
| `ReplicaProofs` | unbroken pieces, the selected thread, no gaps between pages |
| `MC...` | instances and symmetry sets for TLC (and, for the locks, a check that there are enough of them) |

### RunLifecycle

`exists`, `runs`, `inbox`, `before` are durable; `before` is the order that
`COALESCE(sort_key, created_at)` gives the rows. `active`, `queue_interrupts` are fields of
`RunManager`. `op[t]` is the holder of a thread's lock and where it is: `start`, `record`,
`project` in `start_turn`/`launch_turn`; `finish`, `retarget`, `release`, `next` in `finish_run`.
`task[r]` is a run's task, `guarding` its `RunTaskGuard`. `deleting` and `closing` are
`thread.delete` between check and commit, and `shutdown`. `held[r]` are the inputs a step of the
run has claimed and not yet sent. History: `delivered`, `lost` (what an exit or the end of the
step kept from any run) and `stranded` (interruptions that a panic in `finish_run` left behind).

A command that holds the lock throughout and meets nobody in between is one action (`SendTurn`,
`EnqueueTurn`, `SteerTurn`, `InjectContext`, `MoveQueuedTurn`, `DeleteQueuedTurn`,
`DeleteInboxInput`, `InterruptForQueued`). Starting a turn is split: `ResumeQueuedTurn` or
`SendTurn`, `ReserveSlot`, `RecordRun`, `LaunchRun`, with `StartRejected` and `LaunchFailed` as the
error paths (a queued turn is queued again by `StartFailed`). Finishing is `EndRun`, `BeginFinish`,
`FinishRecord`, `FinishRetarget`, `FinishRelease`, `FinishStartNext`; `FinishPanics` may replace
each of its steps. The slot is released before the interruption is taken, so that after a panic
between the two the guard finishes a run whose slot is empty or the next run's, which
`FinishRelease` leaves alone. A step first claims its inputs (`ClaimStepInputs`) and then sends them
(`DeliverStepInputs`); one that fails in between keeps them from every run (`DropStepInputs`).
`Restart` is an exit at any point followed by `reconcile_control_startup`.

### LinkedThreads

`mail` is `user_thread_mailbox`, `row` the inbox row of a message, `runs` the target's run statuses;
`slot`, `op`, `task` are the target's slot, lock holder and run tasks; `origin` is the origin
thread's run and the receipts in its hands; `posting` are receipts whose projection is still to be
written. `op.copy` is the exchange as the lock holder built it, which is how a stale copy can
overwrite a newer row. A run's end and the answer to its mail are separate writes: `FinishRecord`,
then `FinishFail` for one exchange after the other, and `FinishFailed`; the same for a start that
fails, `LaunchFailed` and then `StartUndone`. The rest is history: `handed`, `seen`, `receipts` (how
many an exchange has had), `shown` (which of them are in the timeline, by number), `dropped`,
`reopened`.

### KeyedLock and KeyedMutex

`entry` is the map, `lease` each caller's key and clone, `owner` who is inside each lock object.
Locks are objects: two of them made for one key do not exclude each other. `Acquire` and
`Release` are the two places that hold the map's own mutex. The refinement mapping reads the
holder of a key from the owner of its current entry, and sees a caller as gone once its guard is
dropped.

### CommandIntake

A request is one call of `command`; its states are the awaits of that function. `writes` are
receipts handed to the blocking pool, which are written even if their request is dropped.
`grant` is the token waiting for a destructive command, `upload` the uploads in memory, `fence`
the restore lock. `Apply` is the effect, with a result that is ok or failed; `DropRequest` a
caller that goes away at any await; `Exit` the process.

`OneReceipt` is the promise to a client: `Do` is effect and receipt in one step, `Tell` what a
request hears of it. `Tear` marks the commands whose request or process went between the two, and
only those are done again, or change their outcome, as long as nobody was told; `Restore` forgets
everything and stops the doing until the process starts again. The mapping takes an outcome from
the receipt or, before it is written, from the request that writes it inside the command's lock,
so that `Apply` is the `Do` and `WriteReceipt` a stutter; `Replay` and `Reply` are the `Tell`, and
a dropped caller, an exit and the receipt of a request that is gone are a `Tear`.

### Approvals

`entry` is `ToolApprovalBroker.pending`, with the oneshot channel in `chan`; `task` is the
runtime's side of a call and `got` what it received; `ctl` is the event handler of
`run_agent`/`run_harness`; `row` and `shown` are the durable row and the last timeline item;
`client` are `approval.resolve` commands, with the rules they loaded in `snap`. A call's path is
native (`Receive`, `DeliverNative`, `AcknowledgeNative`, `Execute`, and `TimeOut`, `Expire`),
bridge (`Respond` before `DeliverBridge`) or gate (`DeliverGate`, which checks the delivery).
`Resolve`, `Decided` and `Transition` are the broker's own functions. `Stop` or `Drain`, `CancelRows`
and `CancelAnnounce` are the end of the run: `Stop` where the stream is dropped, `Drain` where a
terminal event of an account runtime hands it to a task that reads on (`drain`) until `Drained`.
With the stream goes its lease, which fails the requests of the gate, unless it knows no run
(`LeaseDropped`); while it is drained they stay open until `CancelAnnounce`, and one that is
answered meanwhile may still run. `Ask` to `EmitResolved` the steps of `resolve_approval`,
cut where it awaits or where it touches shared state.

`OneDecision` is what all of this amounts to for one call: `Decide`, then `Hear` or `Refuse`, then
perhaps `Run`, and `Tell` for the clients; `Exit` forgets what was decided and not heard. The
mapping takes the decision from the broker's entry, also a failed one's; what was heard from
`got`; and what a client was told from the commands that reached `applied`. A time-out that a
decision overtakes is a `Refuse` after a `Decide`; most steps, rules and rows included, are
stutters. Decisions are not durable, so a restart is the `Exit`, after which nothing is decided
or heard any more.

### AgentLoop

`msgs`, `anchor`, `notes` are the loop's locals of these names, `request` the variables of its inner
retry loops, `calls` the prepared calls of a step, `denied` the `RepeatTracker`; `index` and `sent`
are the journal's request index, which the first step finds, and its ledger of the latest step. A
message is its kind, step and call number: enough to say whether calls and results belong together.
`Tick` is the time limit, which may strike before any check; how full the window is, replies, hook
verdicts and persons are inputs. `Compactions`, with `Prunable`, `Recents`, `Span`, `Summarised`, is
`context.rs` as functions on sequences (`Picked` is the filter by position that `retain` and
`filter` are there); `Rebuilt` and `TurnMessages` are what the journal gives to the next step and to
later turns.

### Workers

`run`, `row`, `of` are the tables; `task`, `val` a Worker's tokio task and the status it is about to
write; `handles` is `ThreadSupervisor.handles` and `aborted` tasks whose abort is still to take
effect. A caller is any handler, tool call or timer; its `pc` says which store call is next, so that
two of them interleave as the code's two lock acquisitions do. A Worker's row is queued and then
running within `Spawn`; `SpawnFails`, `FinishFails`, `StopRowFails`, `DeleteTreeRowsFail`,
`ShutdownRowsFail` and the second half of `Restart` are the same steps with a store that fails, and
`Panic` is a panic of what the stream runs. `panicked` and `unwritten` remember whom they hit. A
stop is `StopTake`, `StopRow`, `CallerRead`, `CallerWrite` per Worker and `StopMark` at the end.

### Replica

`len` is each thread's timeline, `unsent`, `channel`, `lagged`, `socket` the way of an event to
the phone; `sel`, `shown`, `buffer`, `asked`, `saving`, `key`, `cache` are the refs of
`useMilimController` and the cached tails. An item is its number. A request remembers the
replica it will be merged into (`base`), because `refreshTimeline` reads it before its await.
`ApplyTimelinePage` and `ApplyEvent` are the functions of `replica.ts`, and `ApplyEvents` is the
loop of a frame over the buffered events.

## 3. Runs

| run | instance | shows |
|---|---|---|
| `lifecycle_safety` | 1 thread, 2 runs, 3 inputs | slot, working tasks, steer, interruption, hand-over, terminal status |
| `lifecycle_liveness` | 1 thread, 2 runs, 2 inputs | a stopped run frees its thread |
| `mailbox_safety` | 2 messages, 2 + 2 runs, 2 restarts | one hand-over per message, open exchanges have an answer coming; receipts stay, reach the timeline and have one reader |
| `keyed_lock` | 2 keys, 4 callers, 4 locks | refinement (and with it exclusion), no leak, waiters are served |
| `intake` | 2 commands, 3 requests, 3 tokens, 1 exit | single application, durable answers, tokens, uploads, restore; admitted requests end; implements `OneReceipt` |
| `approvals` | 2 calls, 2 clients, 2 rules, cap of 1 rule, 1 revocation, 1 restart | told applied means received; nothing runs unapproved; nothing open after the run; refinement |
| `replica` | 2 threads of 3 and 1 items, 2 appends, channel of 1, 1 action of the person, 1 fault | an unbroken piece of the selected thread, shown and cached |
| `agent_loop` | 3 model steps, 2 calls then 1, one retry, recovery and continuation | pairing, request, ledger, notes, recorded results; the loop ends |
| `workers` | 1 run of 2 Workers, 2 callers, 2 operations, 1 restart, 1 fault | running has a task, ends are final, handles are live |

Each takes less than five minutes with two workers; the largest are `workers` (5.6 million
states), `mailbox_safety` (2.9 million) and `approvals` (2.6 million).

The bounds are chosen so that the interesting case happens. Threads share nothing in RunLifecycle
but ids and shutdown, so one thread with two runs has every race of a run with its successor, and
three inputs are one that runs, one that interrupts it or is claimed by it, and one that waits; the
proofs cover any number of threads and runs. A message needs a first run to be steered into and a
second for its follow-up, two messages share a run's end, and two origin runs are one that waits and
one that claims. The second exit meets what the first one left: mail that an exit between a run's
record and its retargeting put back in the queue, claimed and in a start's hands. Four lock callers
allow one to leave while one waits and a third creates the entry anew. Three requests are an
original that may be dropped, a retry and a bystander; a third token lets an expired one be replaced
twice. Two approvals are what a step needs for one to be answered while the other waits, and for a
rule that one of them creates to answer the other; a cap of one rule makes a second rule evict the
first; calls with a rule in common, with two rules and with none are all initial states. In
AgentLoop two calls in the first step and one in each later one let results age, be elided and be
summarised while the request is still in the window; the retention constants are smaller than the
code's for the same reason. Two Workers and two callers give every pair of stop, finish, refresh,
delete and spawn, and one panic or failed write meets each of them. Two Workers never meet the limit
of two: that it holds is proved, and the run is about the handles it counts. In Replica the longer
thread is longer than a tail, so that there is something before and after a page.

`TypeOK` is part of every proved invariant and no run repeats it. Exclusion of the keyed locks is
proved and follows from the refinement, so that its run does not repeat it. Every inductive
invariant of section 4 was an invariant of its module's run before it was proved; the configurations
keep the properties.

`EnoughLocks` in `MCKeyedLock` makes sure that a caller always finds an unused lock object.

Fresh ids run out in LinkedThreads and CommandIntake, a run ends in Approvals and AgentLoop, and
what persons and faults may do is bounded in Workers and Replica, so their runs allow TLC's
deadlock; in the others there is always a next step and deadlock is checked.

### Disagreements with what the code and docs say

Three runs check a sentence of the repository and find it violated. Each finding in
`PROJECT.json` quotes the sentence.

| run | what happens |
|---|---|
| `lifecycle_drain` | interrupt for a queued turn, delete that turn, end of the run: the rest of the queue is not started |
| `mailbox_stale` | the sender's second write puts a replied exchange back to running |
| `replica_stale` | a thread selected while another's refresh runs gets none: the phone stays on an old tail |

The models contain further disagreements that have no run of their own; each was seen as a
counterexample of the sentence or is a short path through the named actions.

- Mail: deleting a queued mailbox turn leaves its sender without a receipt; a restart reports a
  failure for mail whose turn it keeps, which then runs and reports again, and the second report
  never reaches the timeline, as `project_mailbox_reply` returns for an exchange that was projected
  once (`src/crates/milim-server/src/control/linked_threads.rs:645`); a failed launch consumes
  receipts nobody saw (`Unclaimed`, then `StartFailed`). An exit between an exchange and its inbox
  row leaves it queued for ever, and one between the record of a run's end and the receipts of its
  mail leaves that running for ever (`FinishRecord`, then an exit before `FinishFail`; the same
  after `LaunchFailed`), as start-up answers the mail of the runs it interrupts only. The exchange
  is stored before its steer row, so the live run's final message can answer mail that is delivered
  only afterwards (`RunReplies` between `SendPut` and `SendDeliver`).
- Run manager: a panic of `finish_run` between the release of the slot and the interruption leaves
  the interruption behind, where it decides which turn the next run's end starts, and the queue is
  not drained, although `RunTaskGuard` is there so that a dead run never leaves its queue stuck.
- Agent loop: of two identical calls in one step each is prepared before either is observed
  (`src/crates/milim-agents/src/lib.rs:1558`, `:1705`), so that one may be denied and its twin
  approved and run, although "a denied call is never run or sent for approval again in this run"
  (`src/crates/milim-agents/src/repeats.rs:53-54`). Later steps do refuse it.
- Commands: a connection closed, or an exit, between a command's effect and its receipt lets the
  retry apply it again (`DropRequest`, `Exit`; the docs promise that a resend does not duplicate
  work, `src/docs/wiki/voice-media-mobile.md:78`).
- Approvals: when the 15 seconds of `wait_for_delivery` end at the wrong moment the client is told
  of a failure while a native or bridge call still runs, since the loop ignores what `deliver()`
  returns and the bridges answer their process first (only the HTTP gate checks it). A resolve whose
  write comes after the run's end turns a cancelled row into approved. `record` and `revoke` save
  lists they loaded earlier, so a revoked rule may return. An exit between the cancelled rows and
  their timeline items leaves prompts open, as start-up looks for pending rows only. While the
  stream of an account runtime is drained after the run's end, a request at the gate can be
  answered, and run, until the end of the run announces it cancelled.
- Workers: if the first Worker ends before the second is spawned, a refresh marks the run done and a
  timer that reads this stops nothing, although the comment above `schedule_worker_run_deadline`
  says that the limit also holds when whoever started the Workers stops waiting. A start that is
  refused in the middle leaves its run running without a timer; two starts of one proposed run both
  spawn; a stop of a run replaces done or partial by stopped; a run that reads done may be deleted
  under a Worker that is still working, whose task then goes on without a row and outside the limit
  per parent; of two refreshes the older may write last, which the next wait repairs. A panic of a
  Worker's task leaves its handle and its running row until somebody stops it or the time limit
  does; a store error leaves the row alone (`Err(_) => return` at the end of a Worker, `?` in a stop
  or a start), after which a running row may have no task and no handle.
- Replica: the refresh of a new connection is asked for before its socket listens; a failed tail
  refresh leaves its flag set, so that no later event asks again; an event that is the first item
  of an empty replica says nothing about older ones, so that they cannot be loaded.

The passing properties say exactly how far the guarantees go in spite of these: `AnswerIsComing`
excepts the mail of `dropped` (a queued turn that was deleted, mail that an exit took from the hands
of whoever was delivering, starting or answering it, and a stale copy that put a receipt back to
running), `ReceiptReachesTimeline` that of `reopened` (worked on again after a receipt was
projected), `AppliedOnce` the commands of `orphaned`, `ClaimedInputsAccountedFor` the inputs of
`lost` (an exit between the claim of a queued turn and its run record, or the end of a step between
the claim of its inputs and its request), `InterruptStopsActiveRun` the threads of `stranded`,
`HandlesAreLive` and `RunningHasTask` the Workers of `panicked` (only as long as they have a handle,
for the second), and `RunningHasTask` those of `unwritten`. These sets are history variables and
grow in those steps only.

### Fairness

`lifecycle_liveness` assumes: a tokio mutex hands itself over in order, so `finish_run` gets the
thread lock even while commands keep taking it (strong fairness of `BeginFinish`); the holder of a
thread lock awaits nothing but the store (weak fairness of its steps); a spawned task is polled, and
one whose stop channel fired leaves its select loop (weak fairness). Nothing is assumed of runs that
are not stopped, of clients, of restarts or of panics. `agent_loop` assumes that the task that
drives the loop is polled and that every provider call, tool and hook it awaits returns or fails
(provider calls and hooks have timeouts, tools are assumed to end); a person need not decide, and
the time limit need not strike. `keyed_lock` assumes that work inside the lock ends and that waiters
are served in order. `intake` assumes that requests are polled while their caller is there, that the
blocking pool runs its jobs, and FIFO command locks.

## 4. Proofs

All are for arbitrary constants. What is assumed of them are the named `ASSUME`s of the modules,
which TLC evaluates on every run: null values are not members of the sets they stand beside, some
constant sets include others, limits are numbers. No theorem assumes that a set of threads, runs,
messages, commands or Workers is finite. Each proof has the same form: an inductive invariant,
one lemma per action (or per part of the invariant, with one step per action), and theorems that
read their property off the invariant.

### RunLifecycle

`RunLifecycleProofs`. `TypeCorrect` is more than bookkeeping: that `start` always has a real input
in hand needs `NextTurns` to check that the interrupting item is still queued. `SlotOwnership`,
`WorkersHoldTheirSlot`, `RunHoldsOneSlot`, `TerminalStatusStays`: `SlotOwnsUnfinishedRun` is not
inductive, because a run record does not say who will close it. `SlotInv` adds that the lock holder
that starts a run holds its slot and the run has no task yet; that a working task holds its thread's
slot, and one that is ending has lost it only with its record closed, which is where a second finish
after a panic meets the next run; that a taken slot has such a starter or such a task; that no run
holds two slots; and that past `FinishRecord` the record is closed. There is one lemma per action
that touches these, in two layers: the action's effect on the slot's variables, then each conjunct.
Terminal statuses follow from the same invariant.

The second half of the module is about the inbox: `SteersReachLiveRun`, `InterruptionsStop`,
`InputsGoToOneRun`, `ClaimsAreAccountedFor`. `InboxInv` rests on `SlotInv` and adds what follows.
A pending row was handed to no run, and the input in a lock holder's hands is in nobody else's
(`RowInv`, `HandInv`): without this an input could be handed over twice. The record of a run names
the input it was started with, from the moment it is written (`RunInputInv`). While a steer is
pending the lock holder neither fills its slot nor is about to empty it (`SteerInv`); the same for
an interruption (`InterruptInv`). And what a step has claimed is in the hands of one running task
and in no row, record or other hand (`HeldInv`).

### LinkedThreads

`LinkedThreadsProofs`: `LinkedTyped`, `MailGoesToOneRun`, `MailGetsItsAnswer`, `ReceiptIsPosted`,
`ReceiptGoesToOneRun`, `ReceiptsStayFinal`. A message is in several places at once (exchange, inbox
row, the copy in the holder's hands, a run), so `LinkedInv` says how they agree: it waits in its row
or in hand as long as no run has it (`HandInv`); a receipt that reads as projected is in the
timeline, by its number and not only by its mail, and one that is not has a writer who will put it
there, unless the exchange was reopened (`PostInv`); while it is being posted nobody can write the
next receipt of its mail (`WriterInv`), since the only other writer is a run that is over or not yet
at its end (`DoneStays`, `WriterStep`); who got the receipt an exchange holds now is its origin and
took it from everyone else (`SeenInv`); the lock holder's view of run records and tasks (`RunInv`);
row, copy and exchange name the same target (`ShapeInv`). `AnswerInv` strengthens `AnswerIsComing`:
the run an exchange waits for has not passed the point after which it answers no more, which for a
run that failed comes after the last `FinishFail`. Otherwise the last step of a run could leave an
exchange behind.

This proof corrected the model. `Restart` used to leave out of `dropped` any mail that was
running when the process went; with two exits this is wrong. A run's end is recorded, the process
exits before the run's mail is given another target, start-up queues the message again with its old
target, a start claims it, and a second exit takes it from the start's hands: nothing answers it.
`dropped` now has all mail in hand that start-up does not answer itself (`CutOff`), and the run has
two exits.

### CommandIntake and KeyedLock

`KeyedLockProofs`: `KeyedLockExcludes`, `NoEntryLeaks`, `KeyedLockRefines`. The key fact is that
a lease always points to its key's current entry (`LeaseIsCurrent`): an entry goes only with its
last lease. With distinct entries per key and owners that are inside, exclusion follows, and
each step maps to a step of `KeyedMutex` or to a stutter.

`CommandIntakeProofs`: `AnswersAreDurable`, `CommandsApplyOnce`, `RestoredDataIsKept`,
`TokensClearOnce`, `UploadsAreKept` and `IntakeRefines`. `IntakeInv` adds that a request inside the
command lock holds it; that one cleared to apply has neither effect nor receipt, unless its command
is orphaned; that an effect has a receipt or a writer inside the lock; and that a receipt on the
blocking pool belongs to such a writer or to an orphaned command. For tokens it keeps their history
(`TokenInv`): every one pending or spent was issued, for one command only, and a spent one is
pending nowhere, so that a token of a command that asked again cannot come back.

`IntakeRefines` maps every step to one of `OneReceipt` or to a stutter, from `IntakeInv` alone.
The command's lock makes the writer of a receipt unique (`OneWriter`), so that the outcome has a
definite value before the receipt is written (`OutcomeShape`) and keeps it while it is. A late
receipt of a request that is gone may settle or replace an outcome, and a drop or an exit may take
it away: each has to show that the command was torn and that nobody was told (`Unheard`), which
follows from the durable answers.

### Approvals

`ApprovalsProofs`: `AppliedWasReceived`, `RunsAreAuthorised`, `FinishedRunIsClosed` and
`ApprovalsRefine`. `ApprovalsInv` has five parts. `EntryInv` relates the broker's state, its channel
and the task that asked: an entry is decided once, and whoever took the decision from the channel
has the one the entry holds. `ClientInv`: a command that waits does so on an entry decided its way,
and past the wait the runtime has received that decision. It holds across a timeout, which fails the
entry but does not undo the decision. `GrantInv`: every decision to run, and every rule that is
loaded, saved or about to be, goes back to a person. The rules need the snapshots of all commands
and of the revocation, since each of them may be written later. `RowInv`: when a run has ended its
handler is at rest, and a row its end cancelled reads open only until it is announced. `ClosedInv`:
until then, and no longer, such a request may still await an answer, which matters while the stream
is drained. `LeaseEffect`, `LeaveEffect` and `DrainedEffect` say once what the end of a stream does
to an entry. `RanIsAuthorised` became stronger on the way: a command that was refused because of a
conflict no longer counts as an approval.

`ApprovalsRefine` maps every step to one of `OneDecision` or to a stutter. `ReviewInv` adds to
`ApprovalsInv` what the guards of the abstract steps need: a call that still waits received nothing,
an entry that is not decided holds no decision, and one whose channel has a value holds an answer
(`ReviewCall`); after an exit no entry, no task, no command and no drain is at work (`GoneInv`). The
lemmas `ReviewDecides`, `ReviewHears`, `ReviewRuns`, `ReviewTells` and `ReviewStutters` say once
when a step looks like which abstract one; `AfterExit` shows that what still happens after an exit
is not seen at all. The end of a run is the only step that lets several calls run at once: those a
bridge has answered and nobody acknowledged, so that `Run` takes a set.

### Workers

`WorkersProofs`: `WorkersTyped`, `HandlesStayLive`, `RunningWorkersEnd`, `EndedWorkersStay`.
`TypeOK` holds the limit on active Workers, which needs finitely many handles. `WorkersInv` adds
that no task has a handle and an abort pending and that one that panicked is gone
(`HandlesAreOwned`), so that an abort never takes a task from someone who still counts on it, and
that an open row has somebody to end it (`OpenAreWatched`): its task, a handle by which a stop finds
it after a panic, a caller about to write the row, or a failed write that has been counted.
`EndedStays` follows from what `UpdateRow` does to each row.

### AgentLoop

`AgentLoopProofs`: `LoopTyped`, `RequestsAnswered`, `RequestKept`, `LedgerExact`, `NotesSent`,
`RanRecorded`, for any number of steps and calls and any retention limits.

- Sequences. `Answered` is not kept by cutting a sequence, since a result may point back to a call
  it does not belong to; `Sound` adds that a result's number is one of its call's. A sound sequence
  can be cut before any message that is no result and sound ones can be joined (`Cut`, `Join`);
  elision only turns results into stubs (`ElisionKeeps`). What `Summarised` builds is such a
  composition, of up to five pieces, with the request among them (`OlderSummarised`,
  `RunSummarised`): the positions `Plans` chooses are starts of turns (`PlanKeeps`), so
  `CompactionKeeps` gives both pairing and the request's new position, for loop and journal alike.
- The ledger. `SentInv` says what a recorded step may look like: a request, then one reply, then the
  results of its first calls, so that closing the open calls for later turns is sound wherever a
  stop leaves it (`LedgerAnswered`). `LedgerInv` says for each place in the loop how `msgs` and
  `sent` differ, ending in `LedgerIsExact` at the next step; `AnchorInv` that both know the same
  position of the request, which the journal does from the first step on.
- Control. `CallInv` has the calls in their order: none is recorded before its predecessors, and
  those waiting for a verdict were not denied before. `NoteInv` follows a note from the queue to the
  end of the request; `CountInv` has the retry and step counters.

`Kept`, `Images`, `TurnMessages` and `EndStep` pick messages with `Picked`, by position, instead of
`SelectSeq`, which is defined by recursion and says nothing to a prover; Approvals' `RevokeLoad`
uses `Retained` for the same reason. The runs have the same states as before.

### Replica

`ReplicaProofs`: `PiecesShown`, `SelectedShown`, `PagesLeaveNoGap`, and the types with
`ReplicaTyped`. `ReplicaInv` says where a piece can come from. `EventInv`: every event that is
still to be announced, in the channel or in the frame's buffer is about an item that exists.
`ViewInv` and `StoreInv`: what is shown, about to be saved or cached is a piece of its own thread,
and what is shown once the cache was read is of the selected one. `AskedInv` is
the heart: a request remembers the replica it started from and the position it asks for, so the
page it gets adjoins that replica, however many events, switches and reconnects come before
the answer is merged. The lemmas about the operators come first: intervals and their newest
and oldest items, pieces that adjoin (`PiecesJoin`), what one event does (`EventKeeps`), what a
merged page does (`MergeKeeps`). A frame applies its events by a recursive function; that this
function exists is proved by well-foundedness (`StepsExist`), and `EventsKeep` carries a piece
through it. It was a fold over the sequence before, which the provers could not unfold, and the
items had a bound that only TLC needed.

`PagesLeaveNoGap` says something about the code: `applyTimelinePage` throws the replica away and
asks for the tail again if a page leaves a gap after it, and against a host that loses no items,
as here, that never happens.

### Only model-checked

Every liveness property (of `lifecycle_liveness`, `keyed_lock`, `intake` and `agent_loop`) is
model-checked only, as liveness under fairness is out of the prover's reach. All invariants, action
properties and refinements of the passing runs are proved.

## 5. What the models leave out

- Writes whose error the code ignores (`let _ = ...`) succeed, but for those of the Workers' rows.
  Store errors happen where the code returns them on the way to a started run, and in Workers.
- Sort keys are an order; two rows of the same millisecond are not.
- RunLifecycle has no panic inside a command's start path, nor in the start that ends `finish_run`,
  and no re-creation of a deleted thread id. The first read and write of a run's task are one step.
- LinkedThreads has one origin and one target, no deletion of the origin and no archived target.
  Reading and answering one exchange in `complete_mailbox_exchange` are one step, as are read and
  mark of a wait. The limit of 20 receipts per claim and the order of the queue are left out.
- CommandIntake takes an effect as atomic, so a caller that goes away inside `apply_command`
  is not in it. The write of a receipt does not fail, receipts are not pruned (30 days), upload
  limits and metadata checks are one outcome, and a conflict counts as failed. The restored
  backup is an empty profile, and the check that no run is active is left to the environment.
- Approvals has one run, rules match by key and not by prefix, and a broker's notices are read
  or lost but not counted. Requests that answer questions are not in it. The calls of a run are
  those of one model step. A revocation and the deletion of the thread are not told apart. A request
  made at the gate while the stream is drained is left out, as it has no row and nobody can answer
  it, and so is a process that hangs up on its gate.
- AgentLoop leaves out what a message says, and with it token counts, prices and the repeat
  warnings added to results; how full the window is may be anything at each request. The
  response of a step is committed with the calls it makes or not at all. One steer or injected
  context is claimed per run. The ledger keeps the latest step only, which is what the rebuild
  reads.
- Workers has one parent thread, Workers without worktrees and without events, and no run that
  continues solo. A caller that goes away does so while a worktree is prepared. Writes of the run's
  own status succeed, and a panic strikes only what a Worker's stream runs.
- Replica has one host, threads that are never deleted, and one life of the server: a restored
  backup, which keeps the epoch with smaller numbers, is not in it. A page arrives whole.
  Bootstrap's choice of another thread, drafts and commands are left out.

### Not modelled

What remains outside is I/O (git, files, processes, external services), conversion between wire
formats, user interface, or tables without a protocol; the table in section 1 gives the reason
for each. It is most of the repository by lines. Control that a later model could still
take up: connections and tokens of the MCP client, user decisions, native sessions of account
runtimes.

## 6. Plan

1. What Workers promise, as a small abstract specification: a Worker is started once, and its
   end is written once and stays.
2. LinkedThreads over an abstract run manager, so that the slot protocol it repeats is shown to
   be the one of RunLifecycle.
3. Models, if a run can be freed for them: MCP connections, user decisions.
