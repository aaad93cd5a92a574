# A verification development of omp's agent core

TLA+ models of the parts of omp (the coding agent of this repository) in which
several things happen at once: the execution of a batch of tool calls, the
queues of messages that the user sends to a running agent, background
jobs and the delivery of their results, the concurrency limits on provider requests
and subagents, the lifecycle of a subagent that is parked and revived, and the session
file that several terminals write. TLC checks the models on small instances and TLAPS
proves their main properties for all instances.

Most of this code is single-threaded TypeScript on an event loop. What makes it hard
is what may run between two awaits: callbacks, timers, aborts, other tool calls, the
user. **A step of these models is the code between two awaits**; whatever can run at an
await is another action. The session file is different: its writers are processes, so
in `PublishLock` and `SessionFile` **a step is one system call**, and a process may die
before any of them.

## 1. Inventory

Paths are relative to `src/packages/` (`agent/` is the agent loop library,
`coding-agent/` the application).

| Component | State | Operations | Hard behaviour | What makes it correct |
|---|---|---|---|---|
| **Tool batch** `agent/src/agent-loop.ts` (`executeToolCalls`), `agent/src/pause.ts` | per-call record, `lastExclusive`/`sharedTasks`, interrupt state and three abort controllers, watcher loop, poll timer, pause gate | schedule, `runTool`, `checkSteering`, `checkIrcInterrupts`, `emitToolResult`, tail sweep; pause/resume | tools, steering, peer interrupts, aborts, pauses and failing callbacks interleave | exclusive calls alone and in order; exactly one truthful result per call; interrupts cancel waits and nothing else; an interrupted batch ends |
| **Turn loop** `agent-loop.ts` (`runLoopBody`) | messages, step count | stream a turn, run its batch, dequeue at boundaries | retries, aborts at any await | every turn ends with a well-formed context |
| **Agent queues** `agent/src/agent.ts`, idle drain in `session/agent-session.ts` | steering and follow-up queues, claims, deliveries, current run | `steer`, `followUp`, prepare, restore, `prompt`, `continue`, `abort`, `reset`, withdrawals, drain | asynchronous preparation, superseded runs, a drain that may not run | no queued message is lost, doubled, reordered or stranded |
| **Background jobs** `coding-agent/src/async/job-manager.ts` | rows by job id, queued and in-flight deliveries, marks and timers by id, delivery loop | `register`, `cancel`, `watchJobs`, `acknowledgeDeliveries`, `consumeJobResults`, `resumeDeliveries`, eviction, delivery with retries, dispose | result delivery races consumption, retention, id reuse | each result reaches the model once |
| **Result delivery** `coding-agent/src/session/agent-session.ts`, `session/yield-queue.ts` | delivery epoch, parked entries with receipts | the sink, `flush`, `drainLazy`, `clear`, `#cancelOwnAsyncJobs` | the session is replaced during an await | a result stays in its own transcript |
| **Foreground consumers** `tools/hub/`, `tools/bash.ts`, `async/auto-background.ts` | the running call and the jobs it holds | hub jobs, wait, cancel; foreground wait and hand-off | a message, the window, a steer and the job end the same wait | no result falls between the consumer and the queue |
| **Concurrency limits** `task/parallel.ts`, `task/provider-concurrency.ts`, `task/index.ts` | `#max`, `#current`, `#queue` | `acquire`, `release`, `resize`, abort of a waiter | resizes and aborts under load | exact count, no admission above the cap, no waiter beside a free slot, FIFO |
| **Agent lifecycle** `registry/agent-lifecycle.ts`, `registry/agent-registry.ts`, `task/executor.ts` (finalize, reviver) | refs with status and session, `#adopted` with its timers, `#parks`, `#revivals` | `adopt`, `park`, `ensureLive`, `release`, kill, `reclaimDeadCorpse`, restore, `dispose` | park, revival, release and replacement of the id race at every await | no caller is given a disposing session, no live session is lost, an idle agent is parked |
| **Inter-agent messages** `irc/bus.ts` | mailboxes, waiters | `send`, `wait`, `drain` | delivery races the lifecycle | a message is received once |
| **Subagents** `task/` | work pools, isolated worktrees, executor | spawn, run, merge | nested spawns, aborts | permits returned, work merged once |
| **Speculation** `agent/src/speculative-execution.ts`, `speculation/` | speculative outcomes | start, claim, discard | claim races the batch | an outcome is used once, only for its own call |
| **Session storage** `session/session-manager.ts`, `session-storage.ts`, `session-listing.ts`, `crates/pi-natives/src/file_lock/mod.rs` | the file, its `.bak` names, the lock file and OS gate; per manager `#entries`, `#expectedDiskSize`, `#diskEpoch`, fence, failure latch, append descriptor | append, `flushSync`, `#rewriteAtomically`, `#withPublishLock`, recovery of backups | several processes, any of which dies between two system calls; an append supersedes a running rewrite | a line that was acknowledged is in the file, once and in order; one process in the publish region |
| **Recovery, compaction** `session/` | retry state, cut points | recover, compact, branch | provider failures | a resumed session is well formed |
| **Protocol clients** `mcp/`, `lsp/`, `dap/`, `launch/`, `subprocess/` | connections, pending requests | connect, call, restart | late answers, restarts | each request is answered once |
| **Everything else** | TUI, web UI, providers, catalog, statistics, memory, native crates, Python clients | | | rendering, conversions, algorithms |

How they interact: the turn loop runs a batch; a tool may register a background job
and hold it in the foreground; the host queues steers (which interrupt the batch
through the watcher); the job manager hands results to the session's sink, which parks
them on the yield queue until a step boundary or idleness injects them into the context;
subagent spawns take a permit of the spawn semaphore, and every provider request one of
its provider's. A spawn registers its agent, the executor hands the finished session to the
lifecycle manager, and the message bus asks that manager for a live session before it
delivers. Every session appends its entries through its session manager to a file that
other terminals may have open.

`PROJECT.json` lists all components with their status, and under `hazards` the places
in this code that are hard to test, each with the properties that would catch it.

## 2. Modules

| Module | Role |
|---|---|
| `ToolBatch` | one batch of tool calls |
| `ToolBatch_proof` | its inductive invariant and theorems |
| `AgentQueues` | steering and follow-up queues, the runs that claim, prepare and deliver from them, the idle drain |
| `AgentQueues_proof` | its inductive invariant and theorems |
| `AsyncJobs` | background jobs, delivery, foreground consumers |
| `AsyncJobs_proof` | its inductive invariant and theorems |
| `AsyncDelivery_proof` | what the delivery of a result promises: received once, never stranded, in its own transcript |
| `SlotPool` | abstract: what a concurrency limiter promises |
| `Slots` | the semaphore and its two users |
| `Slots_proof` | exact counting, first come first served, and that `Slots` implements `SlotPool` |
| `AgentLifecycle` | one agent id: registry, lifecycle manager, the message bus and the other callers that race |
| `AgentLifecycle_proof` | its inductive invariant and theorems |
| `RegionLock` | abstract: what the publish lock promises |
| `PublishLock` | the OS gate and lock file that implement it, process by process |
| `PublishLock_proof` | mutual exclusion, who may remove which lock file, and that `PublishLock` implements `RegionLock` |
| `SessionFile` | the managers of one session file, composed with `RegionLock` |
| `SessionFile_proof` | its structure (names, inodes, the use of the lock as `RegionLock` says, superseded rewrites) and its contents: no acknowledged line is lost |

The instances are set by the `.cfg` files alone. A definition whose comment begins with
"Mutant:" is not part of the model: it is a plausible bug in the definition that follows
it, and shows that the property it is paired with in `PROJECT.json` can fail.

### ToolBatch

Call `i` is `records[i - 1]`. Its `task` is the promise of its `runTool`:
`scheduled` (the start promise is pending) → `parked`/`waking`/`released` (in
`waitUntilResumed`) → `running` (in `tool.execute`) → `hook` (in `afterToolCall`) →
`ended` → `checking` (in the final `checkSteering`) → `fulfilled` or `rejected`.
`awaits[i]` is the set of tasks in its start promise, as the scheduling loop computed it
from `lastExclusive` and `sharedTasks`. Whether a call is exclusive is chosen by the
scheduling loop (the resolver is the tool's), which calls are interruptible is given by `Waits`, and how
its preparation went is chosen initially.

`check[p]` is the continuation of the check that the watcher (0), a call or the timer
(N + 1) has in flight: the queues are read when the check begins and acted upon after the
await. `watch` is the position of the event-driven loop and `woken` whether the wait it has
installed is resolved. `Steer`, `ClearSteeringQueue`, `PeerInterrupt`, `Abort`, `Pause` and
`Resume` are what the user and other sessions do. The steering queue is reduced to the
effective mode of what is queued.

Left out: speculation (no coordinator: the await of a speculative claim between the signal
check and `tool.execute` does not exist), telemetry, streaming of partial results, result
contents, and the cooperative `steeringSignal`, which only tools read.

### AgentQueues

`queue`, `claim` and `deliveries` are `#steeringQueue`/`#followUpQueue`, `#queuedMessageClaims` and
`#queuedMessageDeliveries`: `deliveries[r][q]` has the messages that run `r` delivered from queue `q`, each
delivery from its `next` on, one delivery after the other, for that is the order in which a run emits
them; `Advance` is what a list of emitted messages does to `next`. A run is its abort
controller: `ctl` is `#abortController`, `aborted` the signals that are aborted. `pc[r]` is where a run
is: at one of its polls, about to open a `turn`, in the `model` call (and the tools it calls), or
`ended` (`agent_end` was pushed, its `finally` is due). `Polled` names the polls: the two with which
`continue()` opens, the initial one of the loop, the one after tool calls, the one at a stop, and the two
late ones. Each has three steps, one per await: the dequeue hooks, the preparation (with the claim),
the return. `hand[r]` is what the run is about to emit (`messagesToEmit`, `pendingMessages`).

`Finally` is the restoration of what a run did not deliver, wherever it ends; `Threw` adds the catch of
`#runLoop`; `Change` is `replaceQueues` and its kin. Of the session there are the idle drain
(`Drains`, `CanAutoContinue`), the user's interrupt and the withdrawals. `accepted`, `gone` and `dropped`
are history variables. A message is a number in the order in which messages were queued.

Left out: the split of messages of the Cursor provider, deadlines, runs resumed at an unpaired tool
call, asides, follow-ups parked during an IRC wake, messages that the commit of a preparation adds, hidden
companions of a user message, messages of advisors, the scheduling guards of the drain (retry, mode
exit, compaction), and `reset()` of a running agent that has no claim, which the session does not do: it
waits for idleness first.

### AsyncJobs

Jobs have identity; ids are what the code keys its maps by, so marks (`suppressed`,
`watched`, `consumed`) and eviction timers belong to ids, and `row` is the `#jobs` map.
`delivery[j]` follows one result: `queued`, `backoff`, `formatting` (in the sink),
`parked` (on the yield queue), `delivered`/`rejected` (the sink's promise settled, its
continuation is due). `loop` is `#deliveryLoop`. `epoch` is `#asyncDeliveryEpoch` and
stands for the transcript; `stamp[j]` is the epoch the sink call captured. `tool` is the
one coordination call of the session (hub wait, or bash waiting for its job) and `held`
the jobs it waits for. `received` and `injected` are history variables: what the model
has been given, and in which transcript.

Timers and new tool calls run only when no continuation is due (`Drained`, `Idle`), as in
an event loop, which drains its microtasks first.

`Evict` is an eviction timer. It does not look at the delivery of the job whose row it takes, so the
full retention (five minutes by default) may elapse while that delivery is parked or retried; the
history variable `lost` records which timer, the full retention or the short grace of a consumed
result, took the row of a pending delivery.

Two constants switch on environment behaviour that the code does not rule out; what it
leads to is described with the runs below: `PhotoFinish` (a job settles in the same
macrotask in which a peer message ends the wait that watches it) and `ReusesInFlight` (an id
is reused while an older delivery of it is pending).

Left out: shutdown (`dispose`, `drainDeliveries`, `waitForOwnerJobs`, `cancelAndReap`),
several owners and dead letters, the running-job limit and queued jobs, artifacts, the poll
ladder, the eval, vibe and work pool consumers, and two coordination calls at a time. The order
in which due deliveries are dispatched is not kept. The build and the commit of an
injected message are one step.

### Slots and SlotPool

`max`, `current` and `queue` are the fields of `Semaphore` (0 stands for `Infinity`), and
`pc` is where each request stands: `idle`, `queued` (its `acquire` is pending), `admitted`
(its waiter was called, its continuation not yet run) and `held`. Every `Acquire(r, m)`
begins with the resize to the limit `m` that `r`'s session is configured with. For spawns
`Release` resizes too (`#releaseSpawnSemaphore`); for streams it does not. An acquire whose
resize changes nothing is also the acquire of a worker that was handed the semaphore
earlier (`#runSyncSpawns`).

`SlotPool` knows only who waits and who holds. Its `Settle` says that an admission never
leaves more holders than the cap now in force (lowering the cap takes no slot away), and
that nobody waits beside a free slot. `Slots` implements it with `cap <- max`,
`waiting <- Queued`, `holding <- Holders`: `Acquire` is `Arrive` (or `Resize`, when the signal
is already aborted), `Abort` of a pending request is `Withdraw`, `Release` is `Leave`.

Left out: providers without a cap, which pass straight through, and the semaphore's third
user, which bounds blob reads when a session loads and uses neither a signal nor a resize.

### AgentLifecycle

One id and the generations of refs it had (`reg` is the one it resolves to). `status` and
`att` are the fields of `AgentRef`; `life` says whether a session is live, disposing or
gone; `synced` whether `syncSessionStatus` mirrors its turns into the ref. `adopted`, `park`,
`rev`/`revivals`, `disposed` and `rel` are the lifecycle manager: the adoption with its reviver
and its timer, the park in flight (before or after its yield), the revivals, the releases
that wait. `pc[m]` is where the `#deliver` of a message is. `con`, `run` and `probe` are a spawn
whose session is being built, an executor run and a corpse probe.

A TTL timer, an I/O completion or a call from outside is a macrotask. `Quiet` says that no
continuation is ready, which the event loop runs first; `SameTick` admits the one thing that
may come between a park's yield and its continuation: the rest of the task that called
`park(id)`, which may send or release. `OnStatus` and `OnRemoved` are what the manager's
registry listener does, so every status change carries its timer effect. `orphans` counts the
timers that are still armed for adoptions a cold revival replaced: `adopt` clears the timer of the
adoption it replaces, `#resolveAndRevive` (404) does not, and such a timer calls `park` for the id,
whatever the id is by then (`OrphanFires`). So a ref that is being revived may be parked, and `ReviveEnds`
has the branch that attaches the returned session to a ref that is parked again. `untimed`, `leaked` and
`strayed` are history variables that single out behaviours named below.

Left out: `idleTtlMs` of zero (no timers), one-shot runs, `markResultAccepted`, history and
activity metadata, cleanups of cold adoptions (only the executor's own any resource), the
release deadline at teardown and the finalization of runs by it, several ids; of the bus:
`wait`, mailbox contents, broadcast, auto-replies.

### RegionLock and PublishLock

`gate` is the owner of the kernel's lock on the sidecar file, `name` the lock file at the path
with its creator, whether its record was written, whether it is older than the budget, and
whether its creator is dead. `pc[p]` walks `#withPublishLock`: gate, `open(wx)`, record, verify;
on an existing file read, stat, re-read, unlink, and one more try. A process outside
`Current` runs a previous binary, which knows the lock file but not the gate: the code keeps
the lock file for such peers. `RegionLock` knows only the holder, who enters when it is free
and leaves or dies. `PublishLock` implements it for the current processes.

Left out: the clock of the deadlines (a wait may end at any poll), pids that are reused by
an unrelated process, and I/O errors other than those of the record and of the last unlink.

### SessionFile

`files` is indexed by inode, so that a descriptor (`writer[m]`) can outlive the name it was opened by,
and an inode without name and descriptor is reused. `op[m]` is the synchronous write in which
a process is blocked, step by step: lock, size check and rename, or the two renames of the
EPERM path. `tasks[m]` are the asynchronous rewrites; `live` is `epoch === #diskEpoch`, since
epochs are only ever compared. `Throw` puts a failure where the code puts it: in the latch, or
in the task that awaits the publish, which then reads the file back (`ReadBack`, at any later
moment, also while the process is blocked in another write) and is resumed with what it read
(`SettleFailed`). A publish that succeeds is recorded with its rename (`Done`): `writeTextAtomic`
awaits nothing after the rename, and the continuation that records the size runs before any other task of
the event loop. `Scan` and `Promote` are the two halves of
`recoverOrphanedBackups`. The lock is `RegionLock`, which `PublishLock` implements.

A line is a number. Contents that a manager writes at different times are taken to have
different sizes (the code compares sizes, and an edit that keeps the size would pass its
check). Left out: the session tree, titles, atomic batches of entries, the indexed and the
deferred storage backends, `moveTo`, drafts and their collection, the first creation of a file.

## 3. Runs

| Run | Instance | What it checks |
|---|---|---|
| `batch_order` | 4 calls, all exclusive/shared mixes, `ok` or `invalid`, abort, failing callbacks | `TypeOK`, `ExclusiveOrder`, `Paired`, `NotRunMeansNotRun` |
| `batch_interrupts` | 2 calls, the first an interruptible wait, event-driven watch, IRC poll, after-hook, steers that interrupt and are withdrawn, aborts, pauses | `CompletedResultKept`, `SideEffectsNotSkipped`, `ParkedOnlyWhilePaused`, `InterruptPreemptsWaits`, `InterruptEndsBatch` |
| `agent_queues` | 2 messages in either mode of either queue, 2 runs, 1 fault | `TypeOK`, `Conserved`, `AbandonedIsSilent`, `Served` |
| `jobs` | 2 jobs, 2 ids, 3 transcripts, 2 failed injections | `TypeOK`, `OwnTranscriptOnly`, `LoopServesQueue`, `NoStrandedResult`, `ConsumedMeansReceived`, `NoDuplicateInjection`, `ResultReachesModel` |
| `jobs_message` | with `PhotoFinish` | refutes `NoStrandedResult` |
| `jobs_transcript` | 2 jobs, 2 transcripts, 1 failed injection | refutes `NeverInLaterTranscript` |
| `slots` | 4 requests, limits unlimited, 1, 2, both users | `TypeOK`, `FirstCome`, `KeepsCap` (refinement), `WaiterServed` |
| `publish_lock` | 2 current terminals, 1 on a previous binary, 1 fault, any number of crashes | `TypeOK`, `Exclusive`, `CurrentNeverRobbed`, `OrphanCleared`, `ImplementsRegionLock` |
| `session_file` | 2 terminals, one with an asynchronous rewrite, 2 lines, 1 crash, 1 fault | `TypeOK`, `DurableInOrder`, `SizeIsOwn`, `NothingRemoved` |
| `session_rewrites` | 1 terminal, 2 rewrites at a time, 2 lines, 1 fault | `SupersededIsSilent`, `RewritesEnd` |
| `session_crash` | as `session_file` | refutes `CrashStrandsNothing` |
| `agents` | 2 messages, 3 refs, 2 sessions | `TypeOK`, `HandsOutLive`, `SessionsAccounted`, `FailsForCause`, `IdleParks` |

Bounds and why they are enough:

- **Four calls** in `batch_order` give a shared call on both sides of an exclusive one
  and two conflicting shared calls before it, which is what the two accumulators of the
  scheduling loop tell apart; theorems cover every length. **Two calls** suffice for the
  `batch_interrupts`, whose properties speak of one call and one that runs beside it or waits for it; a
  message that is only queued (`wait` mode) interrupts nothing and is left to `batch_order`. At most one
  timer check is in flight: the checks only raise flags.
- **Two messages and two runs** in `agent_queues`: two messages of one queue have an order that a
  restoration can get wrong, two of different queues meet in one turn; a second run is a
  successor while the first still waits for its preparation. The fault is an abort (which fails several
  awaits) or one failure of a hook, preparation, gate or call.
- **Two jobs and two ids** let one job's delivery run beside another's and let a job reuse
  the id of an evicted one (both jobs under one id). `MaxEpoch = 2` is two session
  transitions; `MaxFailures = 2` lets one delivery fail twice or both fail.
- **Four requests under caps up to 2** let two hold and two wait, with one more than one cap
  and with a drop from unlimited to 1 under load.

- **Two current processes and one previous one** are the smallest set in which a stealer
  and the successor of a dead holder differ from a peer without the gate; theorems cover every
  number. `MaxFaults = 1` lets one record or unlink fail.
- **Two terminals and two lines** in `session_file` let each write between the other's check and
  its own; one crash can fall between the two renames, and the one fault is the EPERM that leads
  there or a failing write. Two rewrites in `session_rewrites` are one superseded and its
  successor.
- **Three refs and two sessions**: the first is restored from disk, a spawn replaces it, and a third
  is restored after that. It is the least in which a cold revival that comes too late replaces the
  adoption of a newer ref, whose timer is left without it and fires under the revival of the third.
  `Spawned` and `Restored` bound which refs a spawn and which a scan of the disk may make; two messages let one caller cancel a park that another
  waits for. The theorems cover every number of each.

Deadlock is checked in the runs of `ToolBatch`, `AgentQueues`, `AsyncJobs`, `Slots` and `PublishLock`. A
batch that is done and a set of jobs that is used up stutter explicitly (`Finished`,
`Quiescent`). An agent that was killed, with every message sent, and a session file at its last
line really may rest: those three cfgs switch the check off.

### What the violated properties show

Each of these runs states what a comment says and finds it not to hold; the quotes are
in `PROJECT.json` under `findings`.

1. `jobs_message`: a job that settles while watched has its delivery skipped. If a peer
   message wins the wait, nothing queues the delivery again, although the comment
   there relies on jobs re-delivering themselves.
2. `jobs_transcript`: the transition to a new session drops queued deliveries by walking the rows
   that exist (`evictCompletedJobs`). A delivery in back-off whose row the retention evicted is not found,
   survives, and its next sink call takes the epoch of the new session: the result of a prior session
   is injected into a later transcript, which that function's comment says can never happen.
3. `session_crash`: a process moves the file aside, for a rename that was refused with EPERM, and dies
   before its second rename. Another terminal that has the session open has meanwhile opened its append
   descriptor with `open("a")`, which created an empty file at the path: the scan finds a primary and
   leaves the backup, with all the earlier lines, where it is. The comment of
   `recoverOrphanedBackups` says that such a crash strands nothing.

### Behaviours the properties set apart

Some properties carry an exception, named in their comment, for a behaviour of the code that the
models found. The history variable or operator that marks it is in parentheses. The first group
contradicts what a comment of the code says:

- A delivery whose row was evicted while it was pending (`lost` in `OwnTranscriptOnly` and
  `NoDuplicateInjection`) may enter a later transcript, which `jobs_transcript` shows, and a consumed
  result whose mark went with the row may be injected again. With `ReusesInFlight` the short grace of
  one job's result can evict the row of another in the same way.
- A directory whose primary file is moved aside is left to a race when its process dies, or
  cannot roll back, while another terminal has the session open, and when a scan, which takes no
  lock, promotes a backup after the primary is back (`raced` in `DurableInOrder`, `NothingRemoved` and
  `SizeIsOwn`). What is then at the path may lack the lines of the backup or those of another
  terminal; `session_crash` shows the first case.
- Whatever replaces or clears a queue also deletes the delivery records of messages already
  handed to the loop (`dropped` in `Conserved`): if the run then fails before it emits them, they are
  lost, although `agent.ts:399` says "Dequeued originals remain recoverable until their
  transcript events arrive".
- A plain release disposes the session before it drops the ref, so `ensureLive` may return the
  disposing session meanwhile (`Releasing` in `HandsOutLive`). `agent-lifecycle.ts:13` says "A
  disposing session is never handed out", and `:337` "Never returns a session that is mid-dispose".
- A cold revival adopts its ref before it looks at the registry again, and may replace the
  adoption of a newer ref, which is left idle without a timer (`untimed` in `IdleParks`); the timer it
  leaves armed may park a ref while it is revived, whose session, disposing, is then attached and
  returned (`strayed` in `HandsOutLive`, `FailsForCause` and `IdleParks`). `agent-lifecycle.ts:18-20` says that "a
  superseded revive" "can never clobber a newer same-id ref".
- `waitUntilResumed` re-parks inside its own loop, but `runTool` resumes one microtask later and does
  not look at the gate again: a resume and a pause in one burst let that call pass, though
  `pause.ts:75-76` wants a pause that is engaged again to "re-park instead of slipping through".

The first two have a run of their own; the others do not, and the exception is all that says so. The
rest of the list contradicts no comment we found:

- An idle drain that fails in its opening (a refused preflight, an abort, a message withdrawn
  under it) blocks the drain while something is queued, so a message queued during that drain
  waits for the next action of the user (`blocked` in `Served`).
- A delivery of the previous session that returns early because the epoch changed counts as
  delivered, and consumes whatever job has its id now (`ReusesInFlight`).
- A plain release unregisters its ref whatever a revival attached while `onRelease` was awaited
  (`leaked` in `SessionsAccounted`).
- A reviver that fails after the session was attached leaves the ref running: its turns are not
  mirrored and its timer is never armed. If the ref was released by then, nobody disposes of the
  session (`leaked`).
- A timer that fires during the park of an older ref of the id joins that park and is spent, which
  leaves an idle agent without a timer (`untimed`).
- A publish that throws is read back, and the size of its body is recorded if the file is equal, also
  when an append superseded the rewrite during that read and wrote after it. The stale size comes with
  the latched failure, so the next write is a rewrite, which conflicts with the manager's own line, as
  does every later one. The properties of `SessionFile` speak of terminals without a latched failure.
- A park may dispose a session for which a wake turn is scheduled but not started.
- With a previous binary about, a lock file can be removed under a process inside (`robbed`);
  the gate makes that impossible among current ones.

### Fairness

- **ToolBatch**: the event loop runs every continuation that is due, the interval keeps
  firing, and every tool ends, except that an interruptible one (a pure wait such as
  `hub wait`) must end only once its signal has aborted. Nothing is assumed of the host.
- **AgentQueues**: the event loop runs every continuation, hooks, preparations and model calls end, and
  the idle drain runs when its conditions hold. That the model answers without calling
  tools is strongly fair: a run that only ever calls tools polls steering but never a
  follow-up. Nothing is assumed of the user or of failures; that an aborted
  preparation ends is.
- **AsyncJobs**: continuations and timers run and tool calls return. `Inject` is strongly
  fair: a session reaches a step boundary or becomes idle again and again, though each
  new tool call disables it for a while; the back-off timer likewise. Nothing is assumed of
  jobs, evictions or the user.
- **Slots**: the continuation of an admitted acquire runs, and every stream or spawn that holds
  a slot ends. Requests owe nothing else.

- **PublishLock**: a running process takes its next step, blank files grow old, and an idle
  terminal publishes again (`Begin`), since a session is appended to as long as it is used.
  `OrphanCleared` assumes in its premise that processes stop dying and one current one stays.
- **SessionFile**: a blocked write of a live process goes on. The resumption of a rewrite is strongly
  fair, because each synchronous write blocks the process for a while: the event loop runs
  every promise that is ready in the end. Nothing is assumed of appends, crashes or scans.
- **AgentLifecycle**: the event loop runs the continuations that are ready, timers fire,
  disposals and cleanups end and the executor finalizes the runs that are over. Nothing is
  assumed of messages, releases, turns (a turn may last for ever) or revivals.

## 4. Proofs

Every theorem holds for all values of the constants under the assumptions in the modules
(`BatchAssumption`, `QueuesAssumption`, `JobsAssumption`, `SlotsAssumption`, `LockAssumption`, `NoLockFile`,
`FileAssumption`, `NoneIsNoWrite`, `LifecycleAssumption`, `NoneInFlight`), which type the constants and keep
`None` apart from what it is the absence of. `FileAssumption` says in addition that there are finitely
many managers and inodes, and more inodes than names and descriptors at one time, so that a new file
always finds one, as on a disk that is not full.

**ToolBatch_proof.** `IInv` adds to `TypeOK` four groups of facts. `ScheduleInv`: what the scheduling
loop has established, above all that a call awaits, directly or through a later
exclusive call, every earlier call it conflicts with; that detour is why
`ExclusiveOrder` is not inductive alone. `StageInv`: no call moves before all are scheduled, and
the batch closes only when all are settled. `OrderInv`: a call that has begun has every
conflicting predecessor fulfilled (settled tasks are stable). `AnswerInv`/`CauseInv`:
how a call's result relates to its run, and why it can lack one. From it follow
`TypeCorrect`, `ExclusiveOrderHolds`, `PairingHolds`, `NotRunHolds`, `CompletedKeptHolds`,
`SideEffectsHold`, `ParkedHolds` and the action property `PreemptionHolds`.

**AgentQueues_proof.** The first half is about the runs and the claims alone, so each action is first
reduced to what it does to them (`RunEffect`, `HostEffect`), whatever the queues hold. `IInv` says that a
claim is held by the current run at that preparation (`ClaimsAreCurrent`), that every other run has ended
or waits for a preparation with its signal aborted (`SupersededIsLeaving`), and that the agent is streaming
until its current run ends (`Current`), which is why no run can begin beside a claim. `ClaimsHeld` and
`OneRunAtWork` follow. The second half is about what the queues hold, with `QInv`: only the current run has
undelivered records (`Sparse`); what it delivers is in its hand, in order and with nothing else of the queue
that was not dropped (`Delivering`); a hand holds what the place of its run allows (`HandsPlaced`), so that no poll finds a
message of its own queue there; and each queue's line, from the transcript to the queue's tail, is
complete and in order (`Lined`). `Conserved` is not inductive without them: that the emission of a hand
uses up the records (`EmitsAll`) rests on `AdvancesToEnd`, that `next` runs to the end of a delivery whose
messages are emitted in order, by induction on a least counterexample. What an action does to the lists is
stated once as a fact about lines (`EmitLine`, `EnqueueLine`, `WithdrawLine`, `PolledHand`). `TypeCorrect`,
`ConservedHolds` and `SilentHolds` follow.

**AsyncJobs_proof.** `TimersServeRows` is not inductive alone: a run that settles arms the timer of
its id, so the row there must still be its own (`LiveRows`, with `RowIds`), and a resolved
delivery arms the timer of a consumed id, so consumed rows must be settled
(`ConsumedSettled`). `TypeCorrect`, `TimersHold` and `LoopServes` hold with every
environment constant on.

**AsyncDelivery_proof.** Four invariants on top of that of `AsyncJobs_proof`, each with what a delivery may
do in one step (`Moved`: kept, dropped, or handed to the sink). `DInv` says what the one coordination
call is about: the rows it holds are live and unreceived, exactly they are watched, they have no
delivery until the wait unwatches them, and a delivery is suppressed only after its result was
received. Hence `ConsumedReceived`. `NInv` is `NoStrandedResult` with the fact that a message leaves the
wait before a job settles, hence `NothingStranded`. `TInv` adds the timers: the row of a
pending delivery is taken only by the full retention (`lost`) or by a session transition, which leaves
stale sink calls only (`Orphans`). Hence `InjectedOnce`, an action property. `EInv` needs none of these: a
delivery keeps its row until a transition makes it stale or a timer takes the row
(`PendingRowed`), and the rows that can deliver are of the current transcript (`RowsCurrent`). Hence
`OwnTranscript`. The premises are the races of the environment that break the properties in
the code: no id reused in flight for all but `OwnTranscript`, which has no premise, and no
`PhotoFinish` for `NothingStranded`. That a timer takes the row of a pending delivery is no premise but an
exception in the formulas of `OwnTranscriptOnly` and `NoDuplicateInjection`.

**Slots_proof.** `IInv` is `TypeOK`, `SlotsAccounted`, `WaitersQueued` (the queue holds exactly the
pending requests, each once) and `NoFreeSlot` (nobody waits under the cap). `NoFreeSlot` is what
makes a stream's `release`, which hands on one slot only, sufficient, and the fast path of
`acquire` harmless. `CalledFacts` and `AdmitFacts` count the called waiters through a
bijection with their positions. `TypeCorrect` and `AccountingHolds` follow, and `CapKept`:
every step of the semaphore is a step of `SlotPool` or leaves its variables unchanged. `FirstComeHolds`: a step admits a prefix of the queue, and a request that is
withdrawn leaves the order of the others (`RemoveAt` by positions).

**PublishLock_proof.** Two independent arguments. Among current processes the gate decides: `Gated`
(a current process past the gate owns it) is inductive because a step of one process leaves the
others where they are (`StepIsLocal`), and gives `CurrentExclusionHolds`. With previous
binaries the lock file decides: `NoticesTheft` says that a process inside has its file at the path
unless some process inside was robbed; it enters only after it verified that
(`EntersVerified`), and whoever removes the file of a process inside makes the history true
(`SparesOrRobs`). Hence `ExclusionHolds`. `NeverRobbedHolds` needs both and a third part about what a
stealer may believe: it goes on only with a text it found blank or dead (`SeenStale`); the
file of a live current process is blank only while it is about to be recorded
(`BlankIsFresh`), and then that process owns the gate; so the file that matches the text
is nobody else's (`NobodysElse`). `RegionImplemented` is the refinement: the one current process inside is
the holder.

**SessionFile_proof.** Two invariants. `SInv` is about the structure, whatever the lines are: the
types, which inodes have names or descriptors and so cannot be reused (`Directory`), that a write
past the lock is the holder's (`RegionHeld`), and for each manager what each kind of write,
each rewrite in flight and its fence imply for each other (`Structure`). From it follow
`LockIsRegionLock` (every step of the managers is a step of `RegionLock` or
none: with `RegionImplemented` the two specifications compose); `FileChangesUnderLock`: the file at the
path is written, moved and replaced by the one manager that holds the lock, but for a scan that
promotes a backup and an append that finds no file, whose `open("a")` creates it before the lock is
taken; and `SupersededHolds`: the rewrite whose
publish blocks its process was not superseded, because nothing else of that process runs meanwhile.

`CInv` adds the contents, `Seen`, as long as no backup was left to a race (`raced`, described above). `Held`
says where the file is while a process is between two renames, alive or dead; what
can be seen of it is a `Transcript` (a header, then lines, none twice); and `Knowledge` says what
each manager knows: all its entries but those still owed are in the file in its order
(`Knows`, `Writing`, `TaskKnows`), the size it expects is one the file had at that time (`Calm`), and
an edit is in the file or owed (`EditOwed`, `Unedited`). The crux is the size check of a rewrite. Lines
are only added by other terminals, so a file of the expected size has as many lines as the manager
knows; all of these are embedded in it by an increasing function of an interval into an
interval of the same length, which is the identity (`EmbedsAll`): the file has nothing else, and
replacing it removes nothing. `TypeCorrect`, `DurableHolds`, `SizeIsOwnHolds` and `NothingRemovedHolds` follow.
Arguments by induction (that identity, positions in a transcript, a free inode) go through the
least element of a set of naturals.

**AgentLifecycle_proof.** `HandsOutLive` is far from inductive: that a sender holds a live session
depends on no park being able to begin before it delivers (`GotLives`), which depends on the
states of every slot of the manager. `IInv` is the conjunction of what each slot implies for
the others: an id's refs and sessions are new until they are registered (`FreshRefs`,
`FreshSessions`); what any slot holds belongs to its ref (`Owned`); which refs have no session
(`Detached`); a park and a revival of the current ref exclude each other (`Revives`); no timer is
armed in an adoption of an agent that is parked, being parked or being revived (`Timed`); what a
release has taken away at each of its steps (`Disowned`, `ReleaseSteps`); which sessions of the current
ref can be live (`Current`, `AttachedLives`) and who holds the live session of a killed one (`Killed`). `TypeCorrect`,
`HandsOutHolds` and `AccountedHolds` follow; `CauseHolds` needs in addition what single steps may
never do (`KillsOnly`: only the continuation of a kill marks a ref aborted). An orphan timer that parks a
revival breaks `Revives` and with it the rest, so `IInv` is proved as long as none has (`strayed = {}`), and
the three theorems have that as their premise; `TypeCorrect` has none. That a behaviour goes on to satisfy
`HandsOutLive`, `SessionsAccounted` and `FailsForCause`, with the exceptions they name, after such a park is
checked by `agents` only.

Proved and not part of a run: `AnsweredOnce`, `TimersServeRows`, `SlotsAccounted` and
`CurrentExclusive`. TLC agreed with each before it was proved.

Only model-checked: the liveness properties (`InterruptEndsBatch`, `Served`, `ResultReachesModel`,
`WaiterServed`, `OrphanCleared`, `RewritesEnd`, `IdleParks`), which rest on fairness.

## 5. Plan

1. *Done*: `ToolBatch`, `AsyncJobs`, `Slots` against `SlotPool`, with their proofs;
   `PublishLock` against `RegionLock` and `SessionFile` over `RegionLock`, with their proofs;
   `AgentLifecycle` with the message bus as a caller, with its proof; `AgentQueues` with the
   idle drain of the session, with its proof.
2. Asides, IRC wakes and advisor cards in `AgentQueues`.
3. Shutdown of the job manager (`dispose`, `drainDeliveries`, `cancelAndReap`) as an extension of
   `AsyncJobs`, and the teardown of runs in `AgentLifecycle`.
4. The waiters and mailboxes of `irc/bus.ts`; `ParallelMap` (the mapping functions of
   `task/parallel.ts`); speculation against `ToolBatch`; the tool choice queue.
5. *Done*: proofs about the contents of the queues, `AgentQueues!TypeOK`, `Conserved` and `AbandonedIsSilent`.

## 6. Not modelled

Rendering, provider protocols, conversions, native algorithms and vendored or generated code:
their difficulty is in data and input and output rather than in order, and they are most of
the repository's lines. The protocol clients (MCP, LSP, DAP), the launch broker and the
worker subprocesses do have order of their own and were not surveyed to the line. Every
component is in `PROJECT.json` with the reason.
