----------------------------- MODULE ToolBatch -----------------------------
(***************************************************************************)
(* One batch of tool calls of one assistant message: executeToolCalls of   *)
(* packages/agent/src/agent-loop.ts, with the process-wide pause gate of   *)
(* packages/agent/src/pause.ts it parks on.                                *)
(*                                                                         *)
(* The scheduling loop gives every call the set of earlier calls whose     *)
(* promises its own start awaits; after that the tool bodies, the steering *)
(* watcher, the interrupt poll timer, the user (abort, steer, withdraw,    *)
(* pause, resume) and peers (interrupting IRC) interleave at every await.  *)
(* A step of this module is the code between two awaits.                   *)
(***************************************************************************)
EXTENDS Naturals, FiniteSets

CONSTANTS
  N,              \* number of calls in the batch; call i is records[i - 1]
  InterruptMode,  \* config.interruptMode: "immediate" or "wait"
  EventDriven,    \* config.waitForSteeringMessages is provided
  HasIrc,         \* config.hasIrcInterrupts is provided
  AfterHook,      \* config.afterToolCall is provided
  PollMayFail,    \* the host's queue callbacks may throw
  Verdicts,       \* outcomes of prepareToolCallDispatch this instance allows
  Waits,          \* the calls whose tool resolves to interruptible
  HostActs        \* what the host does here, steers by their effective mode

ASSUME BatchAssumption ==
  /\ N \in Nat \ {0}
  /\ InterruptMode \in {"immediate", "wait"}
  /\ EventDriven \in BOOLEAN /\ HasIrc \in BOOLEAN
  /\ AfterHook \in BOOLEAN /\ PollMayFail \in BOOLEAN
  /\ Verdicts \subseteq {"ok", "invalid", "throws"}
  /\ Waits \subseteq 1 .. N
  /\ HostActs \subseteq {"wait", "immediate", "clear", "irc", "abort", "pause"}

Calls == 1 .. N
Checkers == (1 .. N) \cup {0, N + 1}
Watcher == 0          \* the event-driven steering watch
Timer == N + 1        \* the setInterval poll

VARIABLES
  interruptible, \* records[i].interruptible
  verdict,       \* "ok", "invalid" (validation message) or "throws" (missing tool,
                 \* blocked, prepareError, transformError: fails before execute)
  exclusive,     \* concurrency resolved to "exclusive" in the scheduling loop
  next,          \* the scheduling loop's next call; N + 1 once all are scheduled
  lastExclusive, \* call whose task is lastExclusive, 0 for Promise.resolve()
  sharedTasks,   \* calls whose tasks are in sharedTasks
  awaits,        \* the calls whose tasks the start of each call awaits
  task,          \* where each call's task stands
  executed,      \* executionStarted: tool.execute was entered
  completed,     \* completedToolExecution: tool.execute returned a result
  isError,       \* the call has an error result and did not complete (the error
                 \* flag of a completed result is not told apart)
  answer,        \* kind of the tool result message emitted for the call
  answers,       \* how many results the call contributed to emittedToolResults
  external,      \* signal?.aborted: the user aborted the run
  triggered,     \* interruptState.triggered, set with steeringAbortController or
                 \* ircAbortController; interruptibleSignal observes both
  check,         \* where each checkSteering()/checkIrcInterrupts() in flight stands
  watch,         \* the watcher loop's position
  woken,         \* the watcher's waitForSteeringMessages() promise is resolved
  steer,         \* effective state of the steering queue
  irc,           \* an interrupting IRC record is queued
  gate,          \* agentPauseGate.paused
  batch          \* the function's own progress

record == <<interruptible, verdict>>
schedule == <<exclusive, next, lastExclusive, sharedTasks, awaits>>
body == <<executed, completed, isError>>
replies == <<answer, answers>>
signals == <<external, triggered>>
watching == <<check, watch, woken>>
host == <<steer, irc, gate>>
vars == <<record, schedule, task, body, replies, signals, watching,
          host, batch>>

TaskStates == {"scheduled", "parked", "waking", "released", "running", "hook", "ended",
               "checking", "fulfilled", "rejected"}
CheckStates == {"idle", "steer", "noSteer", "irc"}

(***************************************************************************)
(* Derived state.                                                          *)
(***************************************************************************)
Scheduled == next = N + 1

\* Mutant: record.signal does not observe the interrupt controllers.
SignalIgnoresInterrupt(i) == external

\* record.signal.aborted
SignalAborted(i) == external \/ (interruptible[i] /\ triggered)

\* The tool call is between its start and the end of its hooks.
Running(i) == task[i] \in {"running", "hook", "ended"}

Settled(i) == task[i] \in {"fulfilled", "rejected"}

WatchAborted == external \/ batch # "running"

Init ==
  /\ interruptible = [i \in Calls |-> i \in Waits]
  /\ verdict \in [Calls -> Verdicts]
  /\ exclusive = [i \in Calls |-> FALSE]
  /\ next = 1
  /\ lastExclusive = 0
  /\ sharedTasks = {}
  /\ awaits = [i \in Calls |-> {}]
  /\ task = [i \in Calls |-> "scheduled"]
  /\ executed = [i \in Calls |-> FALSE]
  /\ completed = [i \in Calls |-> FALSE]
  /\ isError = [i \in Calls |-> FALSE]
  /\ answer = [i \in Calls |-> "none"]
  /\ answers = [i \in Calls |-> 0]
  /\ external = FALSE /\ triggered = FALSE
  /\ check = [p \in Checkers |-> "idle"]
  /\ watch = IF EventDriven THEN "top" ELSE "off"
  /\ woken = FALSE
  /\ steer = "none" /\ irc = FALSE
  /\ gate = FALSE
  /\ batch = "running"

-----------------------------------------------------------------------------
(***************************************************************************)
(* The scheduling loop. An exclusive call awaits the last exclusive call   *)
(* and every shared call since it; a shared call awaits only the last      *)
(* exclusive one.                                                          *)
(***************************************************************************)
\* Mutant: an exclusive call forgets the shared calls in flight.
StartForgetsShared(i, excl) == IF lastExclusive = 0 THEN {} ELSE {lastExclusive}

Start(i, excl) ==
  (IF lastExclusive = 0 THEN {} ELSE {lastExclusive})
    \cup (IF excl THEN sharedTasks ELSE {})

Schedule ==
  /\ next \in Calls
  /\ \E excl \in BOOLEAN :
       /\ exclusive' = [exclusive EXCEPT ![next] = excl]
       /\ awaits' = [awaits EXCEPT ![next] = Start(next, excl)]
       /\ lastExclusive' = IF excl THEN next ELSE lastExclusive
       /\ sharedTasks' = IF excl THEN {} ELSE sharedTasks \cup {next}
  /\ next' = next + 1
  /\ UNCHANGED <<record, task, body, replies, signals, watching, host, batch>>

(***************************************************************************)
(* Queue polls. Both callbacks are read synchronously when the check       *)
(* begins; the value read is acted on after the await. A poll that read    *)
(* nothing to act on is "done"; "failed" is a callback that threw.         *)
(***************************************************************************)
Failure == IF PollMayFail THEN {"failed"} ELSE {}

CheckIrc ==
  IF InterruptMode = "wait" \/ external \/ triggered \/ ~HasIrc
  THEN {"done"}
  ELSE {IF irc THEN "irc" ELSE "done"} \cup Failure

CheckSteering ==
  IF external THEN {"done"}
  ELSE {IF steer = "immediate" THEN "steer" ELSE IF HasIrc THEN "noSteer" ELSE "done"}
         \cup Failure

Over(c) == c \in {"done", "failed"}

\* check[p] becomes c; a check that is over leaves nothing in flight.
SetCheck(p, c) == check' = [check EXCEPT ![p] = IF Over(c) THEN "idle" ELSE c]

\* Mutant: the task is left in the state of its check.
TaskAfterRaw(c) == IF c = "failed" THEN "rejected" ELSE c

\* runTool's last await: its task settles when the check is over.
TaskAfter(c) == IF c = "done" THEN "fulfilled" ELSE IF c = "failed" THEN "rejected"
                ELSE "checking"

\* The watcher's continuation of its check.
WatchAfter(c) == IF ~Over(c) THEN "checking"
                 ELSE IF c = "failed" \/ WatchAborted \/ triggered' THEN "ended"
                 ELSE "waiting"

\* A check in flight resumes after its await, and whoever awaits it goes on.
CheckActs(p) ==
  /\ check[p] # "idle"
  /\ triggered' = (triggered \/ check[p] \in {"steer", "irc"})
  /\ \E c \in (IF check[p] = "noSteer" THEN CheckIrc ELSE {"done"}) :
       /\ SetCheck(p, c)
       /\ task' = IF p \in Calls THEN [task EXCEPT ![p] = TaskAfter(c)] ELSE task
       /\ watch' = IF p = Watcher /\ watch = "checking" THEN WatchAfter(c) ELSE watch
  /\ UNCHANGED <<record, schedule, body, replies, external, woken, host, batch>>

(***************************************************************************)
(* emitToolResult: at most one result per call.                            *)
(***************************************************************************)
Emit(i, kind) ==
  IF answer[i] # "none"
  THEN UNCHANGED replies
  ELSE /\ answer' = [answer EXCEPT ![i] = kind]
       /\ answers' = [answers EXCEPT ![i] = @ + 1]

(***************************************************************************)
(* runTool. Entering past the pause gate either answers at once (recorded  *)
(* validation failure, aborted signal) or starts the call.                 *)
(***************************************************************************)
Enter(i) ==
  IF verdict[i] = "invalid"
  THEN /\ Emit(i, "invalid")
       /\ task' = [task EXCEPT ![i] = "fulfilled"]
       /\ UNCHANGED body
  ELSE IF SignalAborted(i)
  THEN /\ Emit(i, "aborted")
       /\ task' = [task EXCEPT ![i] = "fulfilled"]
       /\ UNCHANGED body
  ELSE IF verdict[i] = "throws"
  THEN /\ task' = [task EXCEPT ![i] = IF AfterHook THEN "hook" ELSE "ended"]
       /\ isError' = [isError EXCEPT ![i] = TRUE]
       /\ UNCHANGED <<executed, completed, replies>>
  ELSE /\ task' = [task EXCEPT ![i] = "running"]
       /\ executed' = [executed EXCEPT ![i] = TRUE]
       /\ UNCHANGED <<completed, isError, replies>>

Ready(i) ==
  /\ Scheduled
  /\ task[i] = "scheduled"
  /\ \A j \in awaits[i] : task[j] = "fulfilled"

\* Mutant: an interrupt preempts every call that has not started (#10439).
PreemptAll(i) ==
  /\ Ready(i) /\ triggered
  /\ task' = [task EXCEPT ![i] = "fulfilled"]
  /\ UNCHANGED <<record, schedule, body, replies, signals, watching, host, batch>>

\* A pending interrupt preempts an interruptible call; the tail sweep answers it.
Preempt(i) ==
  /\ Ready(i) /\ triggered /\ interruptible[i]
  /\ task' = [task EXCEPT ![i] = "fulfilled"]
  /\ UNCHANGED <<record, schedule, body, replies, signals, watching, host, batch>>

Park(i) ==
  /\ Ready(i) /\ ~(triggered /\ interruptible[i])
  /\ gate
  /\ \* waitUntilResumed returns at once when the signal is already aborted
     task' = [task EXCEPT ![i] = IF SignalAborted(i) THEN "released" ELSE "parked"]
  /\ UNCHANGED <<record, schedule, body, replies, signals, watching, host, batch>>

RunTool(i) ==
  /\ Ready(i) /\ ~(triggered /\ interruptible[i])
  /\ ~gate
  /\ Enter(i)
  /\ UNCHANGED <<record, schedule, signals, watching, host, batch>>

\* waitUntilResumed: the awaited gate promise resolved, or the call's own
\* signal aborted; a gate engaged again in the meantime parks the call again.
GateWakes(i) ==
  /\ task[i] = "waking" \/ (task[i] = "parked" /\ SignalAborted(i))
  /\ task' = [task EXCEPT ![i] = IF gate /\ ~SignalAborted(i) THEN "parked" ELSE "released"]
  /\ UNCHANGED <<record, schedule, body, replies, signals, watching, host, batch>>

\* runTool resumes one microtask after waitUntilResumed returned.
EnterReleased(i) ==
  /\ task[i] = "released"
  /\ Enter(i)
  /\ UNCHANGED <<record, schedule, signals, watching, host, batch>>

AfterBody == IF AfterHook THEN "hook" ELSE "ended"

\* tool.execute returns a result.
Completes(i) ==
  /\ task[i] = "running"
  /\ completed' = [completed EXCEPT ![i] = TRUE]
  /\ task' = [task EXCEPT ![i] = AfterBody]
  /\ UNCHANGED <<record, schedule, executed, isError, replies, signals,
                 watching, host, batch>>

\* tool.execute throws, as it does when it observes its aborted signal; the
\* after hook is not run for a call whose signal aborted.
Throws(i) ==
  /\ task[i] = "running"
  /\ isError' = [isError EXCEPT ![i] = TRUE]
  /\ task' = [task EXCEPT ![i] = IF SignalAborted(i) THEN "ended" ELSE AfterBody]
  /\ UNCHANGED <<record, schedule, executed, completed, replies, signals,
                 watching, host, batch>>

\* afterToolCall may replace an error by a result, keep it, or throw.
HookEnds(i) ==
  /\ task[i] = "hook"
  /\ \E e \in (IF completed[i] THEN {FALSE} ELSE BOOLEAN) :
       isError' = [isError EXCEPT ![i] = e]
  /\ task' = [task EXCEPT ![i] = "ended"]
  /\ UNCHANGED <<record, schedule, executed, completed, replies, signals,
                 watching, host, batch>>

\* Mutant: an interrupt replaces the result of a completed tool (#4752).
OutcomeDropsCompleted(i) == IF triggered /\ SignalAborted(i) THEN "interrupted" ELSE "real"

\* Mutant: any abort during the run is answered as if the tool had not run.
OutcomeNotRun(i) == IF SignalAborted(i) THEN "aborted" ELSE "real"

\* abortedDuringExecution under an interrupt gets the "skipped" placeholder;
\* everything else keeps its own outcome.
Outcome(i) ==
  IF triggered /\ SignalAborted(i) /\ isError[i] /\ ~completed[i]
  THEN "interrupted" ELSE "real"

Conclude(i) ==
  /\ task[i] = "ended"
  /\ Emit(i, Outcome(i))
  /\ \E c \in CheckSteering :
       /\ SetCheck(i, c)
       /\ task' = [task EXCEPT ![i] = TaskAfter(c)]
  /\ UNCHANGED <<record, schedule, body, signals, watch, woken, host, batch>>

\* A rejected predecessor rejects the start promise: runTool never runs.
RejectStart(i) ==
  /\ Scheduled
  /\ task[i] = "scheduled"
  /\ \E j \in awaits[i] : task[j] = "rejected"
  /\ task' = [task EXCEPT ![i] = "rejected"]
  /\ UNCHANGED <<record, schedule, body, replies, signals, watching, host, batch>>

-----------------------------------------------------------------------------
(***************************************************************************)
(* The event-driven steering watch: subscribe, then check, then wait.      *)
(***************************************************************************)
WatchSubscribe ==
  /\ Scheduled /\ watch = "top"
  /\ UNCHANGED <<record, schedule, task, body, replies, signals, host, batch>>
  /\ IF WatchAborted
     THEN watch' = "ended" /\ UNCHANGED <<woken, check>>
     ELSE /\ woken' = (steer = "immediate")
          /\ \E c \in CheckSteering : SetCheck(Watcher, c) /\ watch' = WatchAfter(c)

\* watchAborted wins either race; a check in flight goes on unobserved.
WatchReleased ==
  /\ watch \in {"checking", "waiting"}
  /\ WatchAborted
  /\ watch' = "ended"
  /\ woken' = FALSE
  /\ UNCHANGED <<record, schedule, task, body, replies, signals, check, host, batch>>

WatchWoken ==
  /\ watch = "waiting" /\ woken
  /\ watch' = "top"
  /\ woken' = FALSE
  /\ UNCHANGED <<record, schedule, task, body, replies, signals, check, host, batch>>

\* The interval polls IRC beside an event-driven watch, everything otherwise.
\* Bound: one timer check in flight (the checks are idempotent).
TimerFires ==
  /\ Scheduled /\ batch = "running"
  /\ ~EventDriven \/ HasIrc
  /\ check[Timer] = "idle"
  /\ \E c \in (IF EventDriven THEN CheckIrc ELSE CheckSteering) : SetCheck(Timer, c)
  /\ UNCHANGED <<record, schedule, task, body, replies, signals, watch, woken, host, batch>>

-----------------------------------------------------------------------------
(***************************************************************************)
(* Promise.allSettled, the finally that stops the watch, the tail sweep.   *)
(***************************************************************************)
Close ==
  /\ Scheduled /\ batch = "running"
  /\ \A i \in Calls : Settled(i)
  /\ batch' = "closing"
  /\ UNCHANGED <<record, schedule, task, body, replies, signals, watching, host>>

\* Mutant: the tail sweep passes over calls whose start was rejected.
UnansweredFulfilled == {i \in Calls : answer[i] = "none" /\ task[i] = "fulfilled"}

Unanswered == {i \in Calls : answer[i] = "none"}

Sweep ==
  /\ batch = "closing" /\ watch \in {"off", "ended"}
  /\ answer' = [i \in Calls |-> IF i \in Unanswered THEN "skipped" ELSE answer[i]]
  /\ answers' = [i \in Calls |-> IF i \in Unanswered THEN answers[i] + 1 ELSE answers[i]]
  /\ batch' = "done"
  /\ UNCHANGED <<record, schedule, task, body, signals, watching, host>>

Finished == batch = "done" /\ UNCHANGED vars

-----------------------------------------------------------------------------
(***************************************************************************)
(* The host: what users, peers and other sessions do during the batch.     *)
(***************************************************************************)
InBatch == Scheduled /\ batch = "running"

\* Mutant: a steer does not wake the installed wait.
NotifyNobody == UNCHANGED woken

\* notifySteeringWaiters resolves the wait the watcher has installed.
Notify == woken' = IF watch \in {"checking", "waiting"} THEN TRUE ELSE woken

Steer(mode) ==
  /\ InBatch
  /\ steer' = IF steer = "immediate" THEN steer ELSE mode
  /\ Notify
  /\ UNCHANGED <<record, schedule, task, body, replies, signals, check, watch, irc, gate,
                 batch>>

ClearSteeringQueue ==
  /\ InBatch
  /\ steer' = "none"
  /\ Notify
  /\ UNCHANGED <<record, schedule, task, body, replies, signals, check, watch, irc, gate,
                 batch>>

PeerInterrupt ==
  /\ InBatch /\ HasIrc
  /\ irc' = TRUE
  /\ UNCHANGED <<record, schedule, task, body, replies, signals, watching, steer, gate,
                 batch>>

Abort ==
  /\ InBatch
  /\ external' = TRUE
  /\ UNCHANGED <<record, schedule, task, body, replies, triggered, watching, host, batch>>

Pause ==
  /\ InBatch
  /\ gate' = TRUE
  /\ UNCHANGED <<record, schedule, task, body, replies, signals, watching, steer, irc,
                 batch>>

\* Mutant: the gate is dropped without resolving its promise.
ResumeForgetsParked ==
  /\ InBatch /\ gate
  /\ gate' = FALSE
  /\ UNCHANGED <<record, schedule, task, body, replies, signals, watching, steer, irc,
                 batch>>

\* resume() resolves the gate promise of every call parked on it.
Resume ==
  /\ InBatch /\ gate
  /\ gate' = FALSE
  /\ task' = [i \in Calls |-> IF task[i] = "parked" THEN "waking" ELSE task[i]]
  /\ UNCHANGED <<record, schedule, body, replies, signals, watching, steer, irc, batch>>

Host ==
  \/ \E mode \in {"wait", "immediate"} \cap HostActs : Steer(mode)
  \/ "clear" \in HostActs /\ ClearSteeringQueue
  \/ "irc" \in HostActs /\ PeerInterrupt
  \/ "abort" \in HostActs /\ Abort
  \/ "pause" \in HostActs /\ (Pause \/ Resume)

\* The code that runs on one call's task, up to and after its tool.execute.
TaskStep(i) ==
  \/ Preempt(i) \/ Park(i) \/ RunTool(i) \/ GateWakes(i) \/ EnterReleased(i)
  \/ HookEnds(i) \/ Conclude(i) \/ CheckActs(i) \/ RejectStart(i)

ToolStep(i) == Completes(i) \/ Throws(i)

WatchStep ==
  WatchSubscribe \/ WatchReleased \/ WatchWoken \/ CheckActs(Watcher)

TimerStep == TimerFires \/ CheckActs(Timer)

BatchStep == Schedule \/ Close \/ Sweep

Next ==
  \/ BatchStep
  \/ \E i \in Calls : TaskStep(i) \/ ToolStep(i)
  \/ WatchStep
  \/ TimerStep
  \/ Finished
  \/ Host

(***************************************************************************)
(* The event loop runs every continuation, the interval keeps firing, and  *)
(* a tool ends, except that an interruptible one (a pure wait) is only     *)
(* sure to end once its signal aborts. The host owes nothing.              *)
(***************************************************************************)
ToolMustEnd(i) == ToolStep(i) /\ (interruptible[i] => SignalAborted(i))

Fairness ==
  /\ WF_vars(BatchStep)
  /\ \A i \in Calls : WF_vars(TaskStep(i)) /\ WF_vars(ToolMustEnd(i))
  /\ WF_vars(WatchStep)
  /\ WF_vars(TimerStep)

Spec == Init /\ [][Next]_vars
FairSpec == Spec /\ Fairness
-----------------------------------------------------------------------------
(***************************************************************************)
(* Properties.                                                             *)
(***************************************************************************)
Answers == {"none", "invalid", "aborted", "interrupted", "real", "skipped"}

ScheduleType ==
  /\ interruptible \in [Calls -> BOOLEAN] /\ verdict \in [Calls -> Verdicts]
  /\ exclusive \in [Calls -> BOOLEAN]
  /\ next \in 1 .. (N + 1) /\ lastExclusive \in 0 .. N
  /\ sharedTasks \in SUBSET Calls /\ awaits \in [Calls -> SUBSET Calls]

CallType ==
  /\ task \in [Calls -> TaskStates]
  /\ executed \in [Calls -> BOOLEAN] /\ completed \in [Calls -> BOOLEAN]
  /\ isError \in [Calls -> BOOLEAN]
  /\ answer \in [Calls -> Answers] /\ answers \in [Calls -> Nat]

ControlType ==
  /\ external \in BOOLEAN /\ triggered \in BOOLEAN
  /\ check \in [Checkers -> CheckStates]
  /\ watch \in {"off", "top", "checking", "waiting", "ended"} /\ woken \in BOOLEAN
  /\ steer \in {"none", "wait", "immediate"} /\ irc \in BOOLEAN /\ gate \in BOOLEAN
  /\ batch \in {"running", "closing", "done"}

\* Every variable keeps its range.
TypeOK == ScheduleType /\ CallType /\ ControlType

\* The task of call i is past its start and not settled.
Occupied(i) == task[i] \notin {"scheduled", "fulfilled", "rejected"}

\* An exclusive call runs alone and in message order: whenever two calls of
\* which one is exclusive are ordered j before i, call i has not begun (and
\* tool.execute of i was not entered) until the task of j is fulfilled.
ExclusiveOrder ==
  \A i, j \in Calls :
    (j < i /\ (exclusive[i] \/ exclusive[j]) /\ (Occupied(i) \/ executed[i]))
      => task[j] = "fulfilled"

\* A batch ends with exactly one tool result for every call of the message,
\* whatever was aborted, skipped, rejected or paused on the way, and no call
\* ever contributes two (tool_use / tool_result pairing).
AnsweredOnce ==
  \A i \in Calls : answers[i] = IF answer[i] = "none" THEN 0 ELSE 1

Paired == batch = "done" => \A i \in Calls : answers[i] = 1

\* A result that says the call was not executed is never given for a call
\* whose tool.execute was entered.
NotRunMeansNotRun ==
  \A i \in Calls : answer[i] \in {"skipped", "aborted", "invalid"} => ~executed[i]

\* A tool that returned keeps its own result, even when an interrupt or abort
\* lands between its return and the emission of the result.
CompletedResultKept ==
  \A i \in Calls : (completed[i] /\ answer[i] # "none") => answer[i] = "real"

\* Steering and peer interrupts never cost a non-interruptible call its
\* execution: only the user's abort, its own validation failure, or a task it
\* awaited that rejected keeps it from running to its own outcome.
SideEffectsNotSkipped ==
  \A i \in Calls :
    (~interruptible[i] /\ answer[i] \in {"skipped", "aborted", "interrupted"})
      => \/ external
         \/ \E j \in awaits[i] : task[j] = "rejected"

\* Once an interrupt is recorded no interruptible call begins to execute,
\* including one that was parked at the pause gate when it was recorded.
InterruptPreemptsWaits ==
  [][\A i \in Calls :
       (interruptible[i] /\ triggered /\ ~executed[i]) => ~executed'[i]]_vars

\* A call waits for a gate promise only while that gate is engaged: a resume,
\* even one followed at once by a new pause, leaves no call behind on a promise
\* that nothing will resolve again.
ParkedOnlyWhilePaused == \A i \in Calls : task[i] = "parked" => gate

\* The batch is owed its end: the user aborted it (paused or not), or, while the
\* gate is open, an immediate steer or an interrupting peer message is queued.
Owed ==
  \/ external
  \/ ~gate /\ (steer = "immediate" \/ (irc /\ InterruptMode = "immediate"))

\* A batch that stays owed its end ends, although no interruptible wait has to
\* end by itself: the watch loses no steer to the edge between check and wait,
\* the timer finds the peer message, and an abort unwinds parked calls.
InterruptEndsBatch == Owed ~> (batch = "done" \/ ~Owed)
=============================================================================
