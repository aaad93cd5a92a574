-------------------------- MODULE ToolBatch_proof --------------------------
(***************************************************************************)
(* Proofs about ToolBatch, for every number of calls, every mix of kinds   *)
(* and every configuration of the host.                                    *)
(***************************************************************************)
EXTENDS ToolBatch, TLAPS

\* Where a call may stand before its tool.execute can be entered.
Before == {"scheduled", "parked", "waking", "released"}

\* The actions of one call, without the polls of its final check.
CallAction(i) ==
  \/ Preempt(i) \/ Park(i) \/ RunTool(i) \/ GateWakes(i) \/ EnterReleased(i)
  \/ HookEnds(i) \/ Conclude(i) \/ RejectStart(i) \/ Completes(i) \/ Throws(i)

WatchAction == WatchSubscribe \/ WatchReleased \/ WatchWoken \/ TimerFires

HostAction ==
  \/ \E mode \in {"wait", "immediate"} : Steer(mode)
  \/ ClearSteeringQueue \/ PeerInterrupt \/ Abort \/ Pause

\* Next, regrouped by what the actions touch.
LEMMA NextCases ==
  ASSUME Next
  PROVE  \/ Schedule
         \/ \E i \in Calls : CallAction(i)
         \/ \E p \in Checkers : CheckActs(p)
         \/ WatchAction \/ Close \/ Sweep
         \/ HostAction \/ Resume
         \/ UNCHANGED vars
  BY DEF Next, BatchStep, TaskStep, ToolStep, WatchStep, TimerStep, Finished, Host,
         CallAction, WatchAction, HostAction, Checkers, Calls, Watcher, Timer

\* Initially every variable is in its range.
LEMMA InitType == Init => TypeOK
<1> SUFFICES ASSUME Init PROVE TypeOK
  OBVIOUS
<1>1. ScheduleType
  BY BatchAssumption DEF Init, ScheduleType, Calls
<1>2. CallType
  BY DEF Init, CallType, TaskStates, Answers
<1>3. ControlType
  BY DEF Init, ControlType, CheckStates
<1> QED BY <1>1, <1>2, <1>3 DEF TypeOK

\* Entering past the pause gate keeps the types of the calls.
LEMMA EnterType ==
  ASSUME CallType, NEW i \in Calls, Enter(i)
  PROVE  CallType'
<1> USE DEF Enter, Emit, CallType, TaskStates, Answers, replies, body
<1>1. CASE verdict[i] = "invalid"
  BY <1>1
<1>2. CASE verdict[i] # "invalid" /\ SignalAborted(i)
  BY <1>2
<1>3. CASE verdict[i] # "invalid" /\ ~SignalAborted(i) /\ verdict[i] = "throws"
  BY <1>3
<1>4. CASE verdict[i] # "invalid" /\ ~SignalAborted(i) /\ verdict[i] # "throws"
  BY <1>4
<1> QED BY <1>1, <1>2, <1>3, <1>4

\* Every action of one call keeps TypeOK.
LEMMA CallActionType ==
  ASSUME TypeOK, NEW i \in Calls, CallAction(i)
  PROVE  TypeOK'
<1> USE DEF TypeOK, record, schedule, body, replies, signals, watching, host
<1>1. CASE Preempt(i)
  BY <1>1 DEF Preempt, CallType, ScheduleType, ControlType, TaskStates
<1>2. CASE Park(i)
  BY <1>2 DEF Park, CallType, ScheduleType, ControlType, TaskStates
<1>3. CASE RunTool(i)
  <2>1. CallType'
    BY <1>3, EnterType DEF RunTool
  <2> QED BY <1>3, <2>1 DEF RunTool, ScheduleType, ControlType
<1>4. CASE GateWakes(i)
  BY <1>4 DEF GateWakes, CallType, ScheduleType, ControlType, TaskStates
<1>5. CASE EnterReleased(i)
  <2>1. CallType'
    BY <1>5, EnterType DEF EnterReleased
  <2> QED BY <1>5, <2>1 DEF EnterReleased, ScheduleType, ControlType
<1>6. CASE HookEnds(i)
  BY <1>6 DEF HookEnds, CallType, ScheduleType, ControlType, TaskStates
<1>7. CASE Conclude(i)
  <2>1. PICK c \in CheckSteering : SetCheck(i, c) /\ task' = [task EXCEPT ![i] = TaskAfter(c)]
    BY <1>7 DEF Conclude
  <2>2. c \in {"done", "failed", "steer", "noSteer"}
    BY DEF CheckSteering, Failure
  <2>3. CallType'
    <3>1. task' \in [Calls -> TaskStates]
      BY <2>1 DEF CallType, TaskStates, TaskAfter
    <3>2. answer' \in [Calls -> Answers] /\ answers' \in [Calls -> Nat]
      BY <1>7 DEF Conclude, CallType, Emit, Outcome, Answers
    <3> QED BY <1>7, <3>1, <3>2 DEF Conclude, CallType
  <2>4. check' \in [Checkers -> CheckStates]
    BY <2>1, <2>2 DEF SetCheck, ControlType, CheckStates, Over, Checkers, Calls
  <2> QED BY <1>7, <2>3, <2>4 DEF Conclude, ScheduleType, ControlType
<1>8. CASE RejectStart(i)
  BY <1>8 DEF RejectStart, CallType, ScheduleType, ControlType, TaskStates
<1>9. CASE Completes(i)
  BY <1>9 DEF Completes, CallType, ScheduleType, ControlType, TaskStates, AfterBody
<1>10. CASE Throws(i)
  BY <1>10 DEF Throws, CallType, ScheduleType, ControlType, TaskStates, AfterBody
<1> QED BY <1>1, <1>2, <1>3, <1>4, <1>5, <1>6, <1>7, <1>8, <1>9, <1>10 DEF CallAction

\* A resumed queue check keeps TypeOK.
LEMMA CheckType ==
  ASSUME TypeOK, NEW p \in Checkers, CheckActs(p)
  PROVE  TypeOK'
<1>1. PICK c \in (IF check[p] = "noSteer" THEN CheckIrc ELSE {"done"}) :
        /\ SetCheck(p, c)
        /\ task' = IF p \in Calls THEN [task EXCEPT ![p] = TaskAfter(c)] ELSE task
        /\ watch' = IF p = Watcher /\ watch = "checking" THEN WatchAfter(c) ELSE watch
  BY DEF CheckActs
<1>2. c \in {"done", "failed", "irc"}
  BY DEF CheckIrc, Failure
<1>3. task' \in [Calls -> TaskStates]
  BY <1>1 DEF TypeOK, CallType, TaskAfter, TaskStates
<1>4. CallType'
  BY <1>3 DEF CheckActs, TypeOK, CallType, body, replies
<1>5. check' \in [Checkers -> CheckStates]
  BY <1>1, <1>2 DEF SetCheck, TypeOK, ControlType, CheckStates, Over
<1>6. watch' \in {"off", "top", "checking", "waiting", "ended"}
  BY <1>1 DEF TypeOK, ControlType, WatchAfter
<1>7. ControlType'
  BY <1>5, <1>6 DEF CheckActs, TypeOK, ControlType, host
<1> QED BY <1>4, <1>7 DEF CheckActs, TypeOK, ScheduleType, record, schedule

\* Every step keeps TypeOK.
LEMMA StepType == TypeOK /\ [Next]_vars => TypeOK'
<1> SUFFICES ASSUME TypeOK, [Next]_vars PROVE TypeOK'
  OBVIOUS
<1> USE DEF TypeOK, record, schedule, body, replies, signals, watching, host
<1>1. CASE Schedule
  <2>1. PICK excl \in BOOLEAN :
          /\ exclusive' = [exclusive EXCEPT ![next] = excl]
          /\ awaits' = [awaits EXCEPT ![next] = Start(next, excl)]
          /\ lastExclusive' = IF excl THEN next ELSE lastExclusive
          /\ sharedTasks' = IF excl THEN {} ELSE sharedTasks \cup {next}
    BY <1>1 DEF Schedule
  <2>2. next \in Calls /\ next' = next + 1
    BY <1>1 DEF Schedule
  <2>3. Start(next, excl) \in SUBSET Calls
    <3>1. lastExclusive # 0 => lastExclusive \in Calls
      BY BatchAssumption DEF ScheduleType, Calls
    <3>2. sharedTasks \subseteq Calls
      BY DEF ScheduleType
    <3> QED BY <3>1, <3>2 DEF Start
  <2>4. ScheduleType'
    BY <1>1, <2>1, <2>2, <2>3, BatchAssumption DEF Schedule, ScheduleType, Calls
  <2> QED BY <1>1, <2>4 DEF Schedule, CallType, ControlType
<1>2. CASE \E i \in Calls : CallAction(i)
  BY <1>2, CallActionType
<1>3. CASE \E p \in Checkers : CheckActs(p)
  BY <1>3, CheckType
<1>4. CASE WatchAction
  <2>1. CASE WatchSubscribe
    <3>1. CASE WatchAborted
      BY <2>1, <3>1 DEF WatchSubscribe, ScheduleType, CallType, ControlType
    <3>2. CASE ~WatchAborted
      <4>1. PICK c \in CheckSteering : SetCheck(Watcher, c) /\ watch' = WatchAfter(c)
        BY <2>1, <3>2 DEF WatchSubscribe
      <4>2. c \in {"done", "failed", "steer", "noSteer"}
        BY DEF CheckSteering, Failure
      <4>3. check' \in [Checkers -> CheckStates]
        BY <4>1, <4>2 DEF SetCheck, ControlType, CheckStates, Over
      <4>4. watch' \in {"off", "top", "checking", "waiting", "ended"}
        BY <4>1 DEF WatchAfter
      <4> QED BY <2>1, <3>2, <4>3, <4>4
                 DEF WatchSubscribe, ScheduleType, CallType, ControlType
    <3> QED BY <3>1, <3>2
  <2>2. CASE WatchReleased
    BY <2>2 DEF WatchReleased, ScheduleType, CallType, ControlType
  <2>3. CASE WatchWoken
    BY <2>3 DEF WatchWoken, ScheduleType, CallType, ControlType
  <2>4. CASE TimerFires
    <3>1. PICK c \in CheckIrc \cup CheckSteering : SetCheck(Timer, c)
      BY <2>4 DEF TimerFires
    <3>2. c \in {"done", "failed", "steer", "noSteer", "irc"}
      BY DEF CheckSteering, CheckIrc, Failure
    <3>3. check' \in [Checkers -> CheckStates]
      BY <3>1, <3>2 DEF SetCheck, ControlType, CheckStates, Over
    <3> QED BY <2>4, <3>3 DEF TimerFires, ScheduleType, CallType, ControlType
  <2> QED BY <1>4, <2>1, <2>2, <2>3, <2>4 DEF WatchAction
<1>5. CASE Close
  BY <1>5 DEF Close, ScheduleType, CallType, ControlType
<1>6. CASE Sweep
  BY <1>6 DEF Sweep, Unanswered, ScheduleType, CallType, ControlType, Answers
<1>7. CASE HostAction
  <2>1. ScheduleType' /\ CallType' /\ check' = check /\ watch' = watch /\ batch' = batch
    BY <1>7 DEF HostAction, Steer, ClearSteeringQueue, PeerInterrupt, Abort, Pause,
                ScheduleType, CallType
  <2>2. woken' \in BOOLEAN
    BY <1>7 DEF HostAction, Steer, ClearSteeringQueue, PeerInterrupt, Abort, Pause, Notify,
                ControlType
  <2>3. /\ steer' \in {"none", "wait", "immediate"} /\ irc' \in BOOLEAN /\ gate' \in BOOLEAN
        /\ external' \in BOOLEAN /\ triggered' \in BOOLEAN
    BY <1>7 DEF HostAction, Steer, ClearSteeringQueue, PeerInterrupt, Abort, Pause,
                ControlType
  <2> QED BY <2>1, <2>2, <2>3 DEF ControlType
<1>8. CASE Resume
  BY <1>8 DEF Resume, ScheduleType, CallType, ControlType, TaskStates
<1>9. CASE UNCHANGED vars
  BY <1>9 DEF vars, ScheduleType, CallType, ControlType
<1> QED BY <1>1, <1>2, <1>3, <1>4, <1>5, <1>6, <1>7, <1>8, <1>9, NextCases

\* Every variable keeps its range in every reachable state.
THEOREM TypeCorrect == Spec => []TypeOK
<1>1. Init => TypeOK
  BY InitType
<1>2. TypeOK /\ [Next]_vars => TypeOK'
  BY StepType
<1> QED BY <1>1, <1>2, PTL DEF Spec

-----------------------------------------------------------------------------
(***************************************************************************)
(* The inductive invariant: what the scheduling loop has established, how  *)
(* far every call can have come, that a begun call is ordered after every  *)
(* earlier call it conflicts with, and how its result relates to its run.  *)
(***************************************************************************)
ScheduleInv ==
  /\ lastExclusive < next
  /\ \A k \in Calls : exclusive[k] => k <= lastExclusive
  /\ lastExclusive # 0 => exclusive[lastExclusive]
  /\ \A k \in Calls : (lastExclusive < k /\ k < next) => k \in sharedTasks
  /\ \A k \in sharedTasks : k < next
  /\ \A i, j \in Calls :
       (j < i /\ i < next /\ (exclusive[i] \/ exclusive[j]))
         => j \in awaits[i] \/ \E k \in awaits[i] : exclusive[k] /\ j < k

StageInv ==
  /\ \A i \in Calls : task[i] # "scheduled" => Scheduled
  /\ \A i \in Calls : check[i] # "idle" => task[i] = "checking"
  /\ batch # "running" => Scheduled /\ \A i \in Calls : Settled(i)

\* The task of call i got past its start without being rejected, or its tool ran.
Begun(i) == task[i] \notin {"scheduled", "rejected"} \/ executed[i]

OrderInv ==
  \A i, j \in Calls :
    (j < i /\ (exclusive[i] \/ exclusive[j]) /\ Begun(i)) => task[j] = "fulfilled"

\* Nothing is scheduled initially.
LEMMA ScheduleInvInit == Init => ScheduleInv
  BY BatchAssumption DEF Init, ScheduleInv, Calls

\* The scheduling loop keeps its bookkeeping: each call awaits, directly or through a later
\* exclusive call, every earlier call it conflicts with.
LEMMA ScheduleInvStep ==
  ASSUME TypeOK, ScheduleInv, Schedule
  PROVE  ScheduleInv'
<1>1. PICK excl \in BOOLEAN :
        /\ exclusive' = [exclusive EXCEPT ![next] = excl]
        /\ awaits' = [awaits EXCEPT ![next] = Start(next, excl)]
        /\ lastExclusive' = IF excl THEN next ELSE lastExclusive
        /\ sharedTasks' = IF excl THEN {} ELSE sharedTasks \cup {next}
  BY DEF Schedule
<1>2. next \in Calls /\ next' = next + 1 /\ N \in Nat
  BY BatchAssumption DEF Schedule
<1> USE DEF TypeOK, ScheduleType
<1>3. (lastExclusive < next)'
  BY <1>1, <1>2 DEF ScheduleInv, Calls
<1>4. (\A k \in Calls : exclusive[k] => k <= lastExclusive)'
  BY <1>1, <1>2 DEF ScheduleInv, Calls
<1>5. (lastExclusive # 0 => exclusive[lastExclusive])'
  BY <1>1, <1>2 DEF ScheduleInv, Calls
<1>6. (\A k \in Calls : (lastExclusive < k /\ k < next) => k \in sharedTasks)'
  BY <1>1, <1>2 DEF ScheduleInv, Calls
<1>7. (\A k \in sharedTasks : k < next)'
  <2>1. \A k \in sharedTasks : k \in Nat /\ k < next
    BY <1>2 DEF ScheduleInv, Calls
  <2>2. sharedTasks' \subseteq sharedTasks \cup {next}
    BY <1>1
  <2>3. \A k \in sharedTasks' : k < next + 1
    BY <1>2, <2>1, <2>2 DEF Calls
  <2> QED BY <1>2, <2>3
<1>8. ASSUME NEW i \in Calls, NEW j \in Calls, j < i, (i < next)',
             exclusive'[i] \/ exclusive'[j]
      PROVE  j \in awaits'[i] \/ \E k \in awaits'[i] : exclusive'[k] /\ j < k
  <2>1. CASE i < next
    <3>1. exclusive[i] \/ exclusive[j]
      BY <1>1, <1>2, <1>8, <2>1 DEF Calls
    <3>2. j \in awaits[i] \/ \E k \in awaits[i] : exclusive[k] /\ j < k
      BY <1>8, <2>1, <3>1 DEF ScheduleInv
    <3>3. awaits'[i] = awaits[i]
      BY <1>1, <1>2, <2>1 DEF Calls
    <3>4. \A k \in Calls : exclusive[k] => exclusive'[k]
      BY <1>1, <1>2 DEF ScheduleInv, Calls
    <3> QED BY <3>2, <3>3, <3>4
  <2>2. CASE i = next
    <3>1. awaits'[i] = Start(next, excl) /\ exclusive'[i] = excl /\ exclusive'[j] = exclusive[j]
      BY <1>1, <1>2, <1>8, <2>2 DEF Calls
    <3>2. CASE lastExclusive # 0 /\ j <= lastExclusive
      <4>1. lastExclusive \in awaits'[i] /\ lastExclusive \in Calls
        BY <1>2, <3>1, <3>2 DEF Start, Calls
      <4>2. exclusive'[lastExclusive]
        BY <1>1, <1>2, <3>2, <4>1 DEF ScheduleInv
      <4> QED BY <3>2, <4>1, <4>2 DEF Calls
    <3>3. CASE lastExclusive = 0 \/ lastExclusive < j
      <4>1. j \in sharedTasks
        BY <1>2, <1>8, <2>2, <3>3 DEF ScheduleInv, Calls
      <4>2. excl
        BY <1>8, <3>1, <3>3 DEF ScheduleInv, Calls
      <4> QED BY <3>1, <4>1, <4>2 DEF Start
    <3> QED BY <3>2, <3>3 DEF Calls
  <2> QED BY <1>2, <1>8, <2>1, <2>2 DEF Calls
<1>9. (\A i, j \in Calls :
         (j < i /\ i < next /\ (exclusive[i] \/ exclusive[j]))
           => j \in awaits[i] \/ \E k \in awaits[i] : exclusive[k] /\ j < k)'
  BY <1>8 DEF Calls
<1> QED BY <1>3, <1>4, <1>5, <1>6, <1>7, <1>9 DEF ScheduleInv

\* What entering past the gate does to the call, and to no other call.
LEMMA EnterShape ==
  ASSUME CallType, NEW i \in Calls, Enter(i)
  PROVE  /\ \E x \in {"fulfilled", "hook", "ended", "running"} : task' = [task EXCEPT ![i] = x]
         /\ \A j \in Calls : j # i => executed'[j] = executed[j]
         /\ executed'[i] => executed[i] \/ (task'[i] = "running" /\ ~SignalAborted(i))
<1> USE DEF Enter, CallType, body
<1>1. CASE verdict[i] = "invalid"
  BY <1>1
<1>2. CASE verdict[i] # "invalid" /\ SignalAborted(i)
  BY <1>2
<1>3. CASE verdict[i] # "invalid" /\ ~SignalAborted(i) /\ verdict[i] = "throws"
  BY <1>3
<1>4. CASE verdict[i] # "invalid" /\ ~SignalAborted(i) /\ verdict[i] # "throws"
  BY <1>4
<1> QED BY <1>1, <1>2, <1>3, <1>4

\* Every step of a call moves that call only, never a settled one, and begins it
\* only when everything its start awaits is fulfilled.
LEMMA CallShape ==
  ASSUME TypeOK, StageInv, NEW i \in Calls, CallAction(i)
  PROVE  /\ Scheduled /\ UNCHANGED <<schedule, batch>>
         /\ task[i] \in Before \cup {"running", "hook", "ended"}
         /\ \E x \in TaskStates \ {"scheduled"} : task' = [task EXCEPT ![i] = x]
         /\ \A j \in Calls : j # i => executed'[j] = executed[j] /\ check'[j] = check[j]
         /\ executed'[i] => executed[i] \/ (task'[i] = "running" /\ ~SignalAborted(i))
         /\ task[i] = "scheduled" =>
              task'[i] = "rejected" \/ \A j \in awaits[i] : task[j] = "fulfilled"
         /\ check'[i] # "idle" => task'[i] = "checking"
<1> USE DEF TypeOK, CallType, Before, TaskStates, body, watching
<1>1. CASE Preempt(i)
  BY <1>1 DEF Preempt, Ready, StageInv
<1>2. CASE Park(i)
  BY <1>2 DEF Park, Ready, StageInv
<1>3. CASE RunTool(i)
  BY <1>3, EnterShape DEF RunTool, Ready, StageInv
<1>4. CASE GateWakes(i)
  BY <1>4 DEF GateWakes, StageInv
<1>5. CASE EnterReleased(i)
  BY <1>5, EnterShape DEF EnterReleased, StageInv
<1>6. CASE HookEnds(i)
  BY <1>6 DEF HookEnds, StageInv
<1>7. CASE Conclude(i)
  <2>1. PICK c \in CheckSteering : SetCheck(i, c) /\ task' = [task EXCEPT ![i] = TaskAfter(c)]
    BY <1>7 DEF Conclude
  <2>2. check'[i] # "idle" => task'[i] = "checking"
    BY <2>1 DEF SetCheck, Over, TaskAfter, ControlType, Checkers, Calls
  <2>3. \A j \in Calls : j # i => check'[j] = check[j]
    BY <2>1 DEF SetCheck, ControlType, Checkers, Calls
  <2>4. TaskAfter(c) \in TaskStates \ {"scheduled"}
    BY DEF TaskAfter
  <2> QED BY <1>7, <2>1, <2>2, <2>3, <2>4 DEF Conclude, StageInv
<1>8. CASE RejectStart(i)
  BY <1>8 DEF RejectStart, StageInv
<1>9. CASE Completes(i)
  BY <1>9 DEF Completes, AfterBody, StageInv
<1>10. CASE Throws(i)
  BY <1>10 DEF Throws, AfterBody, StageInv
<1> QED BY <1>1, <1>2, <1>3, <1>4, <1>5, <1>6, <1>7, <1>8, <1>9, <1>10 DEF CallAction

\* A check that goes on settles its call's task or leaves it checking.
LEMMA CheckShape ==
  ASSUME TypeOK, StageInv, NEW p \in Checkers, CheckActs(p)
  PROVE  /\ UNCHANGED <<schedule, body, batch>>
         /\ p \notin Calls => task' = task
         /\ p \in Calls => /\ task[p] = "checking"
                           /\ \E x \in {"checking", "fulfilled", "rejected"} :
                                task' = [task EXCEPT ![p] = x]
                           /\ check'[p] # "idle" => task'[p] = "checking"
         /\ \A j \in Calls : j # p => check'[j] = check[j]
<1>1. PICK c \in (IF check[p] = "noSteer" THEN CheckIrc ELSE {"done"}) :
        /\ SetCheck(p, c)
        /\ task' = IF p \in Calls THEN [task EXCEPT ![p] = TaskAfter(c)] ELSE task
  BY DEF CheckActs
<1>2. TaskAfter(c) \in {"checking", "fulfilled", "rejected"}
  BY DEF TaskAfter
<1>3. \A j \in Calls : j # p => check'[j] = check[j]
  BY <1>1 DEF SetCheck, TypeOK, ControlType, Checkers, Calls
<1>4. p \in Calls => (check'[p] # "idle" => task'[p] = "checking")
  BY <1>1 DEF SetCheck, TypeOK, ControlType, CallType, Over, TaskAfter
<1>5. p \in Calls => task[p] = "checking"
  BY DEF CheckActs, StageInv
<1> QED BY <1>1, <1>2, <1>3, <1>4, <1>5 DEF CheckActs

\* Steps of the watch, the timer, the tail and the host move no call, except that
\* a resume wakes the parked ones.
OtherStep == WatchAction \/ Close \/ Sweep \/ HostAction \/ UNCHANGED vars

\* Steps of the watcher, the timer, the host and the batch itself move no call.
LEMMA OtherShape ==
  ASSUME TypeOK, OtherStep
  PROVE  /\ UNCHANGED <<schedule, task, body>>
         /\ \A j \in Calls : check'[j] = check[j]
<1>1. CASE WatchAction
  <2>1. UNCHANGED <<schedule, task, body>>
    BY <1>1 DEF WatchAction, WatchSubscribe, WatchReleased, WatchWoken, TimerFires
  <2>2. CASE WatchSubscribe
    BY <2>2, BatchAssumption
       DEF WatchSubscribe, SetCheck, Watcher, TypeOK, ControlType, Checkers, Calls
  <2>3. CASE TimerFires
    BY <2>3, BatchAssumption
       DEF TimerFires, SetCheck, Timer, TypeOK, ControlType, Checkers, Calls
  <2> QED BY <1>1, <2>1, <2>2, <2>3 DEF WatchAction, WatchReleased, WatchWoken
<1>2. CASE Close \/ Sweep
  BY <1>2 DEF Close, Sweep, watching
<1>3. CASE HostAction
  BY <1>3 DEF HostAction, Steer, ClearSteeringQueue, PeerInterrupt, Abort, Pause, watching
<1>4. CASE UNCHANGED vars
  BY <1>4 DEF vars, watching
<1> QED BY <1>1, <1>2, <1>3, <1>4 DEF OtherStep

\* No call has moved initially.
LEMMA StageInvInit == Init => StageInv
  BY DEF Init, StageInv, Checkers, Calls

\* Calls move only once all are scheduled, and the batch closes only when all are settled.
LEMMA StageInvStep ==
  ASSUME TypeOK, StageInv, [Next]_vars
  PROVE  StageInv'
<1> USE DEF StageInv, Settled, Scheduled
<1>1. CASE Schedule
  BY <1>1, BatchAssumption DEF Schedule, watching, TypeOK, ScheduleType, Calls
<1>2. ASSUME NEW i \in Calls, CallAction(i) PROVE StageInv'
  <2>1. next' = next /\ batch' = batch /\ batch = "running" /\ Scheduled
    BY <1>2, CallShape DEF schedule, Before
  <2>2. \A j \in Calls : check'[j] # "idle" => task'[j] = "checking"
    BY <1>2, CallShape DEF TypeOK, CallType, Before
  <2> QED BY <2>1, <2>2
<1>3. ASSUME NEW p \in Checkers, CheckActs(p) PROVE StageInv'
  <2>1. next' = next /\ batch' = batch
    BY <1>3, CheckShape DEF schedule
  <2>2. CASE p \in Calls
    <3>1. batch = "running" /\ Scheduled
      BY <1>3, <2>2, CheckShape
    <3>2. \A j \in Calls : check'[j] # "idle" => task'[j] = "checking"
      BY <1>3, <2>2, CheckShape DEF TypeOK, CallType
    <3> QED BY <2>1, <3>1, <3>2
  <2>3. CASE p \notin Calls
    BY <1>3, <2>1, <2>3, CheckShape
  <2> QED BY <2>2, <2>3
<1>4. CASE OtherStep
  <2>1. task' = task /\ next' = next /\ \A j \in Calls : check'[j] = check[j]
    BY <1>4, OtherShape DEF schedule
  <2>2. batch' = batch \/ Close \/ (Sweep /\ batch # "running")
    BY <1>4 DEF OtherStep, WatchAction, WatchSubscribe, WatchReleased, WatchWoken, TimerFires,
                HostAction, Steer, ClearSteeringQueue, PeerInterrupt, Abort, Pause, Sweep, vars
  <2>3. Close => Scheduled /\ \A i \in Calls : Settled(i)
    BY DEF Close
  <2> QED BY <2>1, <2>2, <2>3
<1>5. CASE Resume
  <2>1. \A j \in Calls : task'[j] = task[j] \/ (task[j] = "parked" /\ task'[j] = "waking")
    BY <1>5 DEF Resume
  <2> QED BY <1>5, <2>1 DEF Resume, InBatch, schedule, watching
<1> QED BY <1>1, <1>2, <1>3, <1>4, <1>5, NextCases DEF OtherStep

\* A fulfilled task stays fulfilled, and a rejected one rejected.
LEMMA SettledStable ==
  ASSUME TypeOK, StageInv, [Next]_vars, NEW j \in Calls, Settled(j)
  PROVE  task'[j] = task[j]
<1>1. CASE Schedule
  BY <1>1 DEF Schedule
<1>2. ASSUME NEW i \in Calls, CallAction(i) PROVE task'[j] = task[j]
  BY <1>2, CallShape DEF Settled, Before, TypeOK, CallType
<1>3. ASSUME NEW p \in Checkers, CheckActs(p) PROVE task'[j] = task[j]
  BY <1>3, CheckShape DEF Settled, TypeOK, CallType
<1>4. CASE OtherStep
  BY <1>4, OtherShape
<1>5. CASE Resume
  BY <1>5 DEF Resume, Settled
<1> QED BY <1>1, <1>2, <1>3, <1>4, <1>5, NextCases DEF OtherStep

-----------------------------------------------------------------------------
(***************************************************************************)
(* How the result of a call relates to its run.                            *)
(***************************************************************************)
AnswerInv(i) ==
  /\ task[i] \in Before => answer[i] = "none" /\ ~executed[i] /\ ~completed[i]
  /\ task[i] \in {"running", "hook", "ended"} => answer[i] = "none"
  /\ task[i] = "running" => executed[i]
  /\ task[i] = "checking" => answer[i] # "none"
  /\ completed[i] => executed[i]
  /\ executed[i] /\ Settled(i) => answer[i] # "none"
  /\ answer[i] \in {"skipped", "aborted", "invalid"} => ~executed[i]
  /\ completed[i] /\ answer[i] # "none" => answer[i] = "real"
  /\ answers[i] = IF answer[i] = "none" THEN 0 ELSE 1
  /\ batch = "done" => answer[i] # "none"

\* No call is answered initially.
LEMMA AnswerInvInit == Init => \A i \in Calls : AnswerInv(i)
  BY DEF Init, AnswerInv, Before, Settled

\* A step of call i leaves the run and the result of every other call alone.
LEMMA CallLocal ==
  ASSUME TypeOK, NEW i \in Calls, CallAction(i), NEW j \in Calls, j # i
  PROVE  /\ task'[j] = task[j] /\ executed'[j] = executed[j] /\ completed'[j] = completed[j]
         /\ answer'[j] = answer[j] /\ answers'[j] = answers[j] /\ batch' = batch
<1> USE DEF TypeOK, CallType, body, replies
<1>1. Enter(i) => /\ task'[j] = task[j] /\ executed'[j] = executed[j]
                  /\ completed'[j] = completed[j]
                  /\ answer'[j] = answer[j] /\ answers'[j] = answers[j]
  BY DEF Enter, Emit
<1>2. CASE RunTool(i) \/ EnterReleased(i)
  BY <1>1, <1>2 DEF RunTool, EnterReleased
<1>3. CASE Preempt(i) \/ Park(i) \/ GateWakes(i) \/ RejectStart(i)
  BY <1>3 DEF Preempt, Park, GateWakes, RejectStart
<1>4. CASE HookEnds(i) \/ Completes(i) \/ Throws(i)
  BY <1>4 DEF HookEnds, Completes, Throws
<1>5. CASE Conclude(i)
  BY <1>5 DEF Conclude, Emit
<1> QED BY <1>2, <1>3, <1>4, <1>5 DEF CallAction

\* A call that enters past the gate is answered only if it does not execute.
LEMMA AnswerInvEnter ==
  ASSUME TypeOK, NEW i \in Calls, AnswerInv(i), task[i] \in Before, Enter(i),
         batch' = batch, batch = "running"
  PROVE  AnswerInv(i)'
<1> USE DEF Enter, Emit, AnswerInv, Before, Settled, TypeOK, CallType, body, replies
<1>1. CASE verdict[i] = "invalid"
  BY <1>1
<1>2. CASE verdict[i] # "invalid" /\ SignalAborted(i)
  BY <1>2
<1>3. CASE verdict[i] # "invalid" /\ ~SignalAborted(i) /\ verdict[i] = "throws"
  BY <1>3
<1>4. CASE verdict[i] # "invalid" /\ ~SignalAborted(i) /\ verdict[i] # "throws"
  BY <1>4
<1> QED BY <1>1, <1>2, <1>3, <1>4

\* A call's own actions keep its result true to its run.
LEMMA AnswerInvCall ==
  ASSUME TypeOK, StageInv, NEW i \in Calls, AnswerInv(i), CallAction(i)
  PROVE  AnswerInv(i)'
<1>1. batch' = batch /\ batch = "running"
  BY CallShape DEF StageInv, Settled, Before
<1> USE <1>1 DEF AnswerInv, Before, Settled, TypeOK, CallType, body, replies
<1>2. CASE Preempt(i)
  BY <1>2 DEF Preempt, Ready
<1>3. CASE Park(i)
  BY <1>3 DEF Park, Ready
<1>4. CASE RunTool(i) \/ EnterReleased(i)
  BY <1>4, AnswerInvEnter DEF RunTool, EnterReleased, Ready
<1>5. CASE GateWakes(i)
  BY <1>5 DEF GateWakes
<1>6. CASE HookEnds(i)
  BY <1>6 DEF HookEnds
<1>7. CASE Conclude(i)
  <2>1. PICK c \in CheckSteering : task' = [task EXCEPT ![i] = TaskAfter(c)]
    BY <1>7 DEF Conclude
  <2>2. task'[i] \in {"checking", "fulfilled", "rejected"}
    BY <2>1 DEF TaskAfter
  <2>3. /\ answer[i] = "none" /\ answer'[i] = Outcome(i)
        /\ answers'[i] = answers[i] + 1 /\ answers[i] = 0
        /\ executed' = executed /\ completed' = completed
    BY <1>7 DEF Conclude, Emit
  <2> QED BY <2>2, <2>3 DEF Outcome
<1>8. CASE RejectStart(i)
  BY <1>8 DEF RejectStart
<1>9. CASE Completes(i)
  BY <1>9 DEF Completes, AfterBody
<1>10. CASE Throws(i)
  BY <1>10 DEF Throws, AfterBody
<1> QED BY <1>2, <1>3, <1>4, <1>5, <1>6, <1>7, <1>8, <1>9, <1>10 DEF CallAction

\* Every step keeps a call's result true to its run.
LEMMA AnswerInvStep ==
  ASSUME TypeOK, StageInv, \A i \in Calls : AnswerInv(i), [Next]_vars, NEW i \in Calls
  PROVE  AnswerInv(i)'
<1>1. CASE Schedule
  BY <1>1 DEF Schedule, AnswerInv, Settled, body, replies
<1>2. ASSUME NEW j \in Calls, CallAction(j) PROVE AnswerInv(i)'
  <2>1. CASE j = i
    BY <1>2, <2>1, AnswerInvCall
  <2>2. CASE j # i
    BY <1>2, <2>2, CallLocal DEF AnswerInv, Settled
  <2> QED BY <2>1, <2>2
<1>3. ASSUME NEW p \in Checkers, CheckActs(p) PROVE AnswerInv(i)'
  <2>1. UNCHANGED <<body, replies, batch>>
    BY <1>3 DEF CheckActs
  <2>2. \/ task'[i] = task[i]
        \/ task[i] = "checking" /\ task'[i] \in {"checking", "fulfilled", "rejected"}
    BY <1>3, CheckShape DEF TypeOK, CallType
  <2> QED BY <2>1, <2>2 DEF AnswerInv, Settled, Before, body, replies
<1>4. CASE Sweep
  <2>1. task' = task /\ executed' = executed /\ completed' = completed /\ Settled(i)
    BY <1>4 DEF Sweep, StageInv, body
  <2>2. CASE answer[i] = "none"
    <3>1. answer'[i] = "skipped" /\ answers'[i] = answers[i] + 1
      BY <1>4, <2>2 DEF Sweep, Unanswered
    <3>2. ~executed[i] /\ ~completed[i] /\ answers[i] = 0
      BY <2>1, <2>2 DEF AnswerInv
    <3> QED BY <2>1, <3>1, <3>2 DEF AnswerInv, Settled, Before
  <2>3. CASE answer[i] # "none"
    <3>1. answer'[i] = answer[i] /\ answers'[i] = answers[i]
      BY <1>4, <2>3 DEF Sweep, Unanswered
    <3> QED BY <2>1, <2>3, <3>1 DEF AnswerInv, Settled
  <2> QED BY <2>2, <2>3
<1>5. CASE OtherStep /\ ~Sweep
  <2>1. task' = task /\ executed' = executed /\ completed' = completed
    BY <1>5, OtherShape DEF body
  <2>2. UNCHANGED replies /\ (batch' = "done" => batch = "done")
    BY <1>5 DEF OtherStep, WatchAction, WatchSubscribe, WatchReleased, WatchWoken, TimerFires,
                HostAction, Steer, ClearSteeringQueue, PeerInterrupt, Abort, Pause, Close, vars
  <2> QED BY <2>1, <2>2 DEF AnswerInv, Settled, replies
<1>6. CASE Resume
  <2>1. task'[i] = task[i] \/ (task[i] = "parked" /\ task'[i] = "waking")
    BY <1>6 DEF Resume
  <2> QED BY <1>6, <2>1 DEF Resume, AnswerInv, Settled, Before, body, replies
<1> QED BY <1>1, <1>2, <1>3, <1>4, <1>5, <1>6, NextCases DEF OtherStep

\* No step begins a call before every earlier call it conflicts with is fulfilled.
LEMMA OrderInvStep ==
  ASSUME TypeOK, ScheduleInv, StageInv, OrderInv, \A i \in Calls : AnswerInv(i), [Next]_vars
  PROVE  OrderInv'
<1> SUFFICES ASSUME NEW i \in Calls, NEW j \in Calls, j < i,
                    exclusive'[i] \/ exclusive'[j], Begun(i)'
             PROVE  task'[j] = "fulfilled"
  BY DEF OrderInv
<1>1. CASE Begun(i) /\ exclusive' = exclusive
  BY <1>1, SettledStable DEF OrderInv, Settled
<1>2. CASE Schedule
  <2>1. ~Scheduled
    BY <1>2, BatchAssumption DEF Schedule, Scheduled, Calls
  <2>2. task'[i] = "scheduled" /\ ~executed'[i]
    BY <1>2, <2>1 DEF StageInv, Schedule, body, AnswerInv, Before
  <2> QED BY <2>2 DEF Begun
<1>3. ASSUME NEW c \in Calls, CallAction(c), ~Begun(i) PROVE task'[j] = "fulfilled"
  <2>1. c = i
    BY <1>3, CallLocal DEF Begun
  <2>2. exclusive' = exclusive /\ Scheduled
    BY <1>3, CallShape DEF schedule
  <2>3. task[i] = "scheduled" /\ task'[i] # "rejected"
    BY <1>3, <2>1, CallShape DEF Begun, Before
  <2>4. \A k \in awaits[i] : task[k] = "fulfilled"
    BY <1>3, <2>1, <2>3, CallShape
  <2>5. i < next
    BY <2>2, BatchAssumption DEF Scheduled, Calls
  <2>6. j \in awaits[i] \/ \E k \in awaits[i] : exclusive[k] /\ j < k
    BY <2>2, <2>5 DEF ScheduleInv
  <2>7. CASE j \in awaits[i]
    BY <2>4, <2>7, SettledStable DEF Settled
  <2>8. ASSUME NEW k \in awaits[i], exclusive[k], j < k PROVE task'[j] = "fulfilled"
    <3>1. k \in Calls /\ Begun(k)
      BY <2>4 DEF TypeOK, ScheduleType, Begun
    <3>2. task[j] = "fulfilled"
      BY <2>8, <3>1 DEF OrderInv
    <3> QED BY <3>2, SettledStable DEF Settled
  <2> QED BY <2>6, <2>7, <2>8
<1>4. ASSUME ~Begun(i), ~Schedule, ~ \E c \in Calls : CallAction(c) PROVE FALSE
  <2>1. ASSUME NEW p \in Checkers, CheckActs(p) PROVE Begun(i)
    BY <1>4, <2>1, CheckShape DEF Begun, body, TypeOK, CallType
  <2>2. CASE OtherStep
    BY <1>4, <2>2, OtherShape DEF Begun, body
  <2>3. CASE Resume
    BY <1>4, <2>3 DEF Resume, Begun, body
  <2> QED BY <1>4, <2>1, <2>2, <2>3, NextCases DEF OtherStep
<1>5. exclusive' = exclusive \/ Schedule
  <2>1. CASE \E c \in Calls : CallAction(c)
    BY <2>1, CallShape DEF schedule
  <2>2. CASE \E p \in Checkers : CheckActs(p)
    BY <2>2, CheckShape DEF schedule
  <2>3. CASE OtherStep
    BY <2>3, OtherShape DEF schedule
  <2>4. CASE Resume
    BY <2>4 DEF Resume, schedule
  <2> QED BY <2>1, <2>2, <2>3, <2>4, NextCases DEF OtherStep
<1> QED BY <1>1, <1>2, <1>3, <1>4, <1>5

-----------------------------------------------------------------------------
(***************************************************************************)
(* Why a call can be without an outcome of its own.                        *)
(***************************************************************************)
Excused(i) == external \/ \E j \in awaits[i] : task[j] = "rejected"

CauseInv(i) ==
  /\ task[i] = "fulfilled" /\ answer[i] = "none" => interruptible[i]
  /\ task[i] = "rejected" /\ answer[i] = "none" =>
       \E j \in awaits[i] : task[j] = "rejected"
  /\ ~interruptible[i] /\ answer[i] \in {"skipped", "aborted", "interrupted"} => Excused(i)

\* What the steps leave alone: the user's abort is never taken back, awaits is
\* fixed once a call can move, and rejected tasks stay rejected.
LEMMA CauseFrame ==
  ASSUME TypeOK, StageInv, [Next]_vars, ~Schedule, NEW i \in Calls
  PROVE  /\ interruptible' = interruptible /\ awaits' = awaits
         /\ external => external'
         /\ \A j \in awaits[i] : task[j] = "rejected" => task'[j] = "rejected"
<1>1. interruptible' = interruptible /\ awaits' = awaits /\ (external => external')
  <2>1. ASSUME NEW c \in Calls, CallAction(c)
        PROVE  UNCHANGED <<record, schedule, signals>>
    BY <2>1 DEF CallAction, Preempt, Park, RunTool, GateWakes, EnterReleased, HookEnds,
                Conclude, RejectStart, Completes, Throws
  <2>2. ASSUME NEW p \in Checkers, CheckActs(p)
        PROVE  UNCHANGED <<record, schedule, external>>
    BY <2>2 DEF CheckActs
  <2>3. CASE HostAction
    BY <2>3 DEF HostAction, Steer, ClearSteeringQueue, PeerInterrupt, Abort, Pause,
                record, schedule, signals
  <2>4. CASE WatchAction \/ Close \/ Sweep \/ UNCHANGED vars \/ Resume
    BY <2>4 DEF WatchAction, WatchSubscribe, WatchReleased, WatchWoken,
                TimerFires, Close, Sweep, Resume, vars, record, schedule, signals
  <2> QED BY <2>1, <2>2, <2>3, <2>4, NextCases DEF record, schedule, signals
<1>2. \A j \in awaits[i] : task[j] = "rejected" => task'[j] = "rejected"
  BY SettledStable DEF Settled, TypeOK, ScheduleType
<1> QED BY <1>1, <1>2

\* No step leaves a call without its own outcome except for a cause that excuses it.
LEMMA CauseInvStep ==
  ASSUME TypeOK, StageInv, [Next]_vars, NEW i \in Calls, AnswerInv(i), CauseInv(i)
  PROVE  CauseInv(i)'
<1>1. CASE Schedule
  <2>1. task[i] = "scheduled" /\ task'[i] = "scheduled"
    BY <1>1, BatchAssumption DEF Schedule, StageInv, Scheduled, Calls
  <2>2. answer'[i] = "none"
    BY <1>1, <2>1 DEF Schedule, AnswerInv, Before, replies
  <2> QED BY <2>1, <2>2 DEF CauseInv
<1>2. CASE ~Schedule /\ task'[i] = task[i] /\ answer'[i] = answer[i]
  BY <1>2, CauseFrame DEF CauseInv, Excused
<1>3. CASE CallAction(i)
  <2> USE DEF TypeOK, CallType, CauseInv, Excused
  <2>0. ~Schedule
    BY <1>3, CallShape, BatchAssumption DEF Schedule, Scheduled, Calls
  <2>1. CASE Preempt(i)
    BY <2>0, <2>1, CauseFrame DEF Preempt, Ready, replies
  <2>2. CASE Park(i) \/ GateWakes(i) \/ HookEnds(i) \/ Completes(i) \/ Throws(i)
    <3>1. task'[i] \in {"released", "parked", "ended", "hook"} /\ answer' = answer
      BY <2>2 DEF Park, GateWakes, HookEnds, Completes, Throws, AfterBody, replies
    <3> QED BY <2>0, <3>1, CauseFrame
  <2>3. CASE RunTool(i) \/ EnterReleased(i)
    <3>1. Enter(i) /\ answer[i] = "none"
      BY <2>3 DEF RunTool, EnterReleased, Ready, AnswerInv, Before
    <3>2. \/ task'[i] = "fulfilled" /\ answer'[i] = "invalid"
          \/ task'[i] = "fulfilled" /\ answer'[i] = "aborted" /\ SignalAborted(i)
          \/ task'[i] \in {"hook", "ended", "running"} /\ answer'[i] = "none"
      BY <3>1 DEF Enter, Emit, replies
    <3>3. SignalAborted(i) => external \/ interruptible[i]
      BY DEF SignalAborted
    <3> QED BY <2>0, <3>2, <3>3, CauseFrame
  <2>4. CASE Conclude(i)
    <3>1. answer'[i] = Outcome(i)
      BY <2>4 DEF Conclude, Emit, AnswerInv
    <3>2. Outcome(i) = "real" \/ (Outcome(i) = "interrupted" /\ (external \/ interruptible[i]))
      BY DEF Outcome, SignalAborted
    <3> QED BY <2>0, <3>1, <3>2, CauseFrame
  <2>5. CASE RejectStart(i)
    BY <2>0, <2>5, CauseFrame DEF RejectStart, replies
  <2> QED BY <1>3, <2>1, <2>2, <2>3, <2>4, <2>5 DEF CallAction
<1>4. ASSUME NEW c \in Calls, CallAction(c), c # i PROVE CauseInv(i)'
  <2>1. task'[i] = task[i] /\ answer'[i] = answer[i] /\ ~Schedule
    BY <1>4, CallLocal, CallShape, BatchAssumption DEF Schedule, Scheduled, Calls
  <2> QED BY <1>2, <2>1
<1>5. ASSUME NEW p \in Checkers, CheckActs(p) PROVE CauseInv(i)'
  <2>1. answer' = answer /\ ~Schedule
    BY <1>5, CheckShape, BatchAssumption DEF CheckActs, replies, Schedule, schedule, Calls
  <2>2. CASE p # i \/ p \notin Calls
    <3>1. task'[i] = task[i]
      BY <1>5, <2>2, CheckShape DEF TypeOK, CallType
    <3> QED BY <1>2, <2>1, <3>1
  <2>3. CASE p = i
    <3>1. answer[i] # "none"
      BY <1>5, <2>3, CheckShape DEF AnswerInv
    <3> QED BY <2>1, <3>1, CauseFrame DEF CauseInv, Excused
  <2> QED BY <2>2, <2>3
<1>6. CASE Sweep
  <2>1. task' = task /\ ~Schedule /\ (task[i] = "fulfilled" \/ task[i] = "rejected")
    BY <1>6, BatchAssumption DEF Sweep, StageInv, Settled, Schedule, Scheduled, Calls
  <2>2. answer'[i] = IF answer[i] = "none" THEN "skipped" ELSE answer[i]
    BY <1>6 DEF Sweep, Unanswered
  <2> QED BY <2>1, <2>2, CauseFrame DEF CauseInv, Excused
<1>7. CASE OtherStep /\ ~Sweep /\ ~Schedule
  <2>1. task' = task
    BY <1>7, OtherShape
  <2>2. UNCHANGED replies
    BY <1>7 DEF OtherStep, WatchAction, WatchSubscribe, WatchReleased, WatchWoken, TimerFires,
                HostAction, Steer, ClearSteeringQueue, PeerInterrupt, Abort, Pause, Close, vars
  <2> QED BY <1>2, <1>7, <2>1, <2>2 DEF replies
<1>8. CASE Resume /\ ~Schedule
  <2>1. task'[i] = task[i] \/ task'[i] = "waking"
    BY <1>8 DEF Resume
  <2> QED BY <1>8, <2>1, CauseFrame DEF Resume, CauseInv, Excused, replies
<1> QED BY <1>1, <1>3, <1>4, <1>5, <1>6, <1>7, <1>8, NextCases DEF OtherStep

-----------------------------------------------------------------------------
(***************************************************************************)
(* The theorems.                                                           *)
(***************************************************************************)
IInv ==
  /\ TypeOK /\ ScheduleInv /\ StageInv /\ OrderInv
  /\ \A i \in Calls : AnswerInv(i)
  /\ \A i \in Calls : CauseInv(i)

\* The inductive invariant holds initially.
LEMMA IInvInit == Init => IInv
<1> SUFFICES ASSUME Init PROVE IInv
  OBVIOUS
<1>1. OrderInv
  BY DEF Init, OrderInv, Begun
<1>2. \A i \in Calls : CauseInv(i)
  BY DEF Init, CauseInv
<1> QED BY <1>1, <1>2, InitType, ScheduleInvInit, StageInvInit, AnswerInvInit DEF IInv

\* The inductive invariant is inductive.
LEMMA IInvStep == IInv /\ [Next]_vars => IInv'
<1> SUFFICES ASSUME IInv, [Next]_vars PROVE IInv'
  OBVIOUS
<1>1. TypeOK /\ ScheduleInv /\ StageInv /\ OrderInv
  BY DEF IInv
<1>2. ScheduleInv'
  <2>1. CASE Schedule
    BY <1>1, <2>1, ScheduleInvStep
  <2>2. CASE ~Schedule
    <3>1. UNCHANGED schedule
      BY <1>1, <2>2, CallShape, CheckShape, OtherShape, NextCases DEF Resume, OtherStep
    <3> QED BY <1>1, <3>1 DEF ScheduleInv, schedule
  <2> QED BY <2>1, <2>2
<1>3. \A i \in Calls : AnswerInv(i)'
  BY AnswerInvStep DEF IInv
<1>4. \A i \in Calls : CauseInv(i)'
  BY CauseInvStep DEF IInv
<1>5. TypeOK' /\ StageInv' /\ OrderInv'
  BY StepType, StageInvStep, OrderInvStep DEF IInv
<1> QED BY <1>2, <1>3, <1>4, <1>5 DEF IInv, Calls

\* The inductive invariant holds in every reachable state.
THEOREM Invariance == Spec => []IInv
<1>1. Init => IInv
  BY IInvInit
<1>2. IInv /\ [Next]_vars => IInv'
  BY IInvStep
<1> QED BY <1>1, <1>2, PTL DEF Spec

\* An exclusive call runs alone, and conflicting calls run in message order.
THEOREM ExclusiveOrderHolds == Spec => []ExclusiveOrder
<1>1. IInv => ExclusiveOrder
  BY DEF IInv, OrderInv, ExclusiveOrder, Begun, Occupied
<1> QED BY <1>1, Invariance, PTL

\* No call contributes two results, and a finished batch has one for each.
THEOREM PairingHolds == Spec => [](AnsweredOnce /\ Paired)
<1>1. IInv => AnsweredOnce /\ Paired
  BY DEF IInv, AnswerInv, AnsweredOnce, Paired
<1> QED BY <1>1, Invariance, PTL

\* A result saying the tool did not run is never given to a call that ran.
THEOREM NotRunHolds == Spec => []NotRunMeansNotRun
<1>1. IInv => NotRunMeansNotRun
  BY DEF IInv, AnswerInv, NotRunMeansNotRun
<1> QED BY <1>1, Invariance, PTL

\* A tool that returned keeps its own result.
THEOREM CompletedKeptHolds == Spec => []CompletedResultKept
<1>1. IInv => CompletedResultKept
  BY DEF IInv, AnswerInv, CompletedResultKept
<1> QED BY <1>1, Invariance, PTL

\* No interrupt costs a non-interruptible call its execution.
THEOREM SideEffectsHold == Spec => []SideEffectsNotSkipped
<1>1. IInv => SideEffectsNotSkipped
  BY DEF IInv, CauseInv, Excused, SideEffectsNotSkipped
<1> QED BY <1>1, Invariance, PTL

\* Once an interrupt is recorded no interruptible call begins to execute.
THEOREM PreemptionHolds == Spec => InterruptPreemptsWaits
<1>1. IInv /\ [Next]_vars =>
        [\A i \in Calls : (interruptible[i] /\ triggered /\ ~executed[i]) => ~executed'[i]]_vars
  <2> SUFFICES ASSUME IInv, [Next]_vars, NEW i \in Calls,
                      interruptible[i], triggered, ~executed[i]
               PROVE  ~executed'[i]
    OBVIOUS
  <2>1. TypeOK /\ StageInv
    BY DEF IInv
  <2>2. CASE CallAction(i)
    BY <2>1, <2>2, CallShape DEF SignalAborted
  <2>3. ASSUME NEW c \in Calls, CallAction(c), c # i PROVE ~executed'[i]
    BY <2>1, <2>3, CallLocal
  <2>4. CASE Schedule \/ Resume
    BY <2>4 DEF Schedule, Resume, body
  <2>5. CASE \E p \in Checkers : CheckActs(p)
    BY <2>1, <2>5, CheckShape DEF body
  <2>6. CASE OtherStep
    BY <2>1, <2>6, OtherShape DEF body
  <2> QED BY <2>2, <2>3, <2>4, <2>5, <2>6, NextCases DEF OtherStep
<1> QED BY <1>1, Invariance, PTL DEF Spec, InterruptPreemptsWaits

\* A resume leaves no call waiting for a promise that is never resolved again.
THEOREM ParkedHolds == Spec => []ParkedOnlyWhilePaused
<1>1. Init => ParkedOnlyWhilePaused
  BY DEF Init, ParkedOnlyWhilePaused
<1>2. IInv /\ ParkedOnlyWhilePaused /\ [Next]_vars => ParkedOnlyWhilePaused'
  <2> SUFFICES ASSUME IInv, ParkedOnlyWhilePaused, [Next]_vars, NEW i \in Calls,
                      task'[i] = "parked"
               PROVE  gate'
    BY DEF ParkedOnlyWhilePaused
  <2>1. TypeOK /\ StageInv
    BY DEF IInv
  <2>2. CASE CallAction(i)
    <3> USE DEF TypeOK, CallType, host
    <3>1. Enter(i) => task'[i] # "parked"
      BY <2>1, EnterShape
    <3>2. Conclude(i) => task'[i] # "parked"
      BY DEF Conclude, TaskAfter
    <3>3. Park(i) \/ GateWakes(i)
      <4>1. ~RunTool(i) /\ ~EnterReleased(i) /\ ~Conclude(i)
        BY <3>1, <3>2 DEF RunTool, EnterReleased
      <4>2. ~Preempt(i) /\ ~RejectStart(i) /\ ~HookEnds(i)
        BY <2>1 DEF Preempt, RejectStart, HookEnds
      <4>3. ~Completes(i) /\ ~Throws(i)
        BY <2>1 DEF Completes, Throws, AfterBody
      <4> QED BY <2>2, <4>1, <4>2, <4>3 DEF CallAction
    <3>4. Park(i) => gate' = gate /\ gate
      BY DEF Park
    <3>5. GateWakes(i) => gate' = gate /\ gate
      BY <2>1 DEF GateWakes
    <3> QED BY <3>3, <3>4, <3>5
  <2>3. ASSUME NEW c \in Calls, CallAction(c), c # i PROVE gate'
    <3>1. task'[i] = task[i]
      BY <2>1, <2>3, CallLocal
    <3>2. gate' = gate
      BY <2>3 DEF CallAction, Preempt, Park, RunTool, GateWakes, EnterReleased, HookEnds,
                  Conclude, RejectStart, Completes, Throws, host
    <3> QED BY <3>1, <3>2 DEF ParkedOnlyWhilePaused
  <2>4. CASE \E p \in Checkers : CheckActs(p)
    <3>1. task'[i] = task[i] /\ gate' = gate
      BY <2>1, <2>4, CheckShape DEF TypeOK, CallType, CheckActs, host
    <3> QED BY <3>1 DEF ParkedOnlyWhilePaused
  <2>5. CASE Resume
    BY <2>5 DEF Resume
  <2>6. CASE OtherStep \/ Schedule
    <3>1. task'[i] = task[i]
      BY <2>1, <2>6, OtherShape DEF Schedule
    <3>2. gate' = gate \/ gate' = TRUE
      BY <2>6 DEF OtherStep, WatchAction, WatchSubscribe, WatchReleased, WatchWoken, TimerFires,
                  HostAction, Steer, ClearSteeringQueue, PeerInterrupt, Abort, Pause, Close,
                  Sweep, Schedule, vars, host
    <3> QED BY <3>1, <3>2 DEF ParkedOnlyWhilePaused
  <2> QED BY <2>2, <2>3, <2>4, <2>5, <2>6, NextCases DEF OtherStep
<1> QED BY <1>1, <1>2, Invariance, PTL DEF Spec
=============================================================================
