-------------------------- MODULE AsyncJobs_proof --------------------------
(***************************************************************************)
(* Invariants of AsyncJobs proved for any jobs, ids, bounds and            *)
(* environment: type correctness, the eviction timers, the delivery loop.  *)
(*                                                                         *)
(* TimersServeRows is not inductive alone: a run that settles arms the     *)
(* timer of the id it was registered under, so the row under that id must  *)
(* still be its own (LiveRows, which in turn needs RowIds for the ids that *)
(* are reused), and a delivery that resolves arms the timer of a consumed  *)
(* id, whose row must have settled (ConsumedSettled).                      *)
(***************************************************************************)
EXTENDS AsyncJobs, TLAPS

\* The row under an id is of a job registered under that id.
RowIds == \A i \in Ids : row[i] # NoJob => jobId[row[i]] = i /\ status[row[i]] # "new"

\* A job that has not settled keeps its row.
LiveRows ==
  \A j \in Jobs : status[j] \in {"running", "cancelled"}
                    => jobId[j] \in Ids /\ row[jobId[j]] = j

\* A pending delivery is of a registered job.
PendingIds == \A j \in Jobs : Pending(j) => jobId[j] \in Ids

ConsumedSettled == \A i \in consumed : row[i] # NoJob /\ Settled(row[i])

\* A call holds registered jobs.
HeldIds == \A j \in held : jobId[j] \in Ids

IInv ==
  /\ TypeOK /\ RowIds /\ LiveRows /\ PendingIds /\ ConsumedSettled /\ HeldIds
  /\ TimersServeRows /\ LoopServesQueue

-----------------------------------------------------------------------------
DeliveryStates ==
  {"none", "queued", "backoff", "formatting", "parked", "delivered", "rejected"}

\* What a step that sets the deliveries to d, perhaps through a run of the
\* loop, leaves behind.
QueueStep(d) ==
  /\ delivery' \in [Jobs -> DeliveryStates] /\ stamp' \in [Jobs -> Nat]
  /\ loop' \in {"off", "waiting", "woken", "ending"}
  /\ (\E j \in Jobs : Queued(delivery', j)) => loop' # "off"
  /\ \A j \in Jobs : delivery'[j] # "none" => d[j] # "none"

\* A run of the loop leaves only backed-off deliveries queued and waits for
\* them: #runDeliveryLoop.
LEMMA LoopRunsStep ==
  ASSUME TypeOK, NEW d \in [Jobs -> DeliveryStates], NEW quiet, LoopRuns(d, quiet)
  PROVE  QueueStep(d)
<1>1. Dispatch(d, quiet) \in [Jobs -> DeliveryStates]
  BY DEF Dispatch, DeliveryStates
<1>2. stamp' \in [Jobs -> Nat]
  BY DEF LoopRuns, TypeOK
<1>3. \A j \in Jobs : Queued(delivery', j) => Dispatch(d, quiet)[j] = "backoff"
  BY DEF LoopRuns, Dispatch, Queued
<1>4. loop' \in {"waiting", "ending"}
  BY DEF LoopRuns
<1>5. \A j \in Jobs : delivery'[j] # "none" => d[j] # "none"
  BY DEF LoopRuns, Dispatch, Queued
<1> QED
  BY <1>1, <1>2, <1>3, <1>4, <1>5 DEF LoopRuns, QueueStep

\* Queueing a delivery finds a live loop or starts one: #ensureDeliveryLoop.
LEMMA EnsureStep ==
  ASSUME TypeOK, NEW d \in [Jobs -> DeliveryStates], Ensure(d)
  PROVE  QueueStep(d)
<1>1. CASE loop = "off" /\ \E j \in Jobs : Queued(d, j)
  BY <1>1, LoopRunsStep DEF Ensure
<1>2. CASE ~(loop = "off" /\ \E j \in Jobs : Queued(d, j))
  BY <1>2 DEF Ensure, Notify, QueueStep, TypeOK
<1> QED
  BY <1>1, <1>2

\* Acknowledging ids only removes queued deliveries.
LEMMA AcknowledgeStep ==
  ASSUME TypeOK, LoopServesQueue, NEW I \in SUBSET Ids, acknowledgeDeliveries(I)
  PROVE  QueueStep(delivery) /\ suppressed' \subseteq Ids
<1> DEFINE quiet == suppressed \cup I \cup watched
<1>1. /\ Purge(quiet) \in [Jobs -> DeliveryStates]
      /\ \A j \in Jobs : Purge(quiet)[j] # "none" => Purge(quiet)[j] = delivery[j]
  BY DEF Purge, DeliveryStates, TypeOK
<1>2. delivery' \in [Jobs -> DeliveryStates]
  BY <1>1 DEF acknowledgeDeliveries, TypeOK, DeliveryStates
<1>3. \A j \in Jobs : delivery'[j] # "none" => delivery'[j] = delivery[j]
  BY <1>1 DEF acknowledgeDeliveries
<1>4. loop' \in {"off", "waiting", "woken", "ending"} /\ (loop # "off" => loop' # "off")
  BY DEF acknowledgeDeliveries, Notify, TypeOK
<1> QED
  BY <1>2, <1>3, <1>4 DEF QueueStep, LoopServesQueue, Queued, acknowledgeDeliveries, TypeOK

\* A step that leaves the queue alone.
LEMMA QuietStep ==
  ASSUME TypeOK, LoopServesQueue, UNCHANGED queue
  PROVE  QueueStep(delivery)
BY DEF QueueStep, LoopServesQueue, queue, TypeOK, DeliveryStates, Queued

-----------------------------------------------------------------------------
(***************************************************************************)
(* The rows, their marks and timers.                                       *)
(***************************************************************************)
Statuses == {"new", "running", "finished", "cancelled", "reaped"}

RowType ==
  /\ status \in [Jobs -> Statuses] /\ jobId \in [Jobs -> Ids \cup {NoJob}]
  /\ era \in [Jobs -> Nat] /\ row \in [Ids -> Jobs \cup {NoJob}]
  /\ lost \in [Jobs -> {"none", "full", "short"}]
  /\ consumed \subseteq Ids /\ timer \in [Ids -> {"none", "full", "short"}]
  /\ epoch \in Nat

RowInv == RowType /\ RowIds /\ LiveRows /\ ConsumedSettled /\ TimersServeRows

\* consumeJobResults marks settled rows and touches no other.
LEMMA ConsumeStep ==
  ASSUME IInv, NEW S \in SUBSET Jobs, \A j \in S : jobId[j] \in Ids, Consume(S),
         UNCHANGED jobs, UNCHANGED epoch
  PROVE  /\ RowInv' /\ QueueStep(delivery)
         /\ suppressed' \subseteq Ids /\ received' \subseteq Jobs
<1> DEFINE I == {i \in IdsOf(S) : row[i] # NoJob /\ status[row[i]] # "running"}
           U == Unconsumed(I)
           Waiting == {j \in Jobs : Queued(delivery', j) \/ InFlight(j)}
<1> USE DEF IInv
<1>1. I \in SUBSET Ids
  BY DEF IdsOf
<1>2. U \subseteq Ids /\ \A i \in U : row[i] \in Jobs /\ row[i] # NoJob /\ Settled(row[i])
  BY <1>1 DEF Unconsumed, TypeOK
<1>3. acknowledgeDeliveries(I)
  BY DEF Consume
<1>4. QueueStep(delivery) /\ suppressed' \subseteq Ids
  BY <1>1, <1>3, AcknowledgeStep
<1>5. consumed' = consumed \cup U
  BY DEF Consume
<1>6. received' = received \cup {row[i] : i \in U}
  BY DEF Consume
<1>7. received' \subseteq Jobs
  BY <1>2, <1>6 DEF TypeOK
<1>8. timer' = [i \in Ids |-> IF i \in U \ IdsOf(Waiting) THEN "short" ELSE timer[i]]
  BY DEF Consume, Shorten
<1>9. RowInv'
  <2> HIDE DEF I, U, Waiting
  <2>1. RowType'
    BY <1>2, <1>5, <1>8 DEF RowType, TypeOK, jobs, Statuses
  <2>2. RowIds' /\ LiveRows'
    BY DEF RowIds, LiveRows, jobs
  <2>3. ConsumedSettled'
    BY <1>2, <1>5 DEF ConsumedSettled, Settled, jobs
  <2>4. TimersServeRows'
    BY <1>2, <1>8 DEF TimersServeRows, Settled, jobs, TypeOK
  <2> QED
    BY <2>1, <2>2, <2>3, <2>4 DEF RowInv
<1> QED
  BY <1>4, <1>7, <1>9

\* Steps that leave rows, ids, marks and timers alone.
LEMMA RowQuiet ==
  ASSUME IInv, UNCHANGED <<jobs, consumed, timer, epoch>>
  PROVE  RowInv'
BY DEF IInv, RowInv, RowType, Statuses, RowIds, LiveRows, ConsumedSettled, TimersServeRows,
       TypeOK, Settled, jobs

\* The invariant after a step, from its parts.
LEMMA Assemble ==
  ASSUME RowInv', NEW d, QueueStep(d),
         \A j \in Jobs : d[j] # "none" => jobId'[j] \in Ids,
         suppressed' \subseteq Ids, watched' \subseteq Ids, failures' \in Nat,
         tool' \in {"none", "waiting", "raced", "unwatched", "foreground", "expired",
                    "answered"},
         held' \subseteq Jobs, message' \in BOOLEAN,
         \A j \in held' : jobId'[j] \in Ids,
         received' \subseteq Jobs, injected' \in [Jobs -> SUBSET Nat]
  PROVE  IInv'
<1>1. TypeOK'
  BY DEF RowInv, RowType, ConsumedSettled, QueueStep, TypeOK, DeliveryStates, Statuses
<1>2. PendingIds'
  BY DEF QueueStep, PendingIds, Pending, Queued, InFlight
<1>3. LoopServesQueue'
  BY DEF QueueStep, LoopServesQueue
<1>4. HeldIds'
  BY DEF HeldIds
<1> QED
  BY <1>1, <1>2, <1>3, <1>4 DEF RowInv, IInv

-----------------------------------------------------------------------------
(***************************************************************************)
(* Each step preserves IInv.                                               *)
(***************************************************************************)
LEMMA Initially == Init => IInv
<1> SUFFICES ASSUME Init PROVE IInv
  OBVIOUS
<1>1. TypeOK
  BY DEF Init, TypeOK
<1>2. RowIds /\ LiveRows /\ PendingIds /\ ConsumedSettled /\ HeldIds
  BY DEF Init, RowIds, LiveRows, PendingIds, Pending, Queued, InFlight, ConsumedSettled,
         HeldIds
<1>3. TimersServeRows /\ LoopServesQueue
  BY DEF Init, TimersServeRows, LoopServesQueue, Queued
<1> QED
  BY <1>1, <1>2, <1>3 DEF IInv

\* The steps of the queue, the sink and the tools that touch no row.
LEMMA QueueSteps ==
  ASSUME IInv, UNCHANGED <<jobs, consumed, timer, epoch>>,
         NEW d \in [Jobs -> DeliveryStates], QueueStep(d),
         \A j \in Jobs : d[j] # "none" => Pending(j),
         UNCHANGED <<suppressed, watched, failures, call, model>>
  PROVE  IInv'
<1>1. RowInv'
  BY RowQuiet
<1>2. \A j \in Jobs : d[j] # "none" => jobId'[j] \in Ids
  BY DEF IInv, PendingIds, jobs
<1> QED
  BY <1>1, <1>2, Assemble DEF IInv, TypeOK, HeldIds, call, model, jobs

\* A delivery that is not "none" is pending.
LEMMA PendingIsNotNone ==
  ASSUME TypeOK, NEW j \in Jobs
  PROVE  delivery[j] # "none" <=> Pending(j)
BY DEF TypeOK, Pending, Queued, InFlight

\* The delivery loop's own steps keep IInv: only it ends, and only with an empty queue.
LEMMA LoopPreserves ==
  ASSUME IInv, Loop
  PROVE  IInv'
<1> USE DEF IInv
<1>0. delivery \in [Jobs -> DeliveryStates]
  BY DEF TypeOK, DeliveryStates
<1>1. CASE LoopWakes
  <2>1. QueueStep(delivery)
    BY <1>0, <1>1, LoopRunsStep DEF LoopWakes
  <2> QED
    BY <1>0, <1>1, <2>1, QueueSteps, PendingIsNotNone DEF LoopWakes, marks
<1>2. CASE LoopEnds
  <2>1. CASE \E j \in Jobs : Queued(delivery, j)
    <3>1. QueueStep(delivery)
      BY <1>0, <1>2, <2>1, LoopRunsStep DEF LoopEnds
    <3> QED
      BY <1>0, <1>2, <3>1, QueueSteps, PendingIsNotNone DEF LoopEnds, marks
  <2>2. CASE ~\E j \in Jobs : Queued(delivery, j)
    <3>1. QueueStep(delivery)
      BY <1>0, <1>2, <2>2 DEF LoopEnds, QueueStep, TypeOK, Queued
    <3> QED
      BY <1>0, <1>2, <3>1, QueueSteps, PendingIsNotNone DEF LoopEnds, marks
  <2> QED
    BY <2>1, <2>2
<1>3. ASSUME NEW j \in Jobs, BackoffElapses(j)
      PROVE  IInv'
  <2>1. QueueStep(delivery)
    BY <1>0, <1>3 DEF BackoffElapses, QueueStep, Notify, TypeOK, LoopServesQueue, Queued,
                      DeliveryStates
  <2> QED
    BY <1>0, <1>3, <2>1, QueueSteps, PendingIsNotNone DEF BackoffElapses, marks
<1> QED
  BY <1>1, <1>2, <1>3 DEF Loop

\* register keeps IInv: the id it takes has no row, hence no timer and no mark.
LEMMA RegisterPreserves ==
  ASSUME IInv, NEW j \in Jobs, NEW i \in Ids, NEW f \in BOOLEAN, Register(j, i, f)
  PROVE  IInv'
<1> USE DEF IInv
<1>1. /\ status[j] = "new" /\ row[i] = NoJob /\ NoJob \notin Jobs
      /\ status' = [status EXCEPT ![j] = "running"]
      /\ jobId' = [jobId EXCEPT ![j] = i]
      /\ era' = [era EXCEPT ![j] = epoch]
      /\ row' = [row EXCEPT ![i] = j]
      /\ consumed' = consumed \ {i}
      /\ UNCHANGED <<lost, watched, timer, epoch, failures, message, model>>
  BY JobsAssumption DEF Register
<1>2. QueueStep(delivery) /\ suppressed' \subseteq Ids
  <2>1. CASE f
    BY <2>1, AcknowledgeStep DEF Register
  <2>2. CASE ~f
    BY <2>2, QuietStep DEF Register, TypeOK, queue
  <2> QED
    BY <2>1, <2>2
<1>3. RowType'
  BY <1>1 DEF RowType, TypeOK, Statuses
<1>4. RowIds'
  BY <1>1 DEF RowIds, TypeOK
<1>5. LiveRows'
  <2> SUFFICES ASSUME NEW k \in Jobs, status'[k] \in {"running", "cancelled"}
               PROVE  jobId'[k] \in Ids /\ row'[jobId'[k]] = k
    BY DEF LiveRows
  <2>1. CASE k = j
    BY <1>1, <2>1 DEF TypeOK
  <2>2. CASE k # j
    <3>1. jobId[k] \in Ids /\ row[jobId[k]] = k
      BY <1>1, <2>2 DEF LiveRows, TypeOK
    <3> QED
      BY <1>1, <2>2, <3>1 DEF TypeOK
  <2> QED
    BY <2>1, <2>2
<1>6. ConsumedSettled'
  BY <1>1 DEF ConsumedSettled, Settled, RowIds, TypeOK
<1>7. TimersServeRows'
  BY <1>1 DEF TimersServeRows, Settled, RowIds, TypeOK
<1>8. RowInv'
  BY <1>3, <1>4, <1>5, <1>6, <1>7 DEF RowInv
<1>9. \A k \in Jobs : delivery[k] # "none" => jobId'[k] \in Ids
  BY <1>1, PendingIsNotNone DEF PendingIds, TypeOK
<1>10. tool' \in {"none", "waiting", "raced", "unwatched", "foreground", "expired", "answered"}
       /\ held' \subseteq Jobs /\ \A k \in held' : jobId'[k] \in Ids
  <2>1. CASE f
    BY <1>1, <2>1 DEF Register, TypeOK
  <2>2. CASE ~f
    BY <1>1, <2>2 DEF Register, TypeOK, HeldIds
  <2> QED
    BY <2>1, <2>2
<1> QED
  BY <1>1, <1>2, <1>8, <1>9, <1>10, Assemble DEF TypeOK, model

\* A run that settles keeps IInv: it arms the timer of its own row and queues its result.
LEMMA FinishPreserves ==
  ASSUME IInv, NEW j \in Jobs, Finish(j)
  PROVE  IInv'
<1> USE DEF IInv
<1>1. /\ status[j] = "running"
      /\ status' = [status EXCEPT ![j] = "finished"]
      /\ timer' = [timer EXCEPT ![jobId[j]] = "full"]
      /\ UNCHANGED <<jobId, era, row, lost, suppressed, watched, consumed, epoch, failures,
                     held, message, model>>
  BY DEF Finish
<1>2. jobId[j] \in Ids /\ row[jobId[j]] = j
  BY <1>1 DEF LiveRows
<1> DEFINE d == [delivery EXCEPT ![j] = "queued"]
<1>3. d \in [Jobs -> DeliveryStates]
  BY DEF TypeOK, DeliveryStates
<1>4. QueueStep(d)
  <2>1. CASE isDeliverySuppressed(jobId[j])
    <3>1. QueueStep(delivery)
      BY <2>1, QuietStep DEF Finish, Enqueue
    <3> QED
      BY <3>1 DEF QueueStep, TypeOK
  <2>2. CASE ~isDeliverySuppressed(jobId[j])
    BY <1>3, <2>2, EnsureStep DEF Finish, Enqueue
  <2> QED
    BY <2>1, <2>2
<1>5. \A k \in Jobs : d[k] # "none" => jobId'[k] \in Ids
  BY <1>1, <1>2, PendingIsNotNone DEF PendingIds, TypeOK
<1>6. RowType'
  BY <1>1, <1>2 DEF RowType, TypeOK, Statuses
<1>7. RowIds' /\ LiveRows'
  BY <1>1, <1>2 DEF RowIds, LiveRows, TypeOK
<1>8. ConsumedSettled' /\ TimersServeRows'
  BY <1>1, <1>2, JobsAssumption DEF ConsumedSettled, TimersServeRows, Settled, RowIds, TypeOK
<1>9. RowInv'
  BY <1>6, <1>7, <1>8 DEF RowInv
<1>10. tool' \in {"none", "waiting", "raced", "unwatched", "foreground", "expired", "answered"}
  BY DEF Finish, TypeOK
<1>11. \A k \in held' : jobId'[k] \in Ids
  BY <1>1 DEF HeldIds
<1> HIDE DEF d
<1> QED
  BY <1>1, <1>4, <1>5, <1>9, <1>10, <1>11, Assemble DEF TypeOK, model

\* A cancelled run that settles keeps IInv: it arms the timer of its own row.
LEMMA ReapPreserves ==
  ASSUME IInv, NEW j \in Jobs, Reap(j)
  PROVE  IInv'
<1> USE DEF IInv
<1>1. /\ status[j] = "cancelled"
      /\ status' = [status EXCEPT ![j] = "reaped"]
      /\ timer' = [timer EXCEPT ![jobId[j]] = "full"]
      /\ UNCHANGED <<jobId, era, row, lost, suppressed, watched, consumed, queue, epoch,
                     failures, held, message, model>>
  BY DEF Reap
<1>2. jobId[j] \in Ids /\ row[jobId[j]] = j
  BY <1>1 DEF LiveRows
<1>3. QueueStep(delivery)
  BY <1>1, QuietStep
<1>4. RowType'
  BY <1>1, <1>2 DEF RowType, TypeOK, Statuses
<1>5. RowIds' /\ LiveRows'
  BY <1>1, <1>2 DEF RowIds, LiveRows, TypeOK
<1>6. ConsumedSettled' /\ TimersServeRows'
  BY <1>1, <1>2, JobsAssumption DEF ConsumedSettled, TimersServeRows, Settled, RowIds, TypeOK
<1>7. RowInv'
  BY <1>4, <1>5, <1>6 DEF RowInv
<1>8. tool' \in {"none", "waiting", "raced", "unwatched", "foreground", "expired", "answered"}
  BY DEF Reap, TypeOK
<1>9. /\ \A k \in Jobs : delivery[k] # "none" => jobId'[k] \in Ids
      /\ \A k \in held' : jobId'[k] \in Ids
  BY <1>1, PendingIsNotNone DEF PendingIds, HeldIds
<1> QED
  BY <1>1, <1>3, <1>7, <1>8, <1>9, Assemble DEF TypeOK, model

\* #evictJob keeps IInv: row, timer and marks of the id go together.
LEMMA EvictPreserves ==
  ASSUME IInv, NEW i \in Ids, Evict(i)
  PROVE  IInv'
<1> USE DEF IInv
<1>1. /\ timer[i] # "none"
      /\ lost' = [j \in Jobs |-> IF row[i] = j /\ Pending(j) THEN timer[i] ELSE lost[j]]
      /\ row' = [row EXCEPT ![i] = NoJob]
      /\ timer' = [k \in Ids |-> IF k \in {i} THEN "none" ELSE timer[k]]
      /\ suppressed' = suppressed \ {i} /\ watched' = watched \ {i}
      /\ consumed' = consumed \ {i}
      /\ UNCHANGED <<status, jobId, era, queue, epoch, failures, call, model>>
  BY DEF Evict, ClearTimers
<1>2. row[i] # NoJob /\ Settled(row[i])
  BY <1>1 DEF TimersServeRows
<1>3. QueueStep(delivery)
  BY <1>1, QuietStep
<1>4. RowType'
  BY <1>1 DEF RowType, TypeOK, Statuses
<1>5. RowIds' /\ LiveRows'
  BY <1>1, <1>2 DEF RowIds, LiveRows, Settled, TypeOK
<1>6. ConsumedSettled' /\ TimersServeRows'
  BY <1>1 DEF ConsumedSettled, TimersServeRows, Settled, TypeOK
<1>7. RowInv'
  BY <1>4, <1>5, <1>6 DEF RowInv
<1>8. /\ \A k \in Jobs : delivery[k] # "none" => jobId'[k] \in Ids
      /\ \A k \in held' : jobId'[k] \in Ids
  BY <1>1, PendingIsNotNone DEF PendingIds, HeldIds, call
<1> QED
  BY <1>1, <1>3, <1>7, <1>8, Assemble DEF TypeOK, model, call

\* The sink's outcomes keep IInv: only a settled row is consumed, and a retry has a loop.
LEMMA SinkPreserves ==
  ASSUME IInv, NEW j \in Jobs, Sink(j)
  PROVE  IInv'
<1> USE DEF IInv
<1>0. delivery \in [Jobs -> DeliveryStates]
  BY DEF TypeOK, DeliveryStates
<1>1. CASE Formatted(j)
  <2>1. QueueStep(delivery)
    BY <1>0, <1>1 DEF Formatted, QueueStep, TypeOK, LoopServesQueue, Queued, DeliveryStates
  <2> QED
    BY <1>0, <1>1, <2>1, QueueSteps, PendingIsNotNone DEF Formatted, marks
<1>2. CASE Delivered(j)
  <2> DEFINE i == jobId[j]
             d == [delivery EXCEPT ![j] = "none"]
             U == Unconsumed({i})
  <2>1. i \in Ids
    BY <1>2 DEF Delivered, PendingIds, Pending, InFlight
  <2>2. d \in [Jobs -> DeliveryStates] /\ QueueStep(d)
    BY <1>0, <1>2, EnsureStep DEF Delivered, DeliveryStates
  <2>3. /\ consumed' = consumed \cup U
        /\ UNCHANGED <<jobs, suppressed, watched, epoch, failures, call, model>>
    BY <1>2 DEF Delivered
  <2>4. \A k \in U : k = i /\ row[k] # NoJob /\ Settled(row[k])
    BY DEF Unconsumed
  <2>5. \/ timer' = timer
        \/ timer' = [timer EXCEPT ![i] = "short"] /\ row[i] # NoJob /\ Settled(row[i])
    <3>1. CASE i \in consumed /\ row[i] # NoJob
      BY <1>2, <3>1 DEF Delivered, ConsumedSettled
    <3>2. CASE ~(i \in consumed /\ row[i] # NoJob)
      <4>1. CASE U # {}
        BY <1>2, <2>1, <2>4, <3>2, <4>1 DEF Delivered, TypeOK
      <4>2. CASE U = {}
        BY <1>2, <2>1, <3>2, <4>2 DEF Delivered, TypeOK
      <4> QED
        BY <4>1, <4>2
    <3> QED
      BY <3>1, <3>2
  <2> HIDE DEF i, d, U
  <2>6. RowType'
    BY <2>1, <2>3, <2>4, <2>5 DEF RowType, TypeOK, jobs, Statuses
  <2>7. RowIds' /\ LiveRows'
    BY <2>3 DEF RowIds, LiveRows, jobs
  <2>8. ConsumedSettled'
    BY <2>3, <2>4 DEF ConsumedSettled, Settled, jobs
  <2>9. TimersServeRows'
    BY <2>1, <2>3, <2>5 DEF TimersServeRows, Settled, jobs, TypeOK
  <2>10. RowInv'
    BY <2>6, <2>7, <2>8, <2>9 DEF RowInv
  <2>11. /\ \A k \in Jobs : d[k] # "none" => jobId'[k] \in Ids
         /\ \A k \in held' : jobId'[k] \in Ids
    BY <1>0, <2>3, PendingIsNotNone DEF PendingIds, HeldIds, call, jobs, d
  <2> QED
    BY <2>2, <2>3, <2>10, <2>11, Assemble DEF TypeOK, model, call
<1>3. CASE Rejected(j)
  <2> DEFINE d == [delivery EXCEPT ![j] =
                IF isDeliverySuppressed(jobId[j]) \/ row[jobId[j]] = NoJob
                THEN "none" ELSE "backoff"]
  <2>1. d \in [Jobs -> DeliveryStates] /\ QueueStep(d)
    BY <1>0, <1>3, EnsureStep DEF Rejected, DeliveryStates
  <2>2. \A k \in Jobs : d[k] # "none" => Pending(k)
    BY <1>0, <1>3, PendingIsNotNone DEF Rejected
  <2> HIDE DEF d
  <2> QED
    BY <1>3, <2>1, <2>2, QueueSteps DEF Rejected, marks
<1> QED
  BY <1>1, <1>2, <1>3 DEF Sink

\* A flush keeps IInv: it moves parked deliveries only.
LEMMA InjectPreserves ==
  ASSUME IInv, Inject
  PROVE  IInv'
<1> USE DEF IInv
<1>1. /\ UNCHANGED <<jobs, marks, stamp, loop, epoch, call>>
      /\ delivery' \in [Jobs -> DeliveryStates]
      /\ \A j \in Jobs :
           \/ delivery'[j] = delivery[j]
           \/ delivery[j] = "parked" /\ delivery'[j] \in {"delivered", "rejected"}
      /\ failures' \in Nat /\ received' \subseteq Jobs
      /\ injected' \in [Jobs -> SUBSET Nat]
  BY DEF Inject, TypeOK, DeliveryStates, model
<1>2. QueueStep(delivery)
  BY <1>1 DEF QueueStep, TypeOK, LoopServesQueue, Queued
<1>3. RowInv'
  BY <1>1, RowQuiet DEF marks
<1>4. /\ \A k \in Jobs : delivery[k] # "none" => jobId'[k] \in Ids
      /\ \A k \in held' : jobId'[k] \in Ids
  BY <1>1, PendingIsNotNone DEF PendingIds, HeldIds, call, jobs
<1> QED
  BY <1>1, <1>2, <1>3, <1>4, Assemble DEF TypeOK, call, marks

\* A session transition keeps IInv: evicted rows lose their timers, running jobs keep theirs unarmed.
LEMMA NewSessionPreserves ==
  ASSUME IInv, NewSession
  PROVE  IInv'
<1> USE DEF IInv
<1> DEFINE Gone == {i \in Ids : row[i] # NoJob /\ status[row[i]] = "finished"}
           Kept == IF Gone = {} THEN delivery ELSE Purge(Gone \cup suppressed \cup watched)
<1>1. /\ epoch' = epoch + 1
      /\ status' = [j \in Jobs |-> IF status[j] = "running" THEN "cancelled" ELSE status[j]]
      /\ row' = [i \in Ids |-> IF i \in Gone THEN NoJob ELSE row[i]]
      /\ timer' = [i \in Ids |-> IF i \in Gone THEN "none" ELSE timer[i]]
      /\ suppressed' = suppressed \ Gone /\ watched' = watched \ Gone
      /\ consumed' = consumed \ Gone
      /\ UNCHANGED <<jobId, era, lost, stamp, failures, call, model>>
  BY DEF NewSession, ClearTimers
<1>2. QueueStep(delivery)
  <2>1. delivery' = [j \in Jobs |-> IF Kept[j] = "parked" THEN "rejected" ELSE Kept[j]]
    BY DEF NewSession
  <2>2. \A j \in Jobs : Kept[j] = "none" \/ Kept[j] = delivery[j]
    BY DEF Purge
  <2>3. (loop' = loop) \/ (loop = "waiting" /\ loop' = "woken")
    BY DEF NewSession, Notify
  <2> HIDE DEF Kept
  <2>4. \A j \in Jobs : delivery'[j] \in {"none", delivery[j]}
                        \/ (delivery[j] = "parked" /\ delivery'[j] = "rejected")
    BY <2>1, <2>2
  <2>5. delivery' \in [Jobs -> DeliveryStates]
    BY <2>1, <2>4 DEF TypeOK, DeliveryStates
  <2> QED
    BY <1>1, <2>3, <2>4, <2>5 DEF QueueStep, TypeOK, LoopServesQueue, Queued
<1>3. \A i \in Ids \ Gone : row[i] # NoJob => status[row[i]] # "finished"
  OBVIOUS
<1>4. \A i \in Gone : i \in Ids /\ row[i] # NoJob /\ status[row[i]] = "finished"
  OBVIOUS
<1> HIDE DEF Gone, Kept
<1>5. RowType'
  BY <1>1, <1>4 DEF RowType, TypeOK, Statuses
<1>6. RowIds' /\ LiveRows'
  BY <1>1, <1>4 DEF RowIds, LiveRows, TypeOK
<1>7. ConsumedSettled'
  BY <1>1 DEF ConsumedSettled, Settled, TypeOK
<1>8. TimersServeRows'
  BY <1>1 DEF TimersServeRows, Settled, TypeOK
<1>9. RowInv'
  BY <1>5, <1>6, <1>7, <1>8 DEF RowInv
<1>10. /\ \A k \in Jobs : delivery[k] # "none" => jobId'[k] \in Ids
       /\ \A k \in held' : jobId'[k] \in Ids
  BY <1>1, PendingIsNotNone DEF PendingIds, HeldIds, call
<1> QED
  BY <1>1, <1>2, <1>9, <1>10, Assemble DEF TypeOK, model, call

\* hub cancel keeps IInv: the row stays, its queued deliveries go.
LEMMA CancelPreserves ==
  ASSUME IInv, NEW j \in Jobs, HubCancel(j) \/ ForegroundAborts(j)
  PROVE  IInv'
<1> USE DEF IInv
<1>1. /\ \/ status[j] = "running" /\ status' = [status EXCEPT ![j] = "cancelled"]
         \/ status' = status
      /\ UNCHANGED <<jobId, era, row, lost, watched, consumed, timer, epoch, failures,
                     message, model>>
      /\ held' \subseteq held
  BY DEF HubCancel, ForegroundAborts, TypeOK, marks, call
<1>2. QueueStep(delivery) /\ suppressed' \subseteq Ids
  <2>1. CASE HubCancel(j)
    <3>1. {jobId[j]} \in SUBSET Ids
      BY <2>1 DEF HubCancel, LiveRows
    <3> QED
      BY <2>1, <3>1, AcknowledgeStep DEF HubCancel
  <2>2. CASE ForegroundAborts(j)
    BY <2>2, QuietStep DEF ForegroundAborts, marks, TypeOK
  <2> QED
    BY <2>1, <2>2
<1>3. RowType'
  BY <1>1 DEF RowType, TypeOK, Statuses
<1>4. RowIds' /\ LiveRows'
  BY <1>1 DEF RowIds, LiveRows, TypeOK
<1>5. ConsumedSettled' /\ TimersServeRows'
  BY <1>1 DEF ConsumedSettled, TimersServeRows, Settled, TypeOK
<1>6. RowInv'
  BY <1>3, <1>4, <1>5 DEF RowInv
<1>7. /\ \A k \in Jobs : delivery[k] # "none" => jobId'[k] \in Ids
      /\ \A k \in held' : jobId'[k] \in Ids
  BY <1>1, PendingIsNotNone DEF PendingIds, HeldIds
<1>8. tool' \in {"none", "waiting", "raced", "unwatched", "foreground", "expired", "answered"}
  BY DEF HubCancel, ForegroundAborts, call, TypeOK
<1> QED
  BY <1>1, <1>2, <1>6, <1>7, <1>8, Assemble DEF TypeOK, model

\* Snapshots consume what they show.
LEMMA SnapshotPreserves ==
  ASSUME IInv, HubJobs \/ HubWaitReturns
  PROVE  IInv'
<1> USE DEF IInv
<1>1. /\ \A k \in Jobs : delivery[k] # "none" => jobId[k] \in Ids
      /\ \A k \in held : jobId[k] \in Ids
  BY PendingIsNotNone DEF PendingIds, HeldIds
<1>2. CASE HubJobs
  <2>1. Rows \in SUBSET Jobs /\ \A j \in Rows : jobId[j] \in Ids
    BY JobsAssumption DEF Rows, RowIds
  <2>2. /\ RowInv' /\ QueueStep(delivery)
        /\ suppressed' \subseteq Ids /\ received' \subseteq Jobs
    BY <1>2, <2>1, ConsumeStep DEF HubJobs
  <2> QED
    BY <1>1, <1>2, <2>2, Assemble DEF HubJobs, TypeOK, jobs, call
<1>3. CASE HubWaitReturns
  <2>1. held \in SUBSET Jobs
    BY DEF TypeOK
  <2>2. /\ RowInv' /\ QueueStep(delivery)
        /\ suppressed' \subseteq Ids /\ received' \subseteq Jobs
    <3>1. CASE message
      <4>1. RowInv'
        BY <1>3, <3>1, RowQuiet DEF HubWaitReturns
      <4> QED
        BY <1>3, <3>1, <4>1, QuietStep DEF HubWaitReturns, TypeOK
    <3>2. CASE ~message
      BY <1>1, <1>3, <2>1, <3>2, ConsumeStep DEF HubWaitReturns
    <3> QED
      BY <3>1, <3>2
  <2> QED
    BY <1>1, <1>3, <2>2, Assemble DEF HubWaitReturns, TypeOK, jobs
<1> QED
  BY <1>2, <1>3

\* The start of a hub wait keeps IInv: a wake of the loop is not its end.
LEMMA HubWaitPreserves ==
  ASSUME IInv, NEW S \in SUBSET Jobs, HubWait(S)
  PROVE  IInv'
<1> USE DEF IInv
<1>1. /\ \A j \in S : jobId[j] \in Ids
      /\ UNCHANGED <<jobs, suppressed, consumed, timer, delivery, stamp, epoch, failures, model>>
      /\ watched' = watched \cup IdsOf(S)
      /\ tool' = "waiting" /\ held' = S /\ message' = FALSE
  BY DEF HubWait, LiveRows
<1>2. watched' \subseteq Ids
  BY <1>1 DEF IdsOf, TypeOK
<1>3. QueueStep(delivery)
  BY <1>1 DEF HubWait, Notify, QueueStep, TypeOK, LoopServesQueue, Queued, DeliveryStates
<1>4. RowInv'
  BY <1>1, RowQuiet
<1>5. \A k \in Jobs : delivery[k] # "none" => jobId'[k] \in Ids
  BY <1>1, PendingIsNotNone DEF PendingIds, jobs
<1> QED
  BY <1>1, <1>2, <1>3, <1>4, <1>5, Assemble DEF TypeOK, model, jobs

\* The hand-off to the background keeps IInv: a result queued by it has a loop.
LEMMA BackgroundsPreserves ==
  ASSUME IInv, NEW j \in Jobs, Backgrounds(j)
  PROVE  IInv'
<1> USE DEF IInv
<1> DEFINE d == [delivery EXCEPT ![j] = "queued"]
<1>1. /\ suppressed' \subseteq Ids
      /\ held = {j} /\ tool' = "none" /\ held' = {}
      /\ UNCHANGED <<jobs, watched, consumed, timer, epoch, failures, message, model>>
  BY DEF Backgrounds, resumeDeliveries, TypeOK
<1>2. jobId[j] \in Ids
  BY <1>1 DEF HeldIds
<1>3. d \in [Jobs -> DeliveryStates]
  BY DEF TypeOK, DeliveryStates
<1>4. QueueStep(d)
  <2>1. CASE queue' = queue
    BY <1>3, <2>1, QuietStep DEF QueueStep, TypeOK, queue
  <2>2. CASE LoopRuns(d, suppressed' \cup watched)
    BY <1>3, <2>2, LoopRunsStep
  <2>3. CASE loop # "off" /\ delivery' = d /\ UNCHANGED stamp /\ Notify
    BY <1>3, <2>3 DEF QueueStep, Notify, TypeOK
  <2> QED
    BY <2>1, <2>2, <2>3 DEF Backgrounds, resumeDeliveries, queue
<1>5. \A k \in Jobs : d[k] # "none" => jobId'[k] \in Ids
  BY <1>1, <1>2, PendingIsNotNone DEF PendingIds, TypeOK, jobs
<1>6. RowInv'
  BY <1>1, RowQuiet
<1> HIDE DEF d
<1> QED
  BY <1>1, <1>4, <1>5, <1>6, Assemble DEF TypeOK, model

\* Steps of a call that touch neither rows nor the queue.
LEMMA CallPreserves ==
  ASSUME IInv, UNCHANGED <<jobs, suppressed, consumed, timer, queue, epoch, failures, injected>>,
         watched' \subseteq watched, held' \subseteq held, message' \in BOOLEAN,
         received' \subseteq Jobs,
         tool' \in {"none", "waiting", "raced", "unwatched", "foreground", "expired",
                    "answered"}
  PROVE  IInv'
<1> USE DEF IInv
<1>1. RowInv' /\ QueueStep(delivery)
  BY RowQuiet, QuietStep
<1>2. /\ \A k \in Jobs : delivery[k] # "none" => jobId'[k] \in Ids
      /\ \A k \in held' : jobId'[k] \in Ids
  BY PendingIsNotNone DEF PendingIds, HeldIds, jobs
<1> QED
  BY <1>1, <1>2, Assemble DEF TypeOK

\* IInv is inductive.
LEMMA Consecution == IInv /\ [Next]_vars => IInv'
<1> SUFFICES ASSUME IInv, [Next]_vars PROVE IInv'
  OBVIOUS
<1>1. ASSUME NEW j \in Jobs, Finish(j) \/ Reap(j) \/ Sink(j)
      PROVE  IInv'
  BY <1>1, FinishPreserves, ReapPreserves, SinkPreserves
<1>2. ASSUME NEW i \in Ids, Evict(i)
      PROVE  IInv'
  BY <1>2, EvictPreserves
<1>3. CASE Loop \/ Inject
  BY <1>3, LoopPreserves, InjectPreserves
<1>4. CASE Tools
  <2> USE DEF marks
  <2>1. CASE WaitExpires \/ ForegroundExpires
    BY <2>1, CallPreserves DEF WaitExpires, ForegroundExpires, model, TypeOK, IInv
  <2>2. CASE Unwatch
    BY <2>2, CallPreserves DEF Unwatch, unwatchJobs, model, TypeOK, IInv
  <2>3. CASE HubWaitReturns
    BY <2>3, SnapshotPreserves
  <2>4. ASSUME NEW j \in Jobs, Backgrounds(j)
        PROVE  IInv'
    BY <2>4, BackgroundsPreserves
  <2>5. ASSUME NEW j \in Jobs, ForegroundReturns(j)
        PROVE  IInv'
    BY <2>5, CallPreserves DEF ForegroundReturns, TypeOK, IInv
  <2> QED
    BY <1>4, <2>1, <2>2, <2>3, <2>4, <2>5 DEF Tools
<1>5. CASE Asked
  <2>1. CASE MessageArrives
    BY <2>1, CallPreserves DEF MessageArrives, model, marks, TypeOK, IInv
  <2>2. CASE HubJobs \/ NewSession
    BY <2>2, SnapshotPreserves, NewSessionPreserves
  <2>3. ASSUME NEW S \in SUBSET Jobs, HubWait(S)
        PROVE  IInv'
    BY <2>3, HubWaitPreserves
  <2>4. ASSUME NEW j \in Jobs, HubCancel(j) \/ ForegroundAborts(j)
        PROVE  IInv'
    BY <2>4, CancelPreserves
  <2>5. ASSUME NEW j \in Jobs, NEW i \in Ids, NEW f \in BOOLEAN, Register(j, i, f)
        PROVE  IInv'
    BY <2>5, RegisterPreserves
  <2> QED
    BY <1>5, <2>1, <2>2, <2>3, <2>4, <2>5 DEF Asked
<1>6. CASE UNCHANGED vars
  BY <1>6, CallPreserves DEF vars, marks, call, model, TypeOK, IInv
<1>7. CASE Quiescent
  BY <1>6, <1>7 DEF Quiescent
<1> QED
  BY <1>1, <1>2, <1>3, <1>4, <1>5, <1>6, <1>7 DEF Next

\* IInv holds in every reachable state.
LEMMA Inductive == Spec => []IInv
BY Initially, Consecution, PTL DEF Spec

\* Every variable of the manager and the session keeps its range.
THEOREM TypeCorrect == Spec => []TypeOK
<1>1. IInv => TypeOK
  BY DEF IInv
<1> QED
  BY <1>1, Inductive, PTL

\* An armed eviction timer always belongs to a settled row, for any number of
\* jobs, ids and reuses: no timer outlives its row to evict a running job.
THEOREM TimersHold == Spec => []TimersServeRows
<1>1. IInv => TimersServeRows
  BY DEF IInv
<1> QED
  BY <1>1, Inductive, PTL

\* The delivery loop is never off while a delivery is queued.
THEOREM LoopServes == Spec => []LoopServesQueue
<1>1. IInv => LoopServesQueue
  BY DEF IInv
<1> QED
  BY <1>1, Inductive, PTL
=============================================================================
