------------------------ MODULE AsyncDelivery_proof ------------------------
(***************************************************************************)
(* What the delivery of a background result promises the session, proved   *)
(* for any jobs, ids and bounds: a consumed result was received, a result  *)
(* nobody took stays owed, none is injected twice, and none is injected    *)
(* into another transcript whose row was there until its delivery was.     *)
(***************************************************************************)
EXTENDS AsyncJobs_proof

\* Where a hub wait and the foreground wait of bash are.
HubCall == {"waiting", "raced", "unwatched"}
BashCall == {"foreground", "expired", "answered"}

\* Only a finished job has a delivery.
PendingFinished == \A j \in Jobs : Pending(j) => status[j] = "finished"

\* No other job took the row of a job with a delivery: ids are not reused in flight.
PendingRows == \A j \in Jobs : Pending(j) => row[jobId[j]] \in {j, NoJob}

\* The jobs a call waits for keep their rows.
HeldRows ==
  \A j \in held :
    /\ row[jobId[j]] = j /\ status[j] \in {"running", "finished"}
    /\ tool \in {"waiting", "foreground"} => status[j] = "running"
    /\ tool = "answered" => status[j] = "finished"

\* bash waits for one job; only a hub wait listens for messages.
HeldByCall ==
  /\ tool = "none" <=> held = {}
  /\ tool \in BashCall => \A j, k \in held : j = k
  /\ message => tool \in HubCall

\* Exactly the jobs of a hub wait that is not over are watched.
WatchedHeld == watched = IF tool \in {"waiting", "raced"} THEN IdsOf(held) ELSE {}

\* A held job has no delivery until the hub wait unwatches it.
HeldQuiet == \A j \in held : tool # "unwatched" => ~Pending(j)

\* The call has not returned: nobody has the results it waits for.
HeldUnreceived == \A j \in held : j \notin received

\* The foreground wait of bash suppresses its job, and nothing else suppresses a
\* running one.
BashSuppresses == tool \in BashCall => \A j \in held : jobId[j] \in suppressed

SuppressedRunning ==
  \A j \in Jobs : status[j] = "running" /\ jobId[j] \in suppressed
                    => j \in held /\ tool \in BashCall

\* A delivery is suppressed only after its result was received.
SuppressedReceived ==
  \A j \in Jobs : Pending(j) /\ jobId[j] \in suppressed => j \in received

\* A sink call that outlived its transcript outlived its row.
StaleOrphaned == \A j \in Jobs : InFlight(j) /\ stamp[j] # epoch => row[jobId[j]] # j

\* A sink call of a live row resolves only for a received result.
DeliveredReceived ==
  \A j \in Jobs : delivery[j] = "delivered" /\ row[jobId[j]] = j => j \in received

\* Only a settled job has a result.
ReceivedSettled == \A j \in received : Settled(j)

\* The part about the call that waits, and the part about who claims a result.
CallInv ==
  /\ HeldRows /\ HeldByCall /\ WatchedHeld /\ HeldQuiet /\ HeldUnreceived
  /\ BashSuppresses /\ SuppressedRunning

ClaimInv ==
  /\ PendingFinished /\ PendingRows /\ SuppressedReceived /\ StaleOrphaned
  /\ DeliveredReceived /\ ReceivedSettled /\ ConsumedMeansReceived

DInv == CallInv /\ ClaimInv

-----------------------------------------------------------------------------
(***************************************************************************)
(* What a step may do to one delivery.                                     *)
(***************************************************************************)
\* From d, with the deliveries of the ids of quiet dropped: kept, dropped, or
\* handed to the sink under the current epoch.
Moved(d, quiet) ==
  \A j \in Jobs :
    \/ delivery'[j] = d[j] /\ stamp'[j] = stamp[j]
    \/ Queued(d, j) /\ jobId[j] \in quiet
       /\ delivery'[j] = "none" /\ stamp'[j] \in {stamp[j], epoch}
    \/ d[j] = "queued" /\ jobId[j] \notin quiet
       /\ delivery'[j] = "formatting" /\ stamp'[j] = epoch

\* One run of the delivery loop: #runDeliveryLoop.
LEMMA LoopRunsMoves ==
  ASSUME TypeOK, NEW d \in [Jobs -> DeliveryStates], NEW quiet, LoopRuns(d, quiet)
  PROVE  Moved(d, quiet)
<1> SUFFICES ASSUME NEW j \in Jobs
             PROVE  \/ delivery'[j] = d[j] /\ stamp'[j] = stamp[j]
                    \/ Queued(d, j) /\ jobId[j] \in quiet
                       /\ delivery'[j] = "none" /\ stamp'[j] \in {stamp[j], epoch}
                    \/ d[j] = "queued" /\ jobId[j] \notin quiet
                       /\ delivery'[j] = "formatting" /\ stamp'[j] = epoch
  BY DEF Moved
<1>1. /\ delivery'[j] = IF Queued(d, j) /\ jobId[j] \in quiet THEN "none"
                        ELSE IF d[j] = "queued" THEN "formatting" ELSE d[j]
      /\ stamp'[j] = IF d[j] = "queued" THEN epoch ELSE stamp[j]
  BY DEF LoopRuns, Dispatch
<1> QED
  BY <1>1 DEF Queued

\* #ensureDeliveryLoop runs the loop or leaves the deliveries as they are.
LEMMA EnsureMoves ==
  ASSUME TypeOK, NEW d \in [Jobs -> DeliveryStates], Ensure(d)
  PROVE  Moved(d, suppressed \cup watched)
<1>1. CASE loop = "off" /\ \E j \in Jobs : Queued(d, j)
  BY <1>1, LoopRunsMoves DEF Ensure
<1>2. CASE ~(loop = "off" /\ \E j \in Jobs : Queued(d, j))
  BY <1>2 DEF Ensure, Moved
<1> QED
  BY <1>1, <1>2

\* Acknowledging ids drops queued deliveries of suppressed and watched ids only.
LEMMA AcknowledgeMoves ==
  ASSUME TypeOK, NEW I \in SUBSET Ids, acknowledgeDeliveries(I)
  PROVE  /\ Moved(delivery, suppressed \cup I \cup watched)
         /\ \A j \in Jobs : delivery'[j] \in {delivery[j], "none"}
         /\ suppressed' = suppressed \cup I
         /\ UNCHANGED stamp
<1> DEFINE quiet == suppressed \cup I \cup watched
<1>1. \A j \in Jobs : \/ delivery'[j] = delivery[j]
                      \/ Queued(delivery, j) /\ jobId[j] \in quiet /\ delivery'[j] = "none"
  BY DEF acknowledgeDeliveries, Purge
<1>2. suppressed' = suppressed \cup I /\ UNCHANGED stamp
  BY DEF acknowledgeDeliveries
<1> QED
  BY <1>1, <1>2 DEF Moved

\* A move creates no delivery, and no sink call of an earlier epoch.
LEMMA MovedPending ==
  ASSUME TypeOK, TypeOK', NEW d, NEW quiet, Moved(d, quiet), NEW j \in Jobs,
         UNCHANGED epoch
  PROVE  /\ Pending(j)' => d[j] # "none"
         /\ InFlight(j)' /\ stamp'[j] # epoch'
              => InFlight(j)' /\ stamp[j] # epoch /\ delivery'[j] = d[j]
         /\ delivery'[j] = "delivered" => d[j] = "delivered"
         /\ d[j] # "none" => Pending(j)' \/ (Queued(d, j) /\ jobId[j] \in quiet)
<1>1. delivery'[j] \in DeliveryStates
  BY DEF TypeOK, DeliveryStates
<1> QED
  BY <1>1 DEF Moved, Pending, Queued, InFlight, DeliveryStates

\* Neither does a step that first settles the sink call of one job.
LEMMA ResolvedMoves ==
  ASSUME TypeOK, TypeOK', UNCHANGED epoch, NEW j \in Jobs, InFlight(j),
         NEW d, d[j] \in {"none", "backoff"}, \A k \in Jobs \ {j} : d[k] = delivery[k],
         NEW quiet, Moved(d, quiet), NEW k \in Jobs
  PROVE  /\ Pending(k)' => Pending(k)
         /\ InFlight(k)' /\ stamp'[k] # epoch => InFlight(k) /\ stamp[k] # epoch
         /\ delivery'[k] = "delivered" => delivery[k] = "delivered"
<1>1. /\ Pending(k)' => d[k] # "none"
      /\ InFlight(k)' /\ stamp'[k] # epoch
           => InFlight(k)' /\ stamp[k] # epoch /\ delivery'[k] = d[k]
      /\ delivery'[k] = "delivered" => d[k] = "delivered"
  BY MovedPending
<1> QED
  BY <1>1, PendingIsNotNone DEF InFlight, Pending

\* Deliveries in no state but the named ones.
LEMMA DeliveryTyped ==
  ASSUME TypeOK
  PROVE  delivery \in [Jobs -> DeliveryStates]
BY DEF TypeOK, DeliveryStates

-----------------------------------------------------------------------------
(***************************************************************************)
(* DInv, as long as no id is reused while a delivery of it is pending.     *)
(***************************************************************************)
LEMMA DInitially == Init => DInv
<1> SUFFICES ASSUME Init PROVE DInv
  OBVIOUS
<1>1. CallInv
  BY DEF Init, CallInv, HeldRows, HeldByCall, WatchedHeld, HeldQuiet, HeldUnreceived,
         BashSuppresses, SuppressedRunning
<1>2. ClaimInv
  BY DEF Init, ClaimInv, PendingFinished, PendingRows, SuppressedReceived, StaleOrphaned,
         DeliveredReceived, ReceivedSettled, ConsumedMeansReceived, Pending, Queued, InFlight
<1> QED
  BY <1>1, <1>2 DEF DInv

\* A watched row is of a held job, which has no delivery yet.
LEMMA WatchedQuiet ==
  ASSUME IInv, DInv, NEW j \in Jobs, jobId[j] \in watched, row[jobId[j]] = j
  PROVE  j \in held /\ ~Pending(j)
<1>1. tool \in {"waiting", "raced"} /\ jobId[j] \in IdsOf(held)
  BY DEF DInv, CallInv, WatchedHeld
<1>2. PICK k \in held : jobId[j] = jobId[k]
  BY <1>1 DEF IdsOf
<1>3. k = j
  BY <1>2 DEF DInv, CallInv, HeldRows
<1> QED
  BY <1>1, <1>2, <1>3 DEF DInv, CallInv, HeldQuiet

\* Steps that only move deliveries and record the results they bring.
LEMMA DeliverySteps ==
  ASSUME IInv, DInv, UNCHANGED <<jobs, suppressed, watched, epoch, call>>,
         \A j \in Jobs : Pending(j)' => Pending(j),
         \A j \in Jobs : InFlight(j)' /\ stamp'[j] # epoch => InFlight(j) /\ stamp[j] # epoch,
         \A j \in Jobs : delivery'[j] = "delivered" /\ row[jobId[j]] = j => j \in received',
         received \subseteq received', tool # "none" => received' = received,
         \A j \in received' : j \in received \/ (j \in Jobs /\ Pending(j)),
         \A i \in consumed' : row[i] # NoJob => row[i] \in received'
  PROVE  DInv'
<1> USE DEF DInv
<1>1. HeldRows' /\ HeldByCall'
  BY DEF CallInv, HeldRows, HeldByCall, jobs, call
<1>2. WatchedHeld' /\ BashSuppresses' /\ SuppressedRunning'
  BY DEF CallInv, WatchedHeld, IdsOf, BashSuppresses, SuppressedRunning, jobs, call
<1>3. HeldQuiet' /\ HeldUnreceived'
  <2>1. held \subseteq Jobs
    BY DEF IInv, TypeOK
  <2>2. HeldQuiet'
    BY <2>1 DEF CallInv, HeldQuiet, call
  <2>3. HeldUnreceived'
    BY DEF CallInv, HeldByCall, HeldUnreceived, call
  <2> QED
    BY <2>2, <2>3
<1>4. PendingFinished' /\ PendingRows' /\ SuppressedReceived'
  BY DEF ClaimInv, PendingFinished, PendingRows, SuppressedReceived, jobs
<1>5. StaleOrphaned' /\ DeliveredReceived'
  BY DEF ClaimInv, StaleOrphaned, DeliveredReceived, jobs
<1>6. ReceivedSettled'
  BY DEF ClaimInv, ReceivedSettled, PendingFinished, Settled, jobs
<1>7. ConsumedMeansReceived'
  BY DEF ConsumedMeansReceived, jobs
<1> QED
  BY <1>1, <1>2, <1>3, <1>4, <1>5, <1>6, <1>7 DEF CallInv, ClaimInv

\* The delivery loop keeps DInv.
LEMMA LoopD ==
  ASSUME IInv, IInv', DInv, Loop
  PROVE  DInv'
<1>0. TypeOK /\ TypeOK' /\ delivery \in [Jobs -> DeliveryStates]
  BY DeliveryTyped DEF IInv
<1>1. /\ UNCHANGED <<jobs, marks, epoch, call, model>>
      /\ Moved(delivery, suppressed \cup watched) \/
         \E k \in Jobs : BackoffElapses(k)
  <2>1. CASE LoopWakes
    BY <1>0, <2>1, LoopRunsMoves DEF LoopWakes
  <2>2. CASE LoopEnds
    BY <1>0, <2>2, LoopRunsMoves DEF LoopEnds, Moved
  <2>3. CASE \E k \in Jobs : BackoffElapses(k)
    BY <2>3 DEF BackoffElapses
  <2> QED
    BY <2>1, <2>2, <2>3 DEF Loop
<1>2. \A j \in Jobs :
        /\ Pending(j)' => Pending(j)
        /\ InFlight(j)' /\ stamp'[j] # epoch => InFlight(j) /\ stamp[j] # epoch
        /\ delivery'[j] = "delivered" => delivery[j] = "delivered"
  <2>1. CASE Moved(delivery, suppressed \cup watched)
    BY <1>0, <1>1, <2>1, MovedPending, PendingIsNotNone DEF InFlight
  <2>2. CASE \E k \in Jobs : BackoffElapses(k)
    BY <1>0, <2>2 DEF BackoffElapses, Pending, Queued, InFlight
  <2> QED
    BY <1>1, <2>1, <2>2
<1>3. /\ \A j \in Jobs : delivery'[j] = "delivered" /\ row[jobId[j]] = j => j \in received
      /\ \A i \in consumed : row[i] # NoJob => row[i] \in received
  BY <1>2 DEF DInv, ClaimInv, DeliveredReceived, ConsumedMeansReceived
<1> QED
  BY <1>1, <1>2, <1>3, DeliverySteps DEF marks, model

\* The outcomes of a sink call keep DInv: one that skips a live row's result
\* skips a received one, and one that resolves consumes a received one.
LEMMA SinkD ==
  ASSUME IInv, IInv', DInv, NEW j \in Jobs, Sink(j)
  PROVE  DInv'
<1>0. TypeOK /\ TypeOK' /\ delivery \in [Jobs -> DeliveryStates]
  BY DeliveryTyped DEF IInv
<1>1. CASE Formatted(j)
  <2>1. /\ UNCHANGED <<jobs, suppressed, watched, consumed, stamp, epoch, call, received>>
        /\ delivery[j] = "formatting"
        /\ \A k \in Jobs \ {j} : delivery'[k] = delivery[k]
        /\ delivery'[j] \in {"delivered", "parked"}
        /\ delivery'[j] = "delivered" => Stale(j)
    BY <1>0, <1>1 DEF Formatted, Stale, marks, model
  <2>2. \A k \in Jobs : /\ Pending(k)' => Pending(k)
                        /\ InFlight(k)' /\ stamp'[k] # epoch => InFlight(k) /\ stamp[k] # epoch
    BY <2>1 DEF Pending, Queued, InFlight
  <2>3. delivery'[j] = "delivered" /\ row[jobId[j]] = j => j \in received
    <3> SUFFICES ASSUME Stale(j), row[jobId[j]] = j PROVE j \in received
      BY <2>1
    <3>1. InFlight(j) /\ Pending(j)
      BY <2>1 DEF InFlight, Pending
    <3>2. stamp[j] = epoch
      BY <3>1 DEF DInv, ClaimInv, StaleOrphaned
    <3>3. jobId[j] \in suppressed
      BY <3>1, <3>2, WatchedQuiet DEF Stale, isDeliverySuppressed
    <3> QED
      BY <3>1, <3>3 DEF DInv, ClaimInv, SuppressedReceived
  <2>4. /\ \A k \in Jobs : delivery'[k] = "delivered" /\ row[jobId[k]] = k => k \in received
        /\ \A i \in consumed : row[i] # NoJob => row[i] \in received
    BY <2>1, <2>3 DEF DInv, ClaimInv, DeliveredReceived, ConsumedMeansReceived
  <2> QED
    BY <2>1, <2>2, <2>4, DeliverySteps
<1>2. CASE Delivered(j)
  <2> DEFINE d == [delivery EXCEPT ![j] = "none"]
             U == Unconsumed({jobId[j]})
  <2>1. /\ delivery[j] = "delivered"
        /\ d \in [Jobs -> DeliveryStates]
        /\ UNCHANGED <<jobs, suppressed, watched, epoch, call, received>>
        /\ consumed' = consumed \cup U
    BY <1>0, <1>2 DEF Delivered, DeliveryStates, model
  <2>2. Moved(d, suppressed \cup watched)
    BY <1>0, <1>2, <2>1, EnsureMoves DEF Delivered
  <2>3. /\ d[j] = "none" /\ \A k \in Jobs \ {j} : d[k] = delivery[k]
    BY <1>0
  <2>4. \A i \in U : row[i] # NoJob => row[i] \in received
    <3> SUFFICES ASSUME row[jobId[j]] # NoJob PROVE row[jobId[j]] \in received
      BY DEF Unconsumed
    <3>1. row[jobId[j]] = j
      BY <2>1 DEF DInv, ClaimInv, PendingRows, Pending, InFlight
    <3> QED
      BY <2>1, <3>1 DEF DInv, ClaimInv, DeliveredReceived
  <2> HIDE DEF d, U
  <2>5. \A k \in Jobs :
          /\ Pending(k)' => Pending(k)
          /\ InFlight(k)' /\ stamp'[k] # epoch => InFlight(k) /\ stamp[k] # epoch
          /\ delivery'[k] = "delivered" => delivery[k] = "delivered"
    BY <1>0, <2>1, <2>2, <2>3, ResolvedMoves DEF InFlight
  <2>6. /\ \A k \in Jobs : delivery'[k] = "delivered" /\ row[jobId[k]] = k => k \in received
        /\ \A i \in consumed' : row[i] # NoJob => row[i] \in received
    BY <2>1, <2>4, <2>5 DEF DInv, ClaimInv, DeliveredReceived, ConsumedMeansReceived
  <2> QED
    BY <2>1, <2>5, <2>6, DeliverySteps
<1>3. CASE Rejected(j)
  <2> DEFINE d == [delivery EXCEPT ![j] =
                IF isDeliverySuppressed(jobId[j]) \/ row[jobId[j]] = NoJob
                THEN "none" ELSE "backoff"]
  <2>1. /\ delivery[j] = "rejected"
        /\ d \in [Jobs -> DeliveryStates]
        /\ UNCHANGED <<jobs, suppressed, watched, consumed, epoch, call, received>>
    BY <1>0, <1>3 DEF Rejected, DeliveryStates, model, marks
  <2>2. Moved(d, suppressed \cup watched)
    BY <1>0, <1>3, <2>1, EnsureMoves DEF Rejected
  <2>3. d[j] \in {"none", "backoff"} /\ \A k \in Jobs \ {j} : d[k] = delivery[k]
    BY <1>0
  <2> HIDE DEF d
  <2>5. \A k \in Jobs :
          /\ Pending(k)' => Pending(k)
          /\ InFlight(k)' /\ stamp'[k] # epoch => InFlight(k) /\ stamp[k] # epoch
          /\ delivery'[k] = "delivered" => delivery[k] = "delivered"
    BY <1>0, <2>1, <2>2, <2>3, ResolvedMoves DEF InFlight
  <2>6. /\ \A k \in Jobs : delivery'[k] = "delivered" /\ row[jobId[k]] = k => k \in received
        /\ \A i \in consumed : row[i] # NoJob => row[i] \in received
    BY <2>1, <2>5 DEF DInv, ClaimInv, DeliveredReceived, ConsumedMeansReceived
  <2> QED
    BY <2>1, <2>5, <2>6, DeliverySteps
<1> QED
  BY <1>1, <1>2, <1>3 DEF Sink

\* A flush keeps DInv: what it resolves it has shown to the model.
LEMMA InjectD ==
  ASSUME IInv, DInv, Inject
  PROVE  DInv'
<1>0. TypeOK /\ delivery \in [Jobs -> DeliveryStates]
  BY DeliveryTyped DEF IInv
<1>1. /\ UNCHANGED <<jobs, suppressed, watched, consumed, stamp, epoch, call>>
      /\ tool = "none"
      /\ \A j \in Jobs :
           \/ delivery'[j] = delivery[j]
           \/ delivery[j] = "parked" /\ delivery'[j] = "rejected"
           \/ delivery[j] = "parked" /\ delivery'[j] = "delivered" /\ j \in received'
      /\ received \subseteq received'
      /\ \A j \in received' : j \in received \/ (j \in Jobs /\ delivery[j] = "parked")
  BY <1>0 DEF Inject, Idle, marks, model
<1>2. \A j \in Jobs : /\ Pending(j)' => Pending(j)
                      /\ InFlight(j)' /\ stamp'[j] # epoch => InFlight(j) /\ stamp[j] # epoch
  BY <1>1 DEF Pending, Queued, InFlight
<1>3. /\ \A j \in Jobs : delivery'[j] = "delivered" /\ row[jobId[j]] = j => j \in received'
      /\ \A i \in consumed : row[i] # NoJob => row[i] \in received'
  BY <1>1 DEF DInv, ClaimInv, DeliveredReceived, ConsumedMeansReceived
<1>4. \A j \in received' : j \in received \/ (j \in Jobs /\ Pending(j))
  BY <1>1 DEF Pending, InFlight
<1> QED
  BY <1>1, <1>2, <1>3, <1>4, DeliverySteps

\* When no call is under way, nothing is held or watched.
LEMMA IdleCall ==
  ASSUME tool' = "none", held' = {}, watched' = {}, ~message', SuppressedRunning'
  PROVE  CallInv'
BY DEF CallInv, HeldRows, HeldByCall, WatchedHeld, HeldQuiet, HeldUnreceived,
       BashSuppresses, BashCall

\* What Idle says of the call.
LEMMA IdleHolds ==
  ASSUME DInv, tool \in {"none", "unwatched"}
  PROVE  watched = {} /\ (tool = "none" => held = {} /\ ~message)
BY DEF DInv, CallInv, WatchedHeld, HeldByCall, HubCall

\* A snapshot keeps DInv: it suppresses what it has received.
LEMMA ConsumeD ==
  ASSUME IInv, IInv', DInv, NEW S \in SUBSET Jobs, \A j \in S : jobId[j] \in Ids, Consume(S),
         UNCHANGED <<jobs, watched, epoch>>,
         tool \in {"none", "unwatched"}, tool' = "none", held' = {}, ~message'
  PROVE  DInv'
<1> DEFINE I == {i \in IdsOf(S) : row[i] # NoJob /\ status[row[i]] # "running"}
           U == Unconsumed(I)
<1> USE DEF DInv
<1>0. TypeOK /\ TypeOK'
  BY DEF IInv
<1>1. I \in SUBSET Ids /\ \A i \in I : row[i] \in Jobs /\ status[row[i]] # "running"
  BY <1>0 DEF IdsOf, TypeOK
<1>2. acknowledgeDeliveries(I) /\ consumed' = consumed \cup U
      /\ received' = received \cup {row[i] : i \in U}
  BY DEF Consume
<1>3. /\ Moved(delivery, suppressed \cup I \cup watched)
      /\ suppressed' = suppressed \cup I /\ UNCHANGED stamp
  BY <1>0, <1>1, <1>2, AcknowledgeMoves
<1>4. \A i \in U : i \in I /\ Settled(row[i])
  BY DEF Unconsumed
<1>5. \A i \in I : Settled(row[i]) => row[i] \in received'
  BY <1>1, <1>2 DEF Unconsumed, ClaimInv, ConsumedMeansReceived
<1> HIDE DEF I, U
<1>6. \A k \in Jobs : /\ Pending(k)' => Pending(k)
                      /\ InFlight(k)' /\ stamp'[k] # epoch => InFlight(k) /\ stamp[k] # epoch
                      /\ delivery'[k] = "delivered" => delivery[k] = "delivered"
  BY <1>0, <1>3, MovedPending, PendingIsNotNone DEF InFlight
<1>7. PendingFinished' /\ PendingRows' /\ StaleOrphaned'
  BY <1>6 DEF ClaimInv, PendingFinished, PendingRows, StaleOrphaned, jobs
<1>8. SuppressedReceived'
  <2> SUFFICES ASSUME NEW k \in Jobs, Pending(k), jobId[k] \in suppressed \cup I
               PROVE  k \in received'
    BY <1>3, <1>6 DEF SuppressedReceived, jobs
  <2>1. CASE jobId[k] \in suppressed
    BY <1>2, <2>1 DEF ClaimInv, SuppressedReceived
  <2>2. CASE jobId[k] \in I
    BY <1>1, <1>5, <2>2, JobsAssumption DEF ClaimInv, PendingRows, PendingFinished, Settled
  <2> QED
    BY <2>1, <2>2
<1>9. DeliveredReceived'
  BY <1>2, <1>6 DEF ClaimInv, DeliveredReceived, jobs
<1>10. ReceivedSettled' /\ ConsumedMeansReceived'
  BY <1>2, <1>4 DEF ClaimInv, ReceivedSettled, ConsumedMeansReceived, Settled, jobs
<1>11. SuppressedRunning'
  <2> SUFFICES ASSUME NEW k \in Jobs, status[k] = "running", jobId[k] \in suppressed \cup I
               PROVE  FALSE
    BY <1>3 DEF SuppressedRunning, jobs
  <2>1. row[jobId[k]] = k
    BY DEF IInv, LiveRows
  <2>2. jobId[k] \in suppressed
    BY <1>1, <2>1
  <2> QED
    BY <2>2 DEF CallInv, SuppressedRunning, BashCall
<1>12. watched' = {}
  BY IdleHolds
<1> QED
  BY <1>7, <1>8, <1>9, <1>10, <1>11, <1>12, IdleCall DEF ClaimInv

\* register keeps DInv: no delivery is pending under the id it takes.
LEMMA RegisterD ==
  ASSUME ~ReusesInFlight, IInv, IInv', DInv,
         NEW j \in Jobs, NEW i \in Ids, NEW f \in BOOLEAN, Register(j, i, f)
  PROVE  DInv'
<1> USE DEF DInv
<1>0. TypeOK /\ TypeOK'
  BY DEF IInv
<1>1. /\ status[j] = "new" /\ row[i] = NoJob
      /\ \A k \in Jobs : jobId[k] = i => ~Pending(k)
      /\ status' = [status EXCEPT ![j] = "running"]
      /\ jobId' = [jobId EXCEPT ![j] = i]
      /\ row' = [row EXCEPT ![i] = j]
      /\ consumed' = consumed \ {i}
      /\ UNCHANGED <<watched, epoch, message, received>>
  BY DEF Register, model
<1>2. tool = "none" /\ held = {} /\ watched = {} /\ ~message
  BY IdleHolds DEF Register, Idle
<1>3. ~Pending(j) /\ j \notin received
  BY <1>1 DEF ClaimInv, PendingFinished, ReceivedSettled, Settled
<1>4. /\ Moved(delivery, suppressed \cup {i} \cup watched)
      /\ suppressed' \subseteq suppressed \cup {i}
      /\ IF f THEN i \in suppressed' /\ tool' = "foreground" /\ held' = {j}
         ELSE i \notin suppressed' /\ tool' = "none" /\ held' = {}
  <2>1. CASE f
    BY <1>0, <2>1, AcknowledgeMoves DEF Register
  <2>2. CASE ~f
    BY <1>2, <2>2 DEF Register, Moved
  <2> QED
    BY <2>1, <2>2
<1>5. \A k \in Jobs :
        /\ Pending(k)' => Pending(k) /\ k # j /\ jobId'[k] = jobId[k] /\ jobId[k] # i
        /\ InFlight(k)' /\ stamp'[k] # epoch => InFlight(k) /\ stamp[k] # epoch
        /\ delivery'[k] = "delivered" => delivery[k] = "delivered" /\ Pending(k)'
  BY <1>0, <1>1, <1>3, <1>4, MovedPending, PendingIsNotNone DEF InFlight, Pending, TypeOK
<1>6. \A k \in Jobs : jobId'[k] # i => row'[jobId'[k]] = row[jobId'[k]]
  BY <1>0, <1>1 DEF TypeOK
<1>7. PendingFinished' /\ PendingRows'
  BY <1>0, <1>1, <1>5, <1>6 DEF ClaimInv, PendingFinished, PendingRows, TypeOK
<1>8. SuppressedReceived'
  BY <1>1, <1>4, <1>5 DEF ClaimInv, SuppressedReceived
<1>9. StaleOrphaned' /\ DeliveredReceived'
  <2>1. \A k \in Jobs : InFlight(k)' => Pending(k)'
    BY DEF Pending
  <2> QED
    BY <1>1, <1>5, <1>6, <2>1 DEF ClaimInv, StaleOrphaned, DeliveredReceived
<1>10. ReceivedSettled' /\ ConsumedMeansReceived'
  BY <1>0, <1>1, <1>3 DEF ClaimInv, ReceivedSettled, ConsumedMeansReceived, Settled, TypeOK
<1>11. \A k \in Jobs \ {j} : status[k] = "running" => jobId[k] # i /\ jobId[k] \notin suppressed
  <2>1. \A k \in Jobs : status[k] = "running" => row[jobId[k]] = k
    BY DEF IInv, LiveRows
  <2>2. \A k \in Jobs : status[k] = "running" => jobId[k] \notin suppressed
    BY <1>2 DEF CallInv, SuppressedRunning
  <2> QED
    BY <1>1, <2>1, <2>2, JobsAssumption
<1>12. SuppressedRunning'
  BY <1>0, <1>1, <1>4, <1>11 DEF SuppressedRunning, BashCall, TypeOK
<1>13. CallInv'
  <2>1. CASE ~f
    BY <1>1, <1>2, <1>4, <1>12, <2>1, IdleCall
  <2>2. CASE f
    <3>1. HeldRows' /\ WatchedHeld'
      BY <1>0, <1>1, <1>2, <1>4, <2>2 DEF HeldRows, WatchedHeld, TypeOK
    <3>2. HeldQuiet' /\ HeldUnreceived' /\ BashSuppresses'
      BY <1>0, <1>1, <1>3, <1>4, <1>5, <2>2 DEF HeldQuiet, HeldUnreceived, BashSuppresses, TypeOK
    <3>3. HeldByCall'
      BY <1>1, <1>2, <1>4, <2>2 DEF HeldByCall
    <3> QED
      BY <1>12, <3>1, <3>2, <3>3 DEF CallInv
  <2> QED
    BY <2>1, <2>2
<1> QED
  BY <1>7, <1>8, <1>9, <1>10, <1>13 DEF ClaimInv

\* A run that settles keeps DInv: its result is queued unless a call holds it.
LEMMA FinishD ==
  ASSUME IInv, IInv', DInv, NEW j \in Jobs, Finish(j)
  PROVE  DInv'
<1> USE DEF DInv
<1> DEFINE d == [delivery EXCEPT ![j] = "queued"]
<1>0. TypeOK /\ TypeOK' /\ d \in [Jobs -> DeliveryStates]
  BY DeliveryTyped DEF IInv, DeliveryStates
<1>1. /\ status[j] = "running"
      /\ status' = [status EXCEPT ![j] = "finished"]
      /\ UNCHANGED <<jobId, row, suppressed, watched, consumed, epoch, held, message, received>>
      /\ tool' = IF j \notin held THEN tool
                 ELSE CASE tool = "waiting" -> "raced"
                        [] tool = "foreground" -> "answered"
                        [] OTHER -> tool
  BY DEF Finish, model
<1>2. row[jobId[j]] = j /\ jobId[j] \in Ids /\ ~Pending(j) /\ j \notin received
  BY <1>1 DEF IInv, LiveRows, ClaimInv, PendingFinished, ReceivedSettled, Settled
<1>3. \/ UNCHANGED queue
      \/ /\ jobId[j] \notin suppressed /\ jobId[j] \notin watched
         /\ Moved(d, suppressed \cup watched)
  BY <1>0, EnsureMoves DEF Finish, Enqueue, isDeliverySuppressed
<1>4. \A k \in Jobs :
        /\ Pending(k)' => Pending(k) \/ (k = j /\ jobId[j] \notin suppressed /\ jobId[j] \notin watched)
        /\ InFlight(k)' /\ stamp'[k] # epoch => InFlight(k) /\ stamp[k] # epoch
        /\ delivery'[k] = "delivered" => delivery[k] = "delivered"
  <2>1. CASE UNCHANGED queue
    BY <2>1 DEF queue, Pending, Queued, InFlight
  <2>2. CASE /\ jobId[j] \notin suppressed /\ jobId[j] \notin watched
             /\ Moved(d, suppressed \cup watched)
    <3>1. d[j] = "queued" /\ \A k \in Jobs \ {j} : d[k] = delivery[k]
      BY <1>0 DEF TypeOK
    <3> HIDE DEF d
    <3> QED
      BY <1>0, <1>1, <2>2, <3>1, MovedPending, PendingIsNotNone DEF InFlight
  <2> QED
    BY <1>3, <2>1, <2>2
<1> HIDE DEF d
<1>5. PendingFinished' /\ PendingRows' /\ SuppressedReceived'
  BY <1>0, <1>1, <1>2, <1>4
     DEF ClaimInv, PendingFinished, PendingRows, SuppressedReceived, TypeOK
<1>6. StaleOrphaned' /\ DeliveredReceived' /\ ConsumedMeansReceived'
  BY <1>1, <1>4 DEF ClaimInv, StaleOrphaned, DeliveredReceived, ConsumedMeansReceived
<1>7. ReceivedSettled'
  BY <1>0, <1>1, <1>2 DEF ClaimInv, ReceivedSettled, Settled, TypeOK
<1>8. HeldRows'
  BY <1>0, <1>1 DEF CallInv, HeldRows, HeldByCall, BashCall, TypeOK
<1>9. HeldByCall' /\ WatchedHeld'
  BY <1>1 DEF CallInv, HeldByCall, WatchedHeld, IdsOf, BashCall, HubCall
<1>10. HeldQuiet'
  <2>1. j \in held /\ tool # "unwatched" => jobId[j] \in suppressed \/ jobId[j] \in watched
    BY <1>0 DEF CallInv, HeldByCall, WatchedHeld, BashSuppresses, BashCall, IdsOf, TypeOK
  <2> QED
    BY <1>0, <1>1, <1>4, <2>1 DEF CallInv, HeldQuiet, TypeOK
<1>11. HeldUnreceived' /\ BashSuppresses' /\ SuppressedRunning'
  BY <1>0, <1>1 DEF CallInv, HeldUnreceived, BashSuppresses, SuppressedRunning, BashCall, TypeOK
<1> QED
  BY <1>5, <1>6, <1>7, <1>8, <1>9, <1>10, <1>11 DEF CallInv, ClaimInv

\* A cancelled run that settles is held by no call and has no delivery.
LEMMA ReapD ==
  ASSUME IInv, DInv, NEW j \in Jobs, Reap(j)
  PROVE  DInv'
<1> USE DEF DInv
<1>0. TypeOK
  BY DEF IInv
<1>1. /\ status[j] = "cancelled" /\ j \notin held
      /\ status' = [status EXCEPT ![j] = "reaped"]
      /\ UNCHANGED <<jobId, row, suppressed, watched, consumed, delivery, stamp, epoch, held,
                     tool, message, received>>
  BY DEF Reap, queue, model, CallInv, HeldRows
<1>2. \A k \in Jobs : /\ Pending(k)' <=> Pending(k)
                      /\ InFlight(k)' <=> InFlight(k)
  BY <1>1 DEF Pending, Queued, InFlight
<1>3. ClaimInv'
  BY <1>0, <1>1, <1>2
     DEF ClaimInv, PendingFinished, PendingRows, SuppressedReceived, StaleOrphaned,
         DeliveredReceived, ReceivedSettled, ConsumedMeansReceived, Settled, TypeOK
<1>4. HeldRows' /\ HeldByCall' /\ WatchedHeld'
  BY <1>0, <1>1 DEF CallInv, HeldRows, HeldByCall, WatchedHeld, IdsOf, TypeOK
<1>5. HeldQuiet' /\ HeldUnreceived' /\ BashSuppresses' /\ SuppressedRunning'
  BY <1>0, <1>1, <1>2
     DEF CallInv, HeldQuiet, HeldUnreceived, BashSuppresses, SuppressedRunning, TypeOK
<1> QED
  BY <1>3, <1>4, <1>5 DEF CallInv

\* An eviction keeps DInv: a row that a call holds has not settled, so no timer is
\* armed for it.
LEMMA EvictD ==
  ASSUME IInv, DInv, NEW i \in Ids, Evict(i)
  PROVE  DInv'
<1> USE DEF DInv
<1>0. TypeOK
  BY DEF IInv
<1>1. /\ timer[i] # "none" /\ tool \in {"none", "waiting", "foreground"}
      /\ row' = [row EXCEPT ![i] = NoJob]
      /\ suppressed' = suppressed \ {i} /\ watched' = watched \ {i}
      /\ consumed' = consumed \ {i}
      /\ UNCHANGED <<status, jobId, delivery, stamp, epoch, tool, held, message, received>>
  BY DEF Evict, Drained, queue, call, model
<1>2. \A k \in held : jobId[k] # i
  <2> SUFFICES ASSUME NEW k \in held, jobId[k] = i PROVE FALSE
    OBVIOUS
  <2>1. row[i] = k /\ status[k] = "running"
    BY <1>1 DEF CallInv, HeldRows, HeldByCall
  <2>2. Settled(row[i])
    BY <1>1 DEF IInv, TimersServeRows
  <2> QED
    BY <2>1, <2>2 DEF Settled
<1>3. \A k \in Jobs : /\ Pending(k)' <=> Pending(k)
                      /\ InFlight(k)' <=> InFlight(k)
  BY <1>1 DEF Pending, Queued, InFlight
<1>4. \A k \in Jobs : row'[jobId[k]] \in {row[jobId[k]], NoJob} \/ jobId[k] \notin Ids
  BY <1>0, <1>1 DEF TypeOK
<1>5. \A k \in Jobs : Pending(k) => row'[jobId[k]] \in {row[jobId[k]], NoJob}
  BY <1>4 DEF IInv, PendingIds
<1>6. PendingFinished' /\ PendingRows' /\ SuppressedReceived'
  BY <1>1, <1>3, <1>5 DEF ClaimInv, PendingFinished, PendingRows, SuppressedReceived
<1>7. StaleOrphaned' /\ DeliveredReceived'
  BY <1>1, <1>3, <1>5, JobsAssumption
     DEF ClaimInv, StaleOrphaned, DeliveredReceived, Pending, InFlight
<1>8. ReceivedSettled' /\ ConsumedMeansReceived'
  BY <1>0, <1>1 DEF ClaimInv, ReceivedSettled, ConsumedMeansReceived, Settled, TypeOK
<1>9. HeldRows'
  BY <1>0, <1>1, <1>2 DEF CallInv, HeldRows, IInv, HeldIds, TypeOK
<1>10. HeldByCall' /\ WatchedHeld'
  BY <1>1, <1>2 DEF CallInv, HeldByCall, WatchedHeld, IdsOf
<1>11. HeldQuiet' /\ HeldUnreceived' /\ BashSuppresses' /\ SuppressedRunning'
  BY <1>0, <1>1, <1>2, <1>3
     DEF CallInv, HeldQuiet, HeldUnreceived, BashSuppresses, SuppressedRunning, TypeOK
<1> QED
  BY <1>6, <1>7, <1>8, <1>9, <1>10, <1>11 DEF CallInv, ClaimInv

\* A session transition leaves no delivery its row.
LEMMA NewSessionOrphans ==
  ASSUME IInv, DInv, NewSession, NEW k \in Jobs, Pending(k)
  PROVE  row'[jobId[k]] = NoJob
<1>1. status[k] = "finished" /\ row[jobId[k]] \in {k, NoJob} /\ jobId[k] \in Ids
  BY DEF DInv, ClaimInv, PendingFinished, PendingRows, IInv, PendingIds
<1>2. row'[jobId[k]] = IF row[jobId[k]] # NoJob /\ status[row[jobId[k]]] = "finished"
                       THEN NoJob ELSE row[jobId[k]]
  BY <1>1 DEF NewSession
<1> QED
  BY <1>1, <1>2

\* What a session transition does to the deliveries.
LEMMA NewSessionMoves ==
  ASSUME TypeOK, NewSession, NEW k \in Jobs
  PROVE  /\ \/ delivery'[k] = delivery[k]
            \/ delivery[k] = "parked" /\ delivery'[k] = "rejected"
            \/ Queued(delivery, k) /\ delivery'[k] = "none"
         /\ Queued(delivery, k) /\ jobId[k] \in Ids /\ row[jobId[k]] = k /\ status[k] = "finished"
              => delivery'[k] = "none"
<1> DEFINE Gone == {i \in Ids : row[i] # NoJob /\ status[row[i]] = "finished"}
           Kept == IF Gone = {} THEN delivery ELSE Purge(Gone \cup suppressed \cup watched)
<1>1. delivery' = [j \in Jobs |-> IF Kept[j] = "parked" THEN "rejected" ELSE Kept[j]]
  BY DEF NewSession
<1>2. Kept[k] = delivery[k] \/ (Queued(delivery, k) /\ Kept[k] = "none")
  BY DEF Purge
<1>3. ASSUME Queued(delivery, k), jobId[k] \in Ids, row[jobId[k]] = k, status[k] = "finished"
      PROVE  Kept[k] = "none"
  <2>1. jobId[k] \in Gone
    BY <1>3, JobsAssumption
  <2> QED
    BY <1>3, <2>1 DEF Purge
<1> HIDE DEF Gone, Kept
<1> QED
  BY <1>1, <1>2, <1>3

\* A session transition keeps DInv.
LEMMA NewSessionD ==
  ASSUME IInv, DInv, NewSession
  PROVE  DInv'
<1> USE DEF DInv
<1>0. TypeOK
  BY DEF IInv
<1>1. /\ status' = [j \in Jobs |-> IF status[j] = "running" THEN "cancelled" ELSE status[j]]
      /\ suppressed' \subseteq suppressed /\ watched' \subseteq watched
      /\ consumed' \subseteq consumed
      /\ UNCHANGED <<jobId, tool, held, message, received>>
      /\ \A i \in Ids : row'[i] \in {row[i], NoJob}
  BY DEF NewSession, call, model
<1>2. tool = "none" /\ held = {} /\ watched = {} /\ ~message
  BY IdleHolds DEF NewSession, Idle
<1>3. \A k \in Jobs : /\ Pending(k)' => Pending(k)
                      /\ InFlight(k)' => InFlight(k)
                      /\ delivery'[k] = "delivered" => delivery[k] = "delivered"
  BY <1>0, NewSessionMoves DEF Pending, Queued, InFlight
<1>4. \A k \in Jobs : Pending(k)' => row'[jobId'[k]] = NoJob
  BY <1>1, <1>3, NewSessionOrphans
<1>5. PendingFinished' /\ PendingRows' /\ SuppressedReceived'
  BY <1>0, <1>1, <1>3, <1>4 DEF ClaimInv, PendingFinished, PendingRows, SuppressedReceived, TypeOK
<1>6. StaleOrphaned' /\ DeliveredReceived'
  <2>1. \A k \in Jobs : InFlight(k)' \/ delivery'[k] = "delivered" => Pending(k)'
    BY DEF Pending, InFlight
  <2> QED
    BY <1>4, <2>1, JobsAssumption DEF StaleOrphaned, DeliveredReceived
<1>7. ReceivedSettled' /\ ConsumedMeansReceived'
  BY <1>0, <1>1 DEF ClaimInv, ReceivedSettled, ConsumedMeansReceived, Settled, TypeOK
<1>8. SuppressedRunning'
  BY <1>0, <1>1 DEF SuppressedRunning, TypeOK
<1> QED
  BY <1>1, <1>2, <1>5, <1>6, <1>7, <1>8, IdleCall DEF ClaimInv

\* hub cancel and an aborted foreground wait keep DInv: a cancelled job has no
\* delivery.
LEMMA CancelD ==
  ASSUME IInv, IInv', DInv, NEW j \in Jobs, HubCancel(j) \/ ForegroundAborts(j)
  PROVE  DInv'
<1> USE DEF DInv
<1>0. TypeOK /\ TypeOK'
  BY DEF IInv
<1>1. /\ status[j] = "running" /\ status' = [status EXCEPT ![j] = "cancelled"]
      /\ tool' = "none" /\ held' = {} /\ held \subseteq {j} /\ watched = {} /\ ~message
      /\ UNCHANGED <<jobId, row, watched, consumed, epoch, message, received>>
  <2>1. CASE HubCancel(j)
    BY <2>1, IdleHolds DEF HubCancel, Idle, model, call
  <2>2. CASE ForegroundAborts(j)
    <3>1. status[j] = "running" /\ watched = {} /\ ~message
      BY <2>2 DEF ForegroundAborts, CallInv, HeldRows, HeldByCall, WatchedHeld, HubCall
    <3> QED
      BY <2>2, <3>1 DEF ForegroundAborts, marks, model
  <2> QED
    BY <2>1, <2>2
<1>2. row[jobId[j]] = j /\ ~Pending(j) /\ j \notin received
  BY <1>1 DEF IInv, LiveRows, ClaimInv, PendingFinished, ReceivedSettled, Settled
<1>3. /\ Moved(delivery, suppressed \cup {jobId[j]} \cup watched)
      /\ suppressed' \subseteq suppressed \cup {jobId[j]}
  <2>1. CASE HubCancel(j)
    <3>1. {jobId[j]} \in SUBSET Ids
      BY <1>1 DEF IInv, LiveRows
    <3> QED
      BY <1>0, <2>1, <3>1, AcknowledgeMoves DEF HubCancel
  <2>2. CASE ForegroundAborts(j)
    BY <2>2 DEF ForegroundAborts, marks, queue, Moved
  <2> QED
    BY <2>1, <2>2
<1>4. \A k \in Jobs : /\ Pending(k)' => Pending(k)
                      /\ InFlight(k)' /\ stamp'[k] # epoch => InFlight(k) /\ stamp[k] # epoch
                      /\ delivery'[k] = "delivered" => delivery[k] = "delivered"
  BY <1>0, <1>1, <1>3, MovedPending, PendingIsNotNone DEF InFlight
<1>5. \A k \in Jobs : Pending(k) => jobId[k] # jobId[j]
  BY <1>2, JobsAssumption DEF ClaimInv, PendingRows
<1>6. PendingFinished' /\ PendingRows' /\ SuppressedReceived'
  BY <1>0, <1>1, <1>2, <1>3, <1>4, <1>5
     DEF ClaimInv, PendingFinished, PendingRows, SuppressedReceived, TypeOK
<1>7. StaleOrphaned' /\ DeliveredReceived' /\ ConsumedMeansReceived'
  BY <1>1, <1>4 DEF ClaimInv, StaleOrphaned, DeliveredReceived, ConsumedMeansReceived
<1>8. ReceivedSettled'
  BY <1>0, <1>1, <1>2 DEF ClaimInv, ReceivedSettled, Settled, TypeOK
<1>9. SuppressedRunning'
  <2> SUFFICES ASSUME NEW k \in Jobs, status'[k] = "running", jobId[k] \in suppressed'
               PROVE  FALSE
    BY <1>1 DEF SuppressedRunning
  <2>1. k # j /\ status[k] = "running"
    BY <1>0, <1>1 DEF TypeOK
  <2>2. jobId[k] # jobId[j]
    BY <1>2, <2>1 DEF IInv, LiveRows
  <2> QED
    BY <1>1, <1>3, <2>1, <2>2 DEF CallInv, SuppressedRunning
<1> QED
  BY <1>1, <1>6, <1>7, <1>8, <1>9, IdleCall DEF ClaimInv

\* Snapshots keep DInv; a hub wait that a message won leaves everything unclaimed.
LEMMA SnapshotD ==
  ASSUME IInv, IInv', DInv, HubJobs \/ HubWaitReturns
  PROVE  DInv'
<1>1. CASE HubJobs
  <2>1. Rows \in SUBSET Jobs /\ \A j \in Rows : jobId[j] \in Ids
    BY JobsAssumption DEF Rows, RowIds, IInv
  <2>2. tool = "none" /\ tool' = "none" /\ held' = {} /\ ~message'
    BY <1>1, IdleHolds DEF HubJobs, Idle, call
  <2> QED
    BY <1>1, <2>1, <2>2, ConsumeD DEF HubJobs
<1>2. CASE HubWaitReturns
  <2>1. held \in SUBSET Jobs /\ \A j \in held : jobId[j] \in Ids
    BY DEF IInv, TypeOK, HeldIds
  <2>2. CASE ~message
    BY <1>2, <2>1, <2>2, ConsumeD DEF HubWaitReturns
  <2>3. CASE message
    <3>1. /\ UNCHANGED <<jobs, suppressed, watched, consumed, delivery, stamp, epoch, received>>
          /\ tool = "unwatched" /\ tool' = "none" /\ held' = {} /\ ~message'
      BY <1>2, <2>3 DEF HubWaitReturns, queue
    <3>2. \A k \in Jobs : (Pending(k)' <=> Pending(k)) /\ (InFlight(k)' <=> InFlight(k))
      BY <3>1 DEF Pending, Queued, InFlight
    <3>3. ClaimInv'
      BY <3>1, <3>2
         DEF DInv, ClaimInv, PendingFinished, PendingRows, SuppressedReceived, StaleOrphaned,
             DeliveredReceived, ReceivedSettled, ConsumedMeansReceived, Settled, jobs
    <3>4. SuppressedRunning'
      BY <3>1 DEF DInv, CallInv, SuppressedRunning, BashCall, jobs
    <3>5. watched' = {}
      BY <3>1, IdleHolds
    <3> QED
      BY <3>1, <3>3, <3>4, <3>5, IdleCall DEF DInv
  <2> QED
    BY <2>2, <2>3
<1> QED
  BY <1>1, <1>2

\* A step that changes no row, mark of a row, delivery or result.
LEMMA ClaimQuiet ==
  ASSUME ClaimInv, UNCHANGED <<jobs, suppressed, consumed, delivery, stamp, epoch, received>>
  PROVE  ClaimInv'
<1>1. \A k \in Jobs : (Pending(k)' <=> Pending(k)) /\ (InFlight(k)' <=> InFlight(k))
  BY DEF Pending, Queued, InFlight
<1> QED
  BY <1>1
     DEF ClaimInv, PendingFinished, PendingRows, SuppressedReceived, StaleOrphaned,
         DeliveredReceived, ReceivedSettled, ConsumedMeansReceived, Settled, jobs

\* The start of a hub wait keeps DInv: it watches running jobs only.
LEMMA HubWaitD ==
  ASSUME IInv, DInv, NEW S \in SUBSET Jobs, HubWait(S)
  PROVE  DInv'
<1> USE DEF DInv
<1>1. /\ UNCHANGED <<jobs, suppressed, consumed, delivery, stamp, epoch, received>>
      /\ tool' = "waiting" /\ held' = S /\ ~message' /\ S # {}
      /\ watched' = watched \cup IdsOf(S)
      /\ \A j \in S : status[j] = "running"
  BY DEF HubWait, model
<1>2. tool = "none" /\ held = {} /\ watched = {}
  BY IdleHolds DEF HubWait, Idle
<1>3. ClaimInv'
  BY <1>1, ClaimQuiet
<1>4. \A j \in S : row[jobId[j]] = j /\ ~Pending(j)' /\ j \notin received
  BY <1>1, <1>3 DEF IInv, LiveRows, ClaimInv, PendingFinished, ReceivedSettled, Settled, jobs
<1>5. HeldRows' /\ HeldByCall' /\ WatchedHeld'
  BY <1>1, <1>2, <1>4 DEF HeldRows, HeldByCall, WatchedHeld, BashCall, HubCall, IdsOf, jobs
<1>6. HeldQuiet' /\ HeldUnreceived' /\ BashSuppresses' /\ SuppressedRunning'
  BY <1>1, <1>2, <1>4
     DEF CallInv, HeldQuiet, HeldUnreceived, BashSuppresses, SuppressedRunning, BashCall, jobs
<1> QED
  BY <1>3, <1>5, <1>6 DEF CallInv

\* The steps of a call that is under way keep DInv.
LEMMA CallD ==
  ASSUME IInv, DInv, WaitExpires \/ ForegroundExpires \/ Unwatch \/ MessageArrives
  PROVE  DInv'
<1> USE DEF DInv
<1>1. /\ UNCHANGED <<jobs, suppressed, consumed, delivery, stamp, epoch, received, held>>
      /\ \/ tool \in {"waiting", "raced"} /\ tool' = "raced" /\ watched' = watched
            /\ message' \in BOOLEAN
         \/ tool = "raced" /\ tool' = "unwatched" /\ watched' = watched \ IdsOf(held)
            /\ message' = message
         \/ tool = "foreground" /\ tool' = "expired" /\ watched' = watched
            /\ message' = message
  BY DEF WaitExpires, ForegroundExpires, Unwatch, MessageArrives, unwatchJobs, marks, queue,
         model, IInv, TypeOK
<1>2. ClaimInv'
  BY <1>1, ClaimQuiet
<1>3. HeldRows' /\ WatchedHeld'
  BY <1>1 DEF CallInv, HeldRows, WatchedHeld, IdsOf, jobs
<1>4. HeldByCall'
  BY <1>1 DEF CallInv, HeldByCall, BashCall, HubCall
<1>5. \A k \in held : Pending(k)' <=> Pending(k)
  BY <1>1 DEF Pending, Queued, InFlight
<1>6. HeldQuiet' /\ HeldUnreceived'
  BY <1>1, <1>5 DEF CallInv, HeldQuiet, HeldUnreceived
<1>7. BashSuppresses' /\ SuppressedRunning'
  BY <1>1 DEF CallInv, BashSuppresses, SuppressedRunning, BashCall, jobs
<1> QED
  BY <1>2, <1>3, <1>4, <1>6, <1>7 DEF CallInv

\* The foreground return keeps DInv: the result it gives the model has no delivery.
LEMMA ForegroundReturnsD ==
  ASSUME IInv, DInv, NEW j \in Jobs, ForegroundReturns(j)
  PROVE  DInv'
<1> USE DEF DInv
<1>1. /\ UNCHANGED <<jobs, suppressed, watched, consumed, delivery, stamp, epoch, message>>
      /\ tool = "answered" /\ tool' = "none" /\ held = {j} /\ held' = {}
      /\ received' = received \cup {j}
  BY DEF ForegroundReturns, marks, queue
<1>2. status[j] = "finished" /\ watched' = {} /\ ~message'
  BY <1>1 DEF CallInv, HeldRows, WatchedHeld, HeldByCall, HubCall
<1>3. \A k \in Jobs : (Pending(k)' <=> Pending(k)) /\ (InFlight(k)' <=> InFlight(k))
  BY <1>1 DEF Pending, Queued, InFlight
<1>4. ClaimInv'
  BY <1>1, <1>2, <1>3
     DEF ClaimInv, PendingFinished, PendingRows, SuppressedReceived, StaleOrphaned,
         DeliveredReceived, ReceivedSettled, ConsumedMeansReceived, Settled, jobs
<1>5. SuppressedRunning'
  BY <1>1, <1>2 DEF CallInv, SuppressedRunning, jobs
<1> QED
  BY <1>1, <1>2, <1>4, <1>5, IdleCall

\* The hand-off to the background keeps DInv: the job it unsuppresses has no
\* delivery yet and its row is its own.
LEMMA BackgroundsD ==
  ASSUME IInv, IInv', DInv, NEW j \in Jobs, Backgrounds(j)
  PROVE  DInv'
<1> USE DEF DInv
<1> DEFINE d == [delivery EXCEPT ![j] = "queued"]
<1>0. TypeOK /\ TypeOK' /\ d \in [Jobs -> DeliveryStates]
  BY DeliveryTyped DEF IInv, DeliveryStates
<1>1. /\ UNCHANGED <<jobs, watched, consumed, epoch, message, received>>
      /\ tool = "expired" /\ tool' = "none" /\ held = {j} /\ held' = {}
      /\ suppressed' = suppressed \ {jobId[j]}
  BY DEF Backgrounds, resumeDeliveries, model
<1>2. /\ row[jobId[j]] = j /\ ~Pending(j) /\ j \notin received
      /\ watched = {} /\ ~message
  BY <1>1 DEF CallInv, HeldRows, HeldQuiet, HeldUnreceived, WatchedHeld, HeldByCall, HubCall
<1>3. \/ UNCHANGED queue
      \/ status[j] = "finished" /\ Moved(d, suppressed' \cup watched)
  <2>1. CASE LoopRuns(d, suppressed' \cup watched)
    BY <1>0, <2>1, LoopRunsMoves DEF Backgrounds, resumeDeliveries, queue
  <2>2. CASE delivery' = d /\ UNCHANGED stamp
    BY <2>2 DEF Backgrounds, resumeDeliveries, queue, Moved
  <2> QED
    BY <2>1, <2>2 DEF Backgrounds, resumeDeliveries
<1>4. \A k \in Jobs : /\ Pending(k)' => Pending(k) \/ (k = j /\ status[j] = "finished")
                      /\ InFlight(k)' /\ stamp'[k] # epoch => InFlight(k) /\ stamp[k] # epoch
                      /\ delivery'[k] = "delivered" => delivery[k] = "delivered"
  <2>1. CASE UNCHANGED queue
    BY <2>1 DEF queue, Pending, Queued, InFlight
  <2>2. CASE status[j] = "finished" /\ Moved(d, suppressed' \cup watched)
    <3>1. d[j] = "queued" /\ \A k \in Jobs \ {j} : d[k] = delivery[k]
      BY <1>0 DEF TypeOK
    <3> HIDE DEF d
    <3> QED
      BY <1>0, <1>1, <2>2, <3>1, MovedPending, PendingIsNotNone DEF InFlight
  <2> QED
    BY <1>3, <2>1, <2>2
<1> HIDE DEF d
<1>5. PendingFinished' /\ PendingRows' /\ SuppressedReceived'
  BY <1>1, <1>2, <1>4 DEF ClaimInv, PendingFinished, PendingRows, SuppressedReceived, jobs
<1>6. StaleOrphaned' /\ DeliveredReceived'
  BY <1>1, <1>4 DEF ClaimInv, StaleOrphaned, DeliveredReceived, jobs
<1>7. ReceivedSettled' /\ ConsumedMeansReceived'
  BY <1>1 DEF ClaimInv, ReceivedSettled, ConsumedMeansReceived, Settled, jobs
<1>8. SuppressedRunning'
  BY <1>1 DEF CallInv, SuppressedRunning, jobs
<1> QED
  BY <1>1, <1>2, <1>5, <1>6, <1>7, <1>8, IdleCall DEF ClaimInv

\* DInv is inductive relative to IInv.
LEMMA DConsecution ==
  ASSUME ~ReusesInFlight
  PROVE  IInv /\ IInv' /\ DInv /\ [Next]_vars => DInv'
<1> SUFFICES ASSUME IInv, IInv', DInv, [Next]_vars PROVE DInv'
  OBVIOUS
<1>1. ASSUME NEW j \in Jobs, Finish(j) \/ Reap(j) \/ Sink(j)
      PROVE  DInv'
  BY <1>1, FinishD, ReapD, SinkD
<1>2. ASSUME NEW i \in Ids, Evict(i)
      PROVE  DInv'
  BY <1>2, EvictD
<1>3. CASE Loop \/ Inject
  BY <1>3, LoopD, InjectD
<1>4. CASE Tools
  <2>1. CASE WaitExpires \/ Unwatch \/ ForegroundExpires
    BY <2>1, CallD
  <2>2. CASE HubWaitReturns
    BY <2>2, SnapshotD
  <2>3. ASSUME NEW j \in Jobs, Backgrounds(j) \/ ForegroundReturns(j)
        PROVE  DInv'
    BY <2>3, BackgroundsD, ForegroundReturnsD
  <2> QED
    BY <1>4, <2>1, <2>2, <2>3 DEF Tools
<1>5. CASE Asked
  <2>1. CASE MessageArrives
    BY <2>1, CallD
  <2>2. CASE HubJobs \/ NewSession
    BY <2>2, SnapshotD, NewSessionD
  <2>3. ASSUME NEW S \in SUBSET Jobs, HubWait(S)
        PROVE  DInv'
    BY <2>3, HubWaitD
  <2>4. ASSUME NEW j \in Jobs, HubCancel(j) \/ ForegroundAborts(j)
        PROVE  DInv'
    BY <2>4, CancelD
  <2>5. ASSUME NEW j \in Jobs, NEW i \in Ids, NEW f \in BOOLEAN, Register(j, i, f)
        PROVE  DInv'
    BY <2>5, RegisterD
  <2> QED
    BY <1>5, <2>1, <2>2, <2>3, <2>4, <2>5 DEF Asked
<1>6. CASE UNCHANGED vars
  <2>1. /\ \A k \in Jobs : (Pending(k)' <=> Pending(k)) /\ (InFlight(k)' <=> InFlight(k))
        /\ UNCHANGED <<jobs, suppressed, watched, consumed, stamp, epoch, call, received, delivery>>
    BY <1>6 DEF vars, marks, queue, model, Pending, Queued, InFlight
  <2>2. /\ \A j \in Jobs : delivery'[j] = "delivered" /\ row[jobId[j]] = j => j \in received
        /\ \A i \in consumed : row[i] # NoJob => row[i] \in received
    BY <2>1 DEF DInv, ClaimInv, DeliveredReceived, ConsumedMeansReceived
  <2> QED
    BY <2>1, <2>2, DeliverySteps
<1>7. CASE Quiescent
  BY <1>6, <1>7 DEF Quiescent
<1> QED
  BY <1>1, <1>2, <1>3, <1>4, <1>5, <1>6, <1>7 DEF Next

\* Without reuse of an id in flight, DInv holds in every reachable state.
LEMMA DInductive ==
  ASSUME ~ReusesInFlight
  PROVE  Spec => []DInv
<1>1. IInv /\ IInv' /\ DInv /\ [Next]_vars => DInv'
  BY DConsecution
<1> QED
  BY <1>1, DInitially, Inductive, PTL DEF Spec

\* A result is marked consumed only once the model has been given it, however
\* snapshots, injections, evictions and session transitions interleave, as long as
\* no id is reused while a delivery of it is pending.
THEOREM ConsumedReceived ==
  ASSUME ~ReusesInFlight
  PROVE  Spec => []ConsumedMeansReceived
<1>1. DInv => ConsumedMeansReceived
  BY DEF DInv, ClaimInv
<1> QED
  BY <1>1, DInductive, PTL

-----------------------------------------------------------------------------
(***************************************************************************)
(* NInv: a result stays owed until it is received, when a job does not     *)
(* settle between a message that ends the hub wait and its unwatching.     *)
(***************************************************************************)
\* A wait that a message won leaves jobs that run or whose results are pending.
MessageLeaves ==
  message =>
    /\ tool \in {"raced", "unwatched"}
    /\ \A j \in held : status[j] = "running" \/ (tool = "unwatched" /\ Pending(j))

\* The inductive invariant.
NInv == MessageLeaves /\ NoStrandedResult

\* Nothing has finished yet.
LEMMA NInitially == Init => NInv
BY DEF Init, NInv, MessageLeaves, NoStrandedResult, Unclaimed

\* A delivery of a live row is dropped only when its result was received.
LEMMA MovedOwed ==
  ASSUME IInv, IInv', DInv, UNCHANGED epoch, NEW d, NEW quiet, Moved(d, quiet),
         NEW k \in Jobs, d[k] # "none", Pending(k), row[jobId[k]] = k,
         jobId[k] \in quiet => isDeliverySuppressed(jobId[k])
  PROVE  Pending(k)' \/ k \in received
<1>1. CASE jobId[k] \in quiet
  <2>1. jobId[k] \notin watched
    BY WatchedQuiet
  <2> QED
    BY <1>1, <2>1 DEF isDeliverySuppressed, DInv, ClaimInv, SuppressedReceived
<1>2. CASE jobId[k] \notin quiet
  BY <1>2, MovedPending DEF IInv
<1> QED
  BY <1>1, <1>2

\* Steps that only move deliveries and record the results they bring.
LEMMA OwedSteps ==
  ASSUME IInv, DInv, DInv', NInv, UNCHANGED <<jobs, epoch, call>>, received \subseteq received',
         \A k \in Jobs : Pending(k) /\ row[jobId[k]] = k => Pending(k)' \/ k \in received'
  PROVE  NInv'
<1>1. NoStrandedResult'
  BY DEF NInv, NoStrandedResult, Unclaimed, jobs, call
<1>2. MessageLeaves'
  <2> SUFFICES ASSUME message, NEW j \in held, Pending(j)
               PROVE  Pending(j)'
    BY DEF NInv, MessageLeaves, jobs, call
  <2>1. row[jobId[j]] = j /\ j \notin received' /\ j \in Jobs
    BY DEF DInv, CallInv, HeldRows, HeldUnreceived, call, IInv, TypeOK
  <2> QED
    BY <2>1
<1> QED
  BY <1>1, <1>2 DEF NInv

\* The delivery loop drops no owed result.
LEMMA LoopN ==
  ASSUME IInv, IInv', DInv, DInv', NInv, Loop
  PROVE  NInv'
<1>0. TypeOK /\ delivery \in [Jobs -> DeliveryStates]
  BY DeliveryTyped DEF IInv
<1>1. /\ UNCHANGED <<jobs, epoch, call, received>>
      /\ Moved(delivery, suppressed \cup watched) \/
         \E k \in Jobs : BackoffElapses(k)
  <2>1. CASE LoopWakes
    BY <1>0, <2>1, LoopRunsMoves DEF LoopWakes, model
  <2>2. CASE LoopEnds
    BY <1>0, <2>2, LoopRunsMoves DEF LoopEnds, Moved, model
  <2>3. CASE \E k \in Jobs : BackoffElapses(k)
    BY <2>3 DEF BackoffElapses, model
  <2> QED
    BY <2>1, <2>2, <2>3 DEF Loop
<1>2. \A k \in Jobs : Pending(k) /\ row[jobId[k]] = k => Pending(k)' \/ k \in received
  <2>1. CASE Moved(delivery, suppressed \cup watched)
    BY <1>0, <1>1, <2>1, MovedOwed, PendingIsNotNone DEF isDeliverySuppressed
  <2>2. CASE \E k \in Jobs : BackoffElapses(k)
    BY <1>0, <2>2 DEF BackoffElapses, Pending, Queued, InFlight
  <2> QED
    BY <1>1, <2>1, <2>2
<1> QED
  BY <1>1, <1>2, OwedSteps

\* The outcome of a sink call drops no owed result.
LEMMA SinkN ==
  ASSUME IInv, IInv', DInv, DInv', NInv, NEW j \in Jobs, Sink(j)
  PROVE  NInv'
<1>0. TypeOK /\ delivery \in [Jobs -> DeliveryStates]
  BY DeliveryTyped DEF IInv
<1>1. CASE Formatted(j)
  <2>1. \A k \in Jobs : Pending(k) => Pending(k)'
    BY <1>0, <1>1 DEF Formatted, Pending, Queued, InFlight
  <2> QED
    BY <1>1, <2>1, OwedSteps DEF Formatted, model
<1>2. CASE Delivered(j)
  <2> DEFINE d == [delivery EXCEPT ![j] = "none"]
  <2>1. /\ d \in [Jobs -> DeliveryStates] /\ delivery[j] = "delivered"
        /\ \A k \in Jobs \ {j} : d[k] = delivery[k]
        /\ UNCHANGED <<jobs, epoch, call, received>>
    BY <1>0, <1>2 DEF Delivered, DeliveryStates, model
  <2>2. Moved(d, suppressed \cup watched)
    BY <1>0, <1>2, <2>1, EnsureMoves DEF Delivered
  <2> HIDE DEF d
  <2>3. \A k \in Jobs : Pending(k) /\ row[jobId[k]] = k => Pending(k)' \/ k \in received
    <3> SUFFICES ASSUME NEW k \in Jobs, Pending(k), row[jobId[k]] = k
                 PROVE  Pending(k)' \/ k \in received
      OBVIOUS
    <3>1. CASE k = j
      BY <2>1, <3>1 DEF DInv, ClaimInv, DeliveredReceived
    <3>2. CASE k # j
      BY <1>0, <2>1, <2>2, <3>2, MovedOwed, PendingIsNotNone DEF isDeliverySuppressed
    <3> QED
      BY <3>1, <3>2
  <2> QED
    BY <2>1, <2>3, OwedSteps
<1>3. CASE Rejected(j)
  <2> DEFINE d == [delivery EXCEPT ![j] =
                IF isDeliverySuppressed(jobId[j]) \/ row[jobId[j]] = NoJob
                THEN "none" ELSE "backoff"]
  <2>1. /\ d \in [Jobs -> DeliveryStates] /\ delivery[j] = "rejected"
        /\ \A k \in Jobs \ {j} : d[k] = delivery[k]
        /\ d[j] = "none" => isDeliverySuppressed(jobId[j]) \/ row[jobId[j]] = NoJob
        /\ UNCHANGED <<jobs, epoch, call, received>>
    BY <1>0, <1>3 DEF Rejected, DeliveryStates, model
  <2>2. Moved(d, suppressed \cup watched)
    BY <1>0, <1>3, <2>1, EnsureMoves DEF Rejected
  <2> HIDE DEF d
  <2>3. \A k \in Jobs : Pending(k) /\ row[jobId[k]] = k => Pending(k)' \/ k \in received
    <3> SUFFICES ASSUME NEW k \in Jobs, Pending(k), row[jobId[k]] = k
                 PROVE  Pending(k)' \/ k \in received
      OBVIOUS
    <3>1. CASE d[k] = "none"
      <4>1. k = j /\ isDeliverySuppressed(jobId[k])
        BY <1>0, <2>1, <3>1, PendingIsNotNone, JobsAssumption
      <4>2. jobId[k] \in suppressed
        BY <4>1, WatchedQuiet DEF isDeliverySuppressed
      <4> QED
        BY <4>2 DEF DInv, ClaimInv, SuppressedReceived
    <3>2. CASE d[k] # "none"
      BY <2>1, <2>2, <3>2, MovedOwed DEF isDeliverySuppressed
    <3> QED
      BY <3>1, <3>2
  <2> QED
    BY <2>1, <2>3, OwedSteps
<1> QED
  BY <1>1, <1>2, <1>3 DEF Sink

\* A flush drops no delivery.
LEMMA InjectN ==
  ASSUME IInv, DInv, DInv', NInv, Inject
  PROVE  NInv'
<1>1. \A k \in Jobs : Pending(k) => Pending(k)'
  BY DEF Inject, Pending, Queued, InFlight, IInv, TypeOK
<1>2. UNCHANGED <<jobs, epoch, call>> /\ received \subseteq received'
  BY DEF Inject, model
<1> QED
  BY <1>1, <1>2, OwedSteps

\* NInv where no message won a wait.
LEMMA SilentN ==
  ASSUME ~message', \A k \in Jobs : Unclaimed(k)' => Pending(k)' \/ k \in held'
  PROVE  NInv'
BY DEF NInv, MessageLeaves, NoStrandedResult

\* A snapshot drops only deliveries of results it has received.
LEMMA ConsumeN ==
  ASSUME IInv, IInv', DInv, DInv', NInv, NEW S \in SUBSET Jobs, Consume(S),
         \A j \in S : jobId[j] \in Ids, held \subseteq S,
         UNCHANGED <<jobs, watched, epoch>>, ~message'
  PROVE  NInv'
<1> DEFINE I == {i \in IdsOf(S) : row[i] # NoJob /\ status[row[i]] # "running"}
<1>0. TypeOK /\ delivery \in [Jobs -> DeliveryStates] /\ I \in SUBSET Ids
  BY DeliveryTyped DEF IInv, IdsOf
<1>1. acknowledgeDeliveries(I) /\ received' = received \cup {row[i] : i \in Unconsumed(I)}
      /\ consumed' = consumed \cup Unconsumed(I)
  BY DEF Consume
<1>2. Moved(delivery, suppressed \cup I \cup watched)
  BY <1>0, <1>1, AcknowledgeMoves
<1>3. \A i \in I : Settled(row[i]) => row[i] \in received'
  BY <1>1 DEF Unconsumed, DInv, ClaimInv, ConsumedMeansReceived
<1>4. SUFFICES ASSUME NEW k \in Jobs, Unclaimed(k)'
               PROVE  Pending(k)'
  BY SilentN
<1>5. Unclaimed(k) /\ row[jobId[k]] = k /\ k \notin received' /\ k # NoJob
      /\ status[k] = "finished"
  BY <1>1, <1>4, JobsAssumption DEF Unclaimed, jobs
<1>6. jobId[k] \notin I
  BY <1>3, <1>5 DEF Settled
<1>7. k \notin held
  <2> SUFFICES ASSUME k \in held PROVE jobId[k] \in I
    BY <1>6
  <2> QED
    BY <1>5 DEF IdsOf
<1> HIDE DEF I
<1>8. Pending(k)
  BY <1>5, <1>7 DEF NInv, NoStrandedResult
<1>9. Pending(k)' \/ k \in received
  BY <1>0, <1>2, <1>5, <1>6, <1>8, MovedOwed, PendingIsNotNone DEF isDeliverySuppressed
<1> QED
  BY <1>1, <1>5, <1>9

\* Snapshots keep NInv; a hub wait that a message won leaves its results pending.
LEMMA SnapshotN ==
  ASSUME IInv, IInv', DInv, DInv', NInv, HubJobs \/ HubWaitReturns
  PROVE  NInv'
<1>1. CASE HubJobs
  <2>1. Rows \in SUBSET Jobs /\ \A j \in Rows : jobId[j] \in Ids
    BY JobsAssumption DEF Rows, RowIds, IInv
  <2>2. held = {} /\ ~message'
    BY <1>1, IdleHolds DEF HubJobs, Idle, call
  <2> QED
    BY <1>1, <2>1, <2>2, ConsumeN DEF HubJobs
<1>2. CASE HubWaitReturns
  <2>1. held \in SUBSET Jobs /\ \A j \in held : jobId[j] \in Ids
    BY DEF IInv, TypeOK, HeldIds
  <2>2. CASE ~message
    BY <1>2, <2>1, <2>2, ConsumeN DEF HubWaitReturns
  <2>3. CASE message
    <3>1. UNCHANGED <<jobs, epoch, delivery, received>> /\ ~message'
      BY <1>2, <2>3 DEF HubWaitReturns, queue
    <3>2. \A k \in Jobs : /\ Unclaimed(k)' <=> Unclaimed(k)
                          /\ Pending(k)' <=> Pending(k)
      BY <3>1 DEF Unclaimed, Pending, Queued, InFlight, jobs
    <3>3. \A k \in Jobs : Unclaimed(k) => Pending(k)
      BY <2>3 DEF NInv, NoStrandedResult, MessageLeaves, Unclaimed
    <3> QED
      BY <3>1, <3>2, <3>3, SilentN
  <2> QED
    BY <2>2, <2>3
<1> QED
  BY <1>1, <1>2

\* register keeps NInv: it drops no delivery.
LEMMA RegisterN ==
  ASSUME ~ReusesInFlight, IInv, IInv', DInv, NInv,
         NEW j \in Jobs, NEW i \in Ids, NEW f \in BOOLEAN, Register(j, i, f)
  PROVE  NInv'
<1>0. TypeOK /\ delivery \in [Jobs -> DeliveryStates]
  BY DeliveryTyped DEF IInv
<1>1. /\ row[i] = NoJob
      /\ \A k \in Jobs : jobId[k] = i => ~Pending(k)
      /\ status' = [status EXCEPT ![j] = "running"]
      /\ jobId' = [jobId EXCEPT ![j] = i]
      /\ era' = [era EXCEPT ![j] = epoch]
      /\ row' = [row EXCEPT ![i] = j]
      /\ UNCHANGED <<epoch, message, received>>
  BY DEF Register, model
<1>2. held = {} /\ ~message'
  BY <1>1, IdleHolds DEF Register, Idle
<1>3. Moved(delivery, suppressed \cup {i} \cup watched)
  <2>1. CASE f
    BY <1>0, <2>1, AcknowledgeMoves DEF Register
  <2>2. CASE ~f
    BY <2>2 DEF Register, Moved
  <2> QED
    BY <2>1, <2>2
<1>4. SUFFICES ASSUME NEW k \in Jobs, Unclaimed(k)'
               PROVE  Pending(k)'
  BY <1>2, SilentN
<1>5. k # j
  BY <1>0, <1>1, <1>4 DEF Unclaimed, TypeOK
<1>6. jobId'[k] = jobId[k] /\ jobId[k] # i
  BY <1>0, <1>1, <1>4, <1>5 DEF Unclaimed, TypeOK
<1>7. Unclaimed(k)
  BY <1>0, <1>1, <1>4, <1>5, <1>6 DEF Unclaimed, TypeOK
<1>8. Pending(k)
  BY <1>2, <1>7 DEF NInv, NoStrandedResult
<1> QED
  BY <1>0, <1>1, <1>3, <1>6, <1>7, <1>8, MovedOwed, PendingIsNotNone
     DEF isDeliverySuppressed, Unclaimed

\* A run that settles is held, or its result is queued. This is where the message
\* must not win the wait while a watched job settles.
LEMMA FinishN ==
  ASSUME ~PhotoFinish, IInv, IInv', DInv, NInv, NEW j \in Jobs, Finish(j)
  PROVE  NInv'
<1> DEFINE d == [delivery EXCEPT ![j] = "queued"]
<1>0. TypeOK /\ TypeOK' /\ d \in [Jobs -> DeliveryStates]
  BY DeliveryTyped DEF IInv, DeliveryStates
<1>1. /\ status[j] = "running" /\ ~(message /\ tool = "raced" /\ j \in held)
      /\ status' = [status EXCEPT ![j] = "finished"]
      /\ UNCHANGED <<jobId, era, row, epoch, held, message, received>>
      /\ message => tool' = tool
  BY DEF Finish, model, NInv, MessageLeaves
<1>2. row[jobId[j]] = j
  BY <1>1 DEF IInv, LiveRows
<1>3. \A k \in Jobs \ {j} : Unclaimed(k)' => Unclaimed(k)
  BY <1>0, <1>1 DEF Unclaimed, TypeOK
<1>4. \A k \in Jobs \ {j} : Pending(k) /\ row[jobId[k]] = k => Pending(k)' \/ k \in received
  <2>1. CASE isDeliverySuppressed(jobId[j])
    BY <2>1 DEF Finish, Enqueue, queue, Pending, Queued, InFlight
  <2>2. CASE ~isDeliverySuppressed(jobId[j])
    <3>1. Moved(d, suppressed \cup watched)
      BY <1>0, <2>2, EnsureMoves DEF Finish, Enqueue
    <3>2. \A k \in Jobs \ {j} : d[k] = delivery[k]
      BY <1>0 DEF TypeOK
    <3> HIDE DEF d
    <3> QED
      BY <1>0, <1>1, <3>1, <3>2, MovedOwed, PendingIsNotNone DEF isDeliverySuppressed
  <2> QED
    BY <2>1, <2>2
<1>5. Pending(j)' \/ (j \in held /\ ~message)
  <2>1. CASE ~isDeliverySuppressed(jobId[j])
    <3>1. Moved(d, suppressed \cup watched) /\ d[j] = "queued"
      BY <1>0, <2>1, EnsureMoves DEF Finish, Enqueue, TypeOK
    <3> QED
      BY <2>1, <3>1 DEF Moved, isDeliverySuppressed, Pending, Queued, InFlight
  <2>2. CASE jobId[j] \in suppressed
    BY <1>1, <2>2 DEF DInv, CallInv, SuppressedRunning, HeldByCall, BashCall, HubCall
  <2>3. CASE jobId[j] \in watched
    <3>1. j \in held /\ tool \in {"waiting", "raced"}
      BY <1>2, <2>3, WatchedQuiet DEF DInv, CallInv, WatchedHeld
    <3> QED
      BY <1>1, <3>1 DEF NInv, MessageLeaves
  <2> QED
    BY <2>1, <2>2, <2>3 DEF isDeliverySuppressed
<1> HIDE DEF d
<1>6. NoStrandedResult'
  <2> SUFFICES ASSUME NEW k \in Jobs, Unclaimed(k)' PROVE Pending(k)' \/ k \in held'
    BY DEF NoStrandedResult
  <2> QED
    BY <1>1, <1>3, <1>4, <1>5 DEF NInv, NoStrandedResult, Unclaimed
<1>7. MessageLeaves'
  <2> SUFFICES ASSUME message, NEW k \in held
               PROVE  status'[k] = "running" \/ (tool = "unwatched" /\ Pending(k)')
    BY <1>1 DEF NInv, MessageLeaves
  <2>1. CASE k = j
    BY <1>1, <1>5, <2>1 DEF NInv, MessageLeaves
  <2>2. CASE k # j
    <3>1. row[jobId[k]] = k /\ k \notin received /\ k \in Jobs
      BY <1>0 DEF DInv, CallInv, HeldRows, HeldUnreceived, TypeOK
    <3> QED
      BY <1>0, <1>1, <1>4, <2>2, <3>1 DEF NInv, MessageLeaves, TypeOK
  <2> QED
    BY <2>1, <2>2
<1> QED
  BY <1>6, <1>7 DEF NInv

\* Steps that leave the deliveries alone and claim no new result.
LEMMA UnmovedN ==
  ASSUME NInv, UNCHANGED <<delivery, held, tool, message>>,
         \A k \in Jobs : Unclaimed(k)' => Unclaimed(k),
         \A k \in held : status[k] = "running" => status'[k] = "running"
  PROVE  NInv'
<1>1. \A k : Pending(k)' <=> Pending(k)
  BY DEF Pending, Queued, InFlight
<1> QED
  BY <1>1 DEF NInv, MessageLeaves, NoStrandedResult

\* A cancelled run that settles owes nothing.
LEMMA ReapN ==
  ASSUME IInv, NInv, DInv, NEW j \in Jobs, Reap(j)
  PROVE  NInv'
<1>1. /\ status[j] = "cancelled" /\ j \notin held
      /\ status' = [status EXCEPT ![j] = "reaped"]
      /\ UNCHANGED <<jobId, era, row, delivery, epoch, held, tool, message, received>>
  BY DEF Reap, queue, model, DInv, CallInv, HeldRows
<1> QED
  BY <1>1, UnmovedN DEF Unclaimed, IInv, TypeOK

\* A job that was registered has an id.
Registered == \A j \in Jobs : status[j] # "new" => jobId[j] \in Ids

\* Only register gives an id, and every step leaves a registered job registered.
LEMMA RegisteredStep ==
  ASSUME TypeOK, Registered, [Next]_vars
  PROVE  Registered'
<1>1. CASE UNCHANGED <<status, jobId>>
  BY <1>1 DEF Registered
<1>2. ASSUME NEW j \in Jobs, status[j] # "new", UNCHANGED jobId,
             NEW s \in {"finished", "reaped", "cancelled"},
             status' = [status EXCEPT ![j] = s]
      PROVE  Registered'
  BY <1>2 DEF Registered, TypeOK
<1>3. CASE UNCHANGED vars \/ Loop \/ Inject \/ Quiescent \/ Tools
  BY <1>1, <1>3
     DEF Loop, LoopWakes, LoopEnds, BackoffElapses, Inject, Quiescent, Tools, WaitExpires,
         Unwatch, HubWaitReturns, ForegroundExpires, Backgrounds, ForegroundReturns, vars, jobs
<1>4. ASSUME NEW j \in Jobs, Finish(j) \/ Reap(j) \/ Sink(j)
      PROVE  Registered'
  <2>1. CASE Finish(j)
    BY <1>2, <2>1 DEF Finish
  <2>2. CASE Reap(j)
    BY <1>2, <2>2 DEF Reap
  <2>3. CASE Sink(j)
    BY <1>1, <2>3 DEF Sink, Formatted, Delivered, Rejected, jobs
  <2> QED
    BY <1>4, <2>1, <2>2, <2>3
<1>5. ASSUME NEW i \in Ids, Evict(i)
      PROVE  Registered'
  BY <1>1, <1>5 DEF Evict
<1>6. CASE Asked
  <2>1. CASE HubJobs \/ MessageArrives \/ \E S \in SUBSET Jobs : HubWait(S)
    BY <1>1, <2>1 DEF HubJobs, MessageArrives, HubWait, jobs
  <2>2. CASE NewSession
    BY <2>2 DEF NewSession, Registered, TypeOK
  <2>3. ASSUME NEW j \in Jobs, HubCancel(j)
        PROVE  Registered'
    BY <1>2, <2>3 DEF HubCancel
  <2>4. ASSUME NEW j \in Jobs, ForegroundAborts(j)
        PROVE  Registered'
    BY <2>4 DEF ForegroundAborts, Registered, TypeOK
  <2>5. ASSUME NEW j \in Jobs, NEW i \in Ids, NEW f \in BOOLEAN, Register(j, i, f)
        PROVE  Registered'
    BY <2>5 DEF Register, Registered, TypeOK
  <2> QED
    BY <1>6, <2>1, <2>2, <2>3, <2>4, <2>5 DEF Asked
<1> QED
  BY <1>3, <1>4, <1>5, <1>6 DEF Next

\* An evicted row owes nothing any more.
LEMMA EvictN ==
  ASSUME IInv, Registered, NInv, NEW i \in Ids, Evict(i)
  PROVE  NInv'
<1>1. /\ row' = [row EXCEPT ![i] = NoJob]
      /\ UNCHANGED <<status, jobId, era, delivery, epoch, held, tool, message, received>>
  BY DEF Evict, queue, call, model
<1>2. TypeOK
  BY DEF IInv
<1>3. \A k \in Jobs : Unclaimed(k)' => Unclaimed(k)
  <2> SUFFICES ASSUME NEW k \in Jobs, Unclaimed(k)' PROVE row[jobId[k]] = k
    BY <1>1 DEF Unclaimed
  <2>1. row'[jobId[k]] = k /\ jobId[k] \in Ids
    BY <1>1 DEF Unclaimed, Registered
  <2> QED
    BY <1>1, <1>2, <2>1, JobsAssumption DEF TypeOK
<1> QED
  BY <1>1, <1>3, UnmovedN

\* After a session transition nothing is owed: the new transcript started no job.
LEMMA NewSessionN ==
  ASSUME IInv, DInv, Registered, NewSession
  PROVE  NInv'
<1>1. /\ status' = [j \in Jobs |-> IF status[j] = "running" THEN "cancelled" ELSE status[j]]
      /\ row' = [i \in Ids |-> IF row[i] # NoJob /\ status[row[i]] = "finished"
                               THEN NoJob ELSE row[i]]
      /\ UNCHANGED <<jobId, message>>
  BY DEF NewSession, call
<1>2. ~message'
  BY <1>1, IdleHolds DEF NewSession, Idle
<1>3. ASSUME NEW k \in Jobs, Unclaimed(k)'
      PROVE  FALSE
  <2>1. status[k] = "finished" /\ row'[jobId[k]] = k
    BY <1>1, <1>3 DEF Unclaimed, IInv, TypeOK
  <2>2. jobId[k] \in Ids
    BY <2>1 DEF Registered
  <2> QED
    BY <1>1, <2>1, <2>2, JobsAssumption DEF IInv, TypeOK
<1> QED
  BY <1>2, <1>3, SilentN

\* hub cancel and an aborted foreground wait keep NInv: a cancelled job owes nothing.
LEMMA CancelN ==
  ASSUME IInv, IInv', DInv, NInv, NEW j \in Jobs, HubCancel(j) \/ ForegroundAborts(j)
  PROVE  NInv'
<1>0. TypeOK /\ delivery \in [Jobs -> DeliveryStates]
  BY DeliveryTyped DEF IInv
<1>1. /\ status[j] = "running" /\ status' = [status EXCEPT ![j] = "cancelled"]
      /\ held \subseteq {j} /\ ~message'
      /\ UNCHANGED <<jobId, era, row, epoch, received>>
  <2>1. CASE HubCancel(j)
    BY <2>1, IdleHolds DEF HubCancel, Idle, model, call
  <2>2. CASE ForegroundAborts(j)
    BY <2>2 DEF ForegroundAborts, model, DInv, CallInv, HeldRows, HeldByCall, HubCall
  <2> QED
    BY <2>1, <2>2
<1>2. Moved(delivery, suppressed \cup {jobId[j]} \cup watched)
  <2>1. CASE HubCancel(j)
    <3>1. {jobId[j]} \in SUBSET Ids
      BY <1>1 DEF IInv, LiveRows
    <3> QED
      BY <1>0, <2>1, <3>1, AcknowledgeMoves DEF HubCancel
  <2>2. CASE ForegroundAborts(j)
    BY <2>2 DEF ForegroundAborts, queue, Moved
  <2> QED
    BY <2>1, <2>2
<1>3. SUFFICES ASSUME NEW k \in Jobs, Unclaimed(k)'
               PROVE  Pending(k)'
  BY <1>1, SilentN
<1>4. k # j /\ Unclaimed(k)
  BY <1>0, <1>1, <1>3 DEF Unclaimed, TypeOK
<1>5. Pending(k)
  BY <1>1, <1>4 DEF NInv, NoStrandedResult
<1>6. jobId[k] # jobId[j]
  BY <1>1, <1>4 DEF Unclaimed, IInv, LiveRows
<1> QED
  BY <1>0, <1>1, <1>2, <1>4, <1>5, <1>6, MovedOwed, PendingIsNotNone
     DEF isDeliverySuppressed, Unclaimed

\* A hub wait starts with no message and leaves the deliveries alone.
LEMMA HubWaitN ==
  ASSUME IInv, DInv, NInv, NEW S \in SUBSET Jobs, HubWait(S)
  PROVE  NInv'
<1>1. UNCHANGED <<jobs, delivery, epoch, received>> /\ ~message' /\ held = {}
  BY IdleHolds DEF HubWait, Idle, model
<1>2. \A k \in Jobs : (Unclaimed(k)' <=> Unclaimed(k)) /\ (Pending(k)' <=> Pending(k))
  BY <1>1 DEF Unclaimed, Pending, Queued, InFlight, jobs
<1> QED
  BY <1>1, <1>2, SilentN DEF NInv, NoStrandedResult

\* The steps of a call keep NInv: a message wins only while every held job runs.
LEMMA CallN ==
  ASSUME ~PhotoFinish, IInv, DInv, NInv,
         WaitExpires \/ ForegroundExpires \/ Unwatch \/ MessageArrives
  PROVE  NInv'
<1>1. /\ UNCHANGED <<jobs, delivery, epoch, received, held>>
      /\ \/ MessageArrives
         \/ message' = message /\ tool \in {"waiting", "foreground"}
         \/ message' = message /\ tool = "raced" /\ tool' = "unwatched"
  BY DEF WaitExpires, ForegroundExpires, Unwatch, MessageArrives, marks, queue, model
<1>2. \A k \in Jobs : (Unclaimed(k)' <=> Unclaimed(k)) /\ (Pending(k)' <=> Pending(k))
  BY <1>1 DEF Unclaimed, Pending, Queued, InFlight, jobs
<1>3. NoStrandedResult'
  BY <1>1, <1>2 DEF NInv, NoStrandedResult
<1>4. CASE MessageArrives
  <2>1. tool' = "raced" /\ \A j \in held : ~Settled(j)
    BY <1>4 DEF MessageArrives
  <2>2. \A j \in held : status[j] = "running"
    BY <2>1 DEF DInv, CallInv, HeldRows, Settled
  <2> QED
    BY <1>1, <1>3, <2>1, <2>2 DEF NInv, MessageLeaves, jobs
<1>5. CASE message' = message /\ tool \in {"waiting", "foreground"}
  BY <1>1, <1>3, <1>5 DEF NInv, MessageLeaves
<1>6. CASE message' = message /\ tool = "raced" /\ tool' = "unwatched"
  BY <1>1, <1>3, <1>6 DEF NInv, MessageLeaves, jobs
<1> QED
  BY <1>1, <1>4, <1>5, <1>6

\* The foreground return hands over the one result it held.
LEMMA ForegroundReturnsN ==
  ASSUME DInv, NInv, NEW j \in Jobs, ForegroundReturns(j)
  PROVE  NInv'
<1>1. /\ UNCHANGED <<jobs, delivery, epoch, message>> /\ held = {j} /\ tool = "answered"
      /\ received' = received \cup {j}
  BY DEF ForegroundReturns, queue
<1>2. ~message'
  BY <1>1 DEF DInv, CallInv, HeldByCall, HubCall
<1>3. \A k \in Jobs : /\ Unclaimed(k)' => Unclaimed(k) /\ k # j
                      /\ Pending(k)' <=> Pending(k)
  BY <1>1 DEF Unclaimed, Pending, Queued, InFlight, jobs
<1> QED
  BY <1>1, <1>2, <1>3, SilentN DEF NInv, NoStrandedResult

\* The hand-off to the background queues a result that settled while it was
\* suppressed.
LEMMA BackgroundsN ==
  ASSUME IInv, IInv', DInv, NInv, NEW j \in Jobs, Backgrounds(j)
  PROVE  NInv'
<1> DEFINE d == [delivery EXCEPT ![j] = "queued"]
           quiet == suppressed' \cup watched
<1>0. TypeOK /\ TypeOK' /\ d \in [Jobs -> DeliveryStates]
  BY DeliveryTyped DEF IInv, DeliveryStates
<1>1. /\ UNCHANGED <<jobs, watched, epoch, message, received>>
      /\ tool = "expired" /\ held = {j} /\ suppressed' = suppressed \ {jobId[j]}
  BY DEF Backgrounds, resumeDeliveries, model
<1>2. /\ row[jobId[j]] = j /\ ~Pending(j) /\ jobId[j] \in suppressed
      /\ watched = {} /\ ~message'
  BY <1>1 DEF DInv, CallInv, HeldRows, HeldQuiet, BashSuppresses, WatchedHeld, HeldByCall,
              HubCall, BashCall
<1>3. \A k \in Jobs \ {j} : Pending(k) /\ row[jobId[k]] = k => Pending(k)' \/ k \in received
  <2>1. CASE UNCHANGED queue
    BY <2>1 DEF queue, Pending, Queued, InFlight
  <2>2. CASE Moved(d, quiet)
    <3>1. \A k \in Jobs \ {j} : d[k] = delivery[k]
      BY <1>0 DEF TypeOK
    <3>2. \A k \in Jobs : jobId[k] \in quiet => isDeliverySuppressed(jobId[k])
      BY <1>1 DEF isDeliverySuppressed
    <3> HIDE DEF d, quiet
    <3> QED
      BY <1>0, <1>1, <2>2, <3>1, <3>2, MovedOwed, PendingIsNotNone
  <2>3. UNCHANGED queue \/ Moved(d, quiet)
    <3>1. CASE LoopRuns(d, quiet)
      BY <1>0, <3>1, LoopRunsMoves
    <3>2. CASE delivery' = d /\ UNCHANGED stamp
      BY <3>2 DEF Moved
    <3> QED
      BY <3>1, <3>2 DEF Backgrounds, resumeDeliveries
  <2> QED
    BY <2>1, <2>2, <2>3
<1>4. status[j] = "finished" => Pending(j)'
  <2> SUFFICES ASSUME status[j] = "finished" PROVE Pending(j)'
    OBVIOUS
  <2>1. LoopRuns(d, quiet) \/ (delivery' = d /\ UNCHANGED stamp)
    BY <1>2 DEF Backgrounds, resumeDeliveries
  <2>2. Moved(d, quiet)
    <3>1. CASE LoopRuns(d, quiet)
      BY <1>0, <3>1, LoopRunsMoves
    <3>2. CASE delivery' = d /\ UNCHANGED stamp
      BY <3>2 DEF Moved
    <3> QED
      BY <2>1, <3>1, <3>2
  <2>3. d[j] = "queued" /\ jobId[j] \notin quiet
    BY <1>0, <1>1, <1>2 DEF TypeOK
  <2> HIDE DEF d, quiet
  <2> QED
    BY <2>2, <2>3 DEF Moved, Pending, Queued, InFlight
<1> HIDE DEF d, quiet
<1>5. SUFFICES ASSUME NEW k \in Jobs, Unclaimed(k)'
               PROVE  Pending(k)'
  BY <1>2, SilentN
<1>6. Unclaimed(k)
  BY <1>1, <1>5 DEF Unclaimed, jobs
<1> QED
  BY <1>1, <1>3, <1>4, <1>6 DEF NInv, NoStrandedResult, Unclaimed

\* NInv is inductive relative to IInv, DInv and Registered.
LEMMA NConsecution ==
  ASSUME ~ReusesInFlight, ~PhotoFinish
  PROVE  IInv /\ IInv' /\ DInv /\ DInv' /\ Registered /\ NInv /\ [Next]_vars => NInv'
<1> SUFFICES ASSUME IInv, IInv', DInv, DInv', Registered, NInv, [Next]_vars PROVE NInv'
  OBVIOUS
<1>1. ASSUME NEW j \in Jobs, Finish(j) \/ Reap(j) \/ Sink(j)
      PROVE  NInv'
  BY <1>1, FinishN, ReapN, SinkN
<1>2. ASSUME NEW i \in Ids, Evict(i)
      PROVE  NInv'
  BY <1>2, EvictN
<1>3. CASE Loop \/ Inject
  BY <1>3, LoopN, InjectN
<1>4. CASE Tools
  <2>1. CASE WaitExpires \/ Unwatch \/ ForegroundExpires
    BY <2>1, CallN
  <2>2. CASE HubWaitReturns
    BY <2>2, SnapshotN
  <2>3. ASSUME NEW j \in Jobs, Backgrounds(j) \/ ForegroundReturns(j)
        PROVE  NInv'
    BY <2>3, BackgroundsN, ForegroundReturnsN
  <2> QED
    BY <1>4, <2>1, <2>2, <2>3 DEF Tools
<1>5. CASE Asked
  <2>1. CASE MessageArrives
    BY <2>1, CallN
  <2>2. CASE HubJobs \/ NewSession
    BY <2>2, SnapshotN, NewSessionN
  <2>3. ASSUME NEW S \in SUBSET Jobs, HubWait(S)
        PROVE  NInv'
    BY <2>3, HubWaitN
  <2>4. ASSUME NEW j \in Jobs, HubCancel(j) \/ ForegroundAborts(j)
        PROVE  NInv'
    BY <2>4, CancelN
  <2>5. ASSUME NEW j \in Jobs, NEW i \in Ids, NEW f \in BOOLEAN, Register(j, i, f)
        PROVE  NInv'
    BY <2>5, RegisterN
  <2> QED
    BY <1>5, <2>1, <2>2, <2>3, <2>4, <2>5 DEF Asked
<1>6. CASE UNCHANGED vars
  <2>1. \A k \in Jobs : Unclaimed(k)' => Unclaimed(k)
    BY <1>6 DEF vars, jobs, model, Unclaimed
  <2> QED
    BY <1>6, <2>1, UnmovedN DEF vars, jobs, queue, call
<1>7. CASE Quiescent
  BY <1>6, <1>7 DEF Quiescent
<1> QED
  BY <1>1, <1>2, <1>3, <1>4, <1>5, <1>6, <1>7 DEF Next

\* A job that was registered has an id, whatever steps follow.
LEMMA RegisteredInductive == Spec => []Registered
<1>1. Init => Registered
  BY DEF Init, Registered
<1>2. IInv /\ Registered /\ [Next]_vars => Registered'
  BY RegisteredStep DEF IInv
<1> QED
  BY <1>1, <1>2, Inductive, PTL DEF Spec

\* A finished result that nobody took always has a delivery pending or is held by
\* the call that is about to return it, in every order of settling, dropping,
\* retrying, watching, unwatching and resuming. The two premises are the races
\* that break it in the code: a peer message that wins the wait in the moment a
\* watched job settles, and an id reused while a delivery of it is pending.
THEOREM NothingStranded ==
  ASSUME ~ReusesInFlight, ~PhotoFinish
  PROVE  Spec => []NoStrandedResult
<1>1. IInv /\ IInv' /\ DInv /\ DInv' /\ Registered /\ NInv /\ [Next]_vars => NInv'
  BY NConsecution
<1>2. NInv => NoStrandedResult
  BY DEF NInv
<1> QED
  BY <1>1, <1>2, NInitially, Inductive, DInductive, RegisteredInductive, PTL DEF Spec

-----------------------------------------------------------------------------
(***************************************************************************)
(* TInv: no result is handed over twice, unless the full retention of its  *)
(* row elapsed while its delivery was pending.                             *)
(***************************************************************************)
\* The short grace runs for an id only once no delivery of it is pending, and
\* never for a job whose delivery bash may still resume.
ShortIdle == \A j \in Jobs : Pending(j) => timer[jobId[j]] # "short"

\* Nor for a job that a call waits for.
HeldTimer == \A j \in held : timer[jobId[j]] # "short"

\* A delivery is stamped with the transcript it was flushed for.
StampsPast == \A j \in Jobs : stamp[j] <= epoch

\* The delivery of j is pending, and no full retention has overtaken it.
Timely(j) == Pending(j) /\ lost[j] # "full"

\* Only a session transition takes the row of a pending delivery, and it leaves
\* none but the sink calls that it has made stale.
Orphans ==
  \A j \in Jobs : Timely(j) /\ row[jobId[j]] # j => InFlight(j) /\ stamp[j] # epoch

\* A delivery still pending of a received result is resolved, suppressed or stale.
ReceivedSilent ==
  \A j \in received :
    Timely(j) => \/ delivery[j] = "delivered" \/ jobId[j] \in suppressed
                 \/ InFlight(j) /\ stamp[j] # epoch

\* The part about the timers and the part about the deliveries.
TimerInv == ShortIdle /\ HeldTimer

EraInv == StampsPast /\ Orphans /\ ReceivedSilent

TInv == TimerInv /\ EraInv

\* No delivery is pending yet.
LEMMA TInitially == Init => TInv
<1> SUFFICES ASSUME Init PROVE TInv
  OBVIOUS
<1>1. \A j \in Jobs : ~Pending(j)
  BY DEF Init, Pending, Queued, InFlight
<1>2. TimerInv
  BY <1>1 DEF Init, TimerInv, ShortIdle, HeldTimer
<1>3. EraInv
  BY <1>1 DEF Init, EraInv, StampsPast, Orphans, ReceivedSilent, Timely
<1> QED
  BY <1>2, <1>3 DEF TInv

\* What a move does to one delivery of TInv.
MovedEra(k) ==
  /\ stamp'[k] \in {stamp[k], epoch}
  /\ Pending(k)' => Pending(k)
  /\ Timely(k)' /\ row[jobId[k]] # k => InFlight(k)' /\ stamp'[k] # epoch
  /\ Timely(k)' /\ k \in received
       => \/ delivery'[k] = "delivered" \/ jobId[k] \in suppressed
          \/ InFlight(k)' /\ stamp'[k] # epoch

\* A delivery that d left as it was, or that d holds for a retry.
LEMMA MovedEras ==
  ASSUME IInv, IInv', TInv, UNCHANGED epoch, NEW d, NEW quiet, Moved(d, quiet),
         suppressed \subseteq quiet, UNCHANGED lost, NEW k \in Jobs,
         \/ d[k] = "none"
         \/ d[k] = delivery[k]
         \/ /\ d[k] = "backoff" /\ Pending(k) /\ row[jobId[k]] = k
            /\ k \in received => lost[k] = "full"
  PROVE  MovedEra(k)
<1>1. /\ Timely(k) /\ row[jobId[k]] # k => InFlight(k) /\ stamp[k] # epoch
      /\ Timely(k) /\ k \in received
           => \/ delivery[k] = "delivered" \/ jobId[k] \in suppressed
              \/ InFlight(k) /\ stamp[k] # epoch
  BY DEF TInv, EraInv, Orphans, ReceivedSilent
<1>2. CASE delivery'[k] = d[k] /\ stamp'[k] = stamp[k]
  BY <1>1, <1>2 DEF MovedEra, Timely, Pending, Queued, InFlight
<1>3. CASE /\ Queued(d, k) /\ jobId[k] \in quiet
           /\ delivery'[k] = "none" /\ stamp'[k] \in {stamp[k], epoch}
  <2>1. ~Pending(k)'
    BY <1>3 DEF Pending, Queued, InFlight
  <2>2. stamp'[k] \in {stamp[k], epoch}
    BY <1>3
  <2> QED
    BY <2>1, <2>2 DEF MovedEra, Timely
<1>4. CASE /\ d[k] = "queued" /\ jobId[k] \notin quiet
           /\ delivery'[k] = "formatting" /\ stamp'[k] = epoch
  <2>1. Pending(k) /\ delivery[k] = "queued"
    BY <1>4 DEF Pending, Queued
  <2>2. Timely(k) => row[jobId[k]] = k /\ k \notin received
    BY <1>1, <1>4, <2>1 DEF InFlight
  <2>3. Timely(k)' => Timely(k)
    BY <2>1 DEF Timely
  <2> QED
    BY <1>4, <2>1, <2>2, <2>3 DEF MovedEra
<1> QED
  BY <1>2, <1>3, <1>4 DEF Moved

\* Steps that only move deliveries.
LEMMA EraSteps ==
  ASSUME TypeOK, EraInv, UNCHANGED <<jobs, suppressed, epoch, received>>,
         \A k \in Jobs : MovedEra(k)
  PROVE  EraInv'
<1>1. StampsPast'
  BY DEF TypeOK, EraInv, StampsPast, MovedEra
<1>2. Orphans' /\ ReceivedSilent'
  <2>1. Orphans'
    BY DEF Orphans, MovedEra, jobs
  <2>2. ReceivedSilent'
    <3> SUFFICES ASSUME NEW j \in received, Timely(j)'
                 PROVE  \/ delivery'[j] = "delivered" \/ jobId[j] \in suppressed
                        \/ InFlight(j)' /\ stamp'[j] # epoch
      BY DEF ReceivedSilent, jobs
    <3> QED
      BY DEF MovedEra, TypeOK
  <2> QED
    BY <2>1, <2>2
<1> QED
  BY <1>1, <1>2 DEF EraInv

\* Steps that arm no timer and make no delivery pending.
LEMMA TimerSteps ==
  ASSUME IInv, TimerInv, UNCHANGED <<jobId, timer>>, held' \subseteq held,
         \A k \in Jobs : Pending(k)' => Pending(k)
  PROVE  TimerInv'
BY DEF TimerInv, ShortIdle, HeldTimer

\* The delivery loop keeps TInv: it hands over and drops, it revives nothing.
LEMMA LoopT ==
  ASSUME IInv, IInv', DInv, TInv, Loop
  PROVE  TInv'
<1>0. TypeOK /\ delivery \in [Jobs -> DeliveryStates]
  BY DeliveryTyped DEF IInv
<1>1. /\ UNCHANGED <<jobs, suppressed, timer, epoch, held, received, injected>>
      /\ Moved(delivery, suppressed \cup watched) \/
         \E k \in Jobs : BackoffElapses(k)
  <2>1. CASE LoopWakes
    BY <1>0, <2>1, LoopRunsMoves DEF LoopWakes, model, marks, call
  <2>2. CASE LoopEnds
    BY <1>0, <2>2, LoopRunsMoves DEF LoopEnds, Moved, model, marks, call
  <2>3. CASE \E k \in Jobs : BackoffElapses(k)
    BY <2>3 DEF BackoffElapses, model, marks, call
  <2> QED
    BY <2>1, <2>2, <2>3 DEF Loop
<1>2. \A k \in Jobs : MovedEra(k)
  <2>1. CASE Moved(delivery, suppressed \cup watched)
    BY <1>1, <2>1, MovedEras DEF jobs
  <2>2. ASSUME NEW j \in Jobs, BackoffElapses(j), NEW k \in Jobs
        PROVE  MovedEra(k)
    <3>1. /\ stamp' = stamp /\ delivery[j] = "backoff"
          /\ delivery'[k] = IF k = j THEN "queued" ELSE delivery[k]
      BY <1>0, <2>2 DEF BackoffElapses
    <3>2. /\ Timely(k) /\ row[jobId[k]] # k => InFlight(k) /\ stamp[k] # epoch
          /\ Timely(k) /\ k \in received
               => \/ delivery[k] = "delivered" \/ jobId[k] \in suppressed
                  \/ InFlight(k) /\ stamp[k] # epoch
      BY DEF TInv, EraInv, Orphans, ReceivedSilent
    <3> QED
      BY <1>1, <3>1, <3>2 DEF MovedEra, Timely, Pending, Queued, InFlight, jobs
  <2> QED
    BY <1>1, <2>1, <2>2
<1>3. EraInv' /\ \A k \in Jobs : Pending(k)' => Pending(k)
  BY <1>0, <1>1, <1>2, EraSteps DEF TInv, MovedEra
<1> QED
  BY <1>1, <1>3, TimerSteps DEF TInv, jobs

\* The outcome of a sink call keeps TInv: only a live, unsuppressed and unreceived
\* result is retried, and the short grace is armed for a row no delivery needs.
LEMMA SinkT ==
  ASSUME IInv, IInv', DInv, TInv, NEW j \in Jobs, Sink(j)
  PROVE  TInv'
<1>0. TypeOK /\ delivery \in [Jobs -> DeliveryStates]
  BY DeliveryTyped DEF IInv
<1>1. CASE Formatted(j)
  <2>1. /\ UNCHANGED <<jobs, suppressed, timer, stamp, epoch, held, received, injected>>
        /\ delivery[j] = "formatting"
        /\ \A k \in Jobs \ {j} : delivery'[k] = delivery[k]
        /\ delivery'[j] \in {"delivered", "parked"}
    BY <1>0, <1>1 DEF Formatted, marks, model, call
  <2>2. ASSUME NEW k \in Jobs PROVE MovedEra(k)
    <3>1. /\ Timely(k) /\ row[jobId[k]] # k => InFlight(k) /\ stamp[k] # epoch
          /\ Timely(k) /\ k \in received
               => \/ delivery[k] = "delivered" \/ jobId[k] \in suppressed
                  \/ InFlight(k) /\ stamp[k] # epoch
      BY DEF TInv, EraInv, Orphans, ReceivedSilent
    <3> QED
      BY <2>1, <3>1 DEF MovedEra, Timely, Pending, Queued, InFlight, jobs
  <2>3. EraInv' /\ \A k \in Jobs : Pending(k)' => Pending(k)
    BY <1>0, <2>1, <2>2, EraSteps DEF TInv, MovedEra
  <2> QED
    BY <2>1, <2>3, TimerSteps DEF TInv, jobs
<1>2. CASE Delivered(j)
  <2> DEFINE d == [delivery EXCEPT ![j] = "none"]
             i == jobId[j]
  <2>1. /\ d \in [Jobs -> DeliveryStates] /\ delivery[j] = "delivered"
        /\ d[j] = "none" /\ \A k \in Jobs \ {j} : d[k] = delivery[k]
        /\ UNCHANGED <<jobs, suppressed, epoch, held, received, injected>>
    BY <1>0, <1>2 DEF Delivered, DeliveryStates, model, call
  <2>2. Moved(d, suppressed \cup watched)
    BY <1>0, <1>2, <2>1, EnsureMoves DEF Delivered
  <2>3. timer' = timer \/ (row[i] # NoJob /\ timer' = [timer EXCEPT ![i] = "short"])
    BY <1>0, <1>2 DEF Delivered, Unconsumed, TypeOK
  <2> HIDE DEF d
  <2>4. ASSUME NEW k \in Jobs PROVE MovedEra(k)
    BY <2>1, <2>2, MovedEras DEF jobs
  <2>5. EraInv'
    BY <1>0, <2>1, <2>4, EraSteps DEF TInv
  <2>6. \A k \in Jobs : Pending(k)' => Pending(k)
    BY <2>4 DEF MovedEra
  <2>7. CASE timer' = timer
    BY <2>1, <2>5, <2>6, <2>7, TimerSteps DEF TInv, jobs
  <2>8. CASE row[i] # NoJob /\ timer' = [timer EXCEPT ![i] = "short"]
    <3>1. row[i] = j /\ j \in received
      BY <2>1, <2>8 DEF DInv, ClaimInv, PendingRows, DeliveredReceived, Pending, InFlight
    <3>2. ~Pending(j)'
      BY <2>1, <2>2 DEF Moved, Queued, Pending, InFlight
    <3>3. \A k \in Jobs : jobId[k] # i => timer'[jobId[k]] = timer[jobId[k]]
      BY <1>0, <2>8 DEF TypeOK
    <3>4. ShortIdle'
      <4> SUFFICES ASSUME NEW k \in Jobs, Pending(k)' PROVE jobId[k] # i
        BY <2>1, <2>6, <3>3 DEF TInv, TimerInv, ShortIdle, jobs
      <4> QED
        BY <2>6, <3>1, <3>2, JobsAssumption DEF DInv, ClaimInv, PendingRows
    <3>5. HeldTimer'
      <4> SUFFICES ASSUME NEW k \in held PROVE jobId[k] # i /\ k \in Jobs
        BY <2>1, <3>3 DEF TInv, TimerInv, HeldTimer, jobs
      <4> QED
        BY <1>0, <3>1 DEF DInv, CallInv, HeldRows, HeldUnreceived, TypeOK
    <3> QED
      BY <2>5, <3>4, <3>5 DEF TInv, TimerInv
  <2> QED
    BY <2>3, <2>7, <2>8
<1>3. CASE Rejected(j)
  <2> DEFINE d == [delivery EXCEPT ![j] =
                IF isDeliverySuppressed(jobId[j]) \/ row[jobId[j]] = NoJob
                THEN "none" ELSE "backoff"]
  <2>1. /\ d \in [Jobs -> DeliveryStates] /\ delivery[j] = "rejected"
        /\ \A k \in Jobs \ {j} : d[k] = delivery[k]
        /\ \/ d[j] = "none"
           \/ d[j] = "backoff" /\ jobId[j] \notin suppressed /\ row[jobId[j]] # NoJob
        /\ UNCHANGED <<jobs, suppressed, timer, epoch, held, received, injected>>
    BY <1>0, <1>3 DEF Rejected, DeliveryStates, model, call, marks, isDeliverySuppressed
  <2>2. Moved(d, suppressed \cup watched)
    BY <1>0, <1>3, <2>1, EnsureMoves DEF Rejected
  <2> HIDE DEF d
  <2>3. d[j] = "backoff" => /\ Pending(j) /\ row[jobId[j]] = j
                            /\ j \in received => lost[j] = "full"
    <3> SUFFICES ASSUME d[j] = "backoff"
                 PROVE  /\ Pending(j) /\ row[jobId[j]] = j
                        /\ j \in received => lost[j] = "full"
      OBVIOUS
    <3>1. Pending(j) /\ InFlight(j)
      BY <2>1 DEF Pending, InFlight
    <3>2. row[jobId[j]] = j
      BY <2>1, <3>1 DEF DInv, ClaimInv, PendingRows
    <3>3. stamp[j] = epoch
      BY <3>1, <3>2 DEF DInv, ClaimInv, StaleOrphaned
    <3> QED
      BY <2>1, <3>1, <3>2, <3>3 DEF TInv, EraInv, ReceivedSilent, Timely
  <2>4. ASSUME NEW k \in Jobs PROVE MovedEra(k)
    BY <2>1, <2>2, <2>3, MovedEras DEF jobs
  <2>5. EraInv' /\ \A k \in Jobs : Pending(k)' => Pending(k)
    BY <1>0, <2>1, <2>4, EraSteps DEF TInv, MovedEra
  <2> QED
    BY <2>1, <2>5, TimerSteps DEF TInv, jobs
<1> QED
  BY <1>1, <1>2, <1>3 DEF Sink

\* What a flush injects in time was never received.
LEMMA FreshIsOwed ==
  ASSUME TInv, NEW j \in Jobs, delivery[j] = "parked", ~Stale(j), lost[j] # "full"
  PROVE  j \notin received
<1>1. Pending(j) /\ InFlight(j) /\ stamp[j] = epoch /\ jobId[j] \notin suppressed
  BY DEF Pending, InFlight, Stale, isDeliverySuppressed
<1> QED
  BY <1>1 DEF TInv, EraInv, ReceivedSilent, Timely

\* The effect of a flush on one job.
LEMMA InjectOne ==
  ASSUME TypeOK, Inject, NEW k \in Jobs
  PROVE  \/ /\ delivery[k] = "parked" /\ ~Stale(k)
            /\ delivery'[k] = "delivered" /\ injected'[k] = injected[k] \cup {epoch}
            /\ k \in received'
         \/ /\ delivery'[k] = delivery[k] \/ (delivery[k] = "parked" /\ delivery'[k] = "rejected")
            /\ injected'[k] = injected[k]
            /\ k \in received' => k \in received
<1> DEFINE Parked == {j \in Jobs : delivery[j] = "parked"}
           Fresh == {j \in Parked : ~Stale(j)}
<1>1. \/ /\ delivery' = [j \in Jobs |-> IF j \in Fresh THEN "delivered"
                                        ELSE IF j \in Parked THEN "rejected" ELSE delivery[j]]
         /\ received' = received \cup Fresh
         /\ injected' = [j \in Jobs |-> IF j \in Fresh THEN injected[j] \cup {epoch}
                                        ELSE injected[j]]
      \/ /\ delivery' = [j \in Jobs |-> IF j \in Parked THEN "rejected" ELSE delivery[j]]
         /\ UNCHANGED model
  BY DEF Inject
<1>2. k \in Fresh <=> delivery[k] = "parked" /\ ~Stale(k)
  OBVIOUS
<1>3. k \in Parked <=> delivery[k] = "parked"
  OBVIOUS
<1> HIDE DEF Parked, Fresh
<1> QED
  BY <1>1, <1>2, <1>3 DEF model

\* A flush keeps TInv.
LEMMA InjectT ==
  ASSUME IInv, DInv, TInv, Inject
  PROVE  TInv'
<1>0. TypeOK
  BY DEF IInv
<1>1. /\ UNCHANGED <<jobs, suppressed, timer, stamp, epoch, held>>
      /\ received \subseteq received' /\ received' \subseteq Jobs
  BY <1>0 DEF Inject, marks, call, model, TypeOK
<1>2. \A k \in Jobs : Pending(k)' => Pending(k)
  BY <1>0, InjectOne DEF Pending, Queued, InFlight
<1>3. TimerInv'
  BY <1>1, <1>2, TimerSteps DEF TInv, jobs
<1>4. StampsPast'
  BY <1>1 DEF TInv, EraInv, StampsPast
<1>5. Orphans'
  <2> SUFFICES ASSUME NEW k \in Jobs, Timely(k)', row[jobId[k]] # k
               PROVE  InFlight(k)' /\ stamp[k] # epoch
    BY <1>1 DEF Orphans, jobs
  <2>1. InFlight(k) /\ stamp[k] # epoch
    BY <1>1, <1>2 DEF TInv, EraInv, Orphans, Timely, jobs
  <2> QED
    BY <1>0, <2>1, InjectOne DEF InFlight, Timely
<1>6. ReceivedSilent'
  <2> SUFFICES ASSUME NEW k \in received', Timely(k)'
               PROVE  \/ delivery'[k] = "delivered" \/ jobId[k] \in suppressed
                      \/ InFlight(k)' /\ stamp[k] # epoch
    BY <1>1 DEF ReceivedSilent, jobs
  <2>1. CASE delivery'[k] = "delivered"
    BY <2>1
  <2>2. CASE delivery'[k] # "delivered"
    <3>1. /\ k \in received
          /\ delivery'[k] = delivery[k] \/ (delivery[k] = "parked" /\ delivery'[k] = "rejected")
      BY <1>0, <1>1, <2>2, InjectOne
    <3>2. \/ jobId[k] \in suppressed
          \/ InFlight(k) /\ stamp[k] # epoch
      BY <1>1, <1>2, <2>2, <3>1 DEF TInv, EraInv, ReceivedSilent, Timely, jobs
    <3> QED
      BY <3>1, <3>2 DEF InFlight
  <2> QED
    BY <2>1, <2>2
<1> QED
  BY <1>3, <1>4, <1>5, <1>6 DEF TInv, EraInv

\* A snapshot keeps TInv: it shortens the grace of no row a delivery is pending for.
LEMMA ConsumeT ==
  ASSUME IInv, IInv', DInv, TInv, NEW S \in SUBSET Jobs, Consume(S),
         \A j \in S : jobId[j] \in Ids, UNCHANGED <<jobs, epoch>>, held' = {}
  PROVE  TInv'
<1> DEFINE I == {i \in IdsOf(S) : row[i] # NoJob /\ status[row[i]] # "running"}
           U == Unconsumed(I)
           Waiting == {j \in Jobs : Queued(delivery', j) \/ InFlight(j)}
<1>0. TypeOK /\ TypeOK' /\ delivery \in [Jobs -> DeliveryStates] /\ I \in SUBSET Ids
  BY DeliveryTyped DEF IInv, IdsOf
<1>1. acknowledgeDeliveries(I) /\ received' = received \cup {row[i] : i \in U}
      /\ timer' = [i \in Ids |-> IF i \in U \ IdsOf(Waiting) THEN "short" ELSE timer[i]]
  BY DEF Consume, Shorten
<1>2. /\ Moved(delivery, suppressed \cup I \cup watched)
      /\ \A j \in Jobs : delivery'[j] \in {delivery[j], "none"}
      /\ suppressed' = suppressed \cup I /\ UNCHANGED stamp
  BY <1>0, <1>1, AcknowledgeMoves
<1>3. \A i \in U : i \in I /\ row[i] # NoJob
  BY DEF Unconsumed
<1>4. \A k \in Jobs : MovedEra(k)
  BY <1>2, MovedEras DEF jobs
<1>5. \A k \in Jobs : Pending(k)' => Pending(k) /\ k \in Waiting
  <2> SUFFICES ASSUME NEW k \in Jobs, Pending(k)'
               PROVE  Queued(delivery', k) \/ InFlight(k)
    BY <1>4 DEF MovedEra
  <2> QED
    BY <1>2 DEF Queued, Pending, InFlight
<1>6. TimerInv'
  <2>1. \A k \in Jobs : Pending(k)' => jobId[k] \in IdsOf(Waiting) /\ jobId[k] \in Ids
    BY <1>5 DEF IdsOf, IInv, PendingIds
  <2> HIDE DEF U, I, Waiting
  <2>2. ShortIdle'
    BY <1>1, <1>5, <2>1 DEF TInv, TimerInv, ShortIdle, jobs
  <2> QED
    BY <2>2 DEF TimerInv, HeldTimer
<1> HIDE DEF U, I, Waiting
<1>7. StampsPast' /\ Orphans'
  BY <1>2, <1>4 DEF TInv, EraInv, StampsPast, Orphans, MovedEra, jobs
<1>8. ReceivedSilent'
  <2> SUFFICES ASSUME NEW k \in received', Timely(k)'
               PROVE  \/ delivery'[k] = "delivered" \/ jobId[k] \in suppressed'
                      \/ InFlight(k)' /\ stamp'[k] # epoch
    BY DEF ReceivedSilent, jobs
  <2>1. CASE k \in received
    BY <1>0, <1>2, <1>4, <2>1 DEF MovedEra, TypeOK
  <2>2. CASE k \in {row[i] : i \in U}
    <3>1. PICK i \in U : k = row[i]
      BY <2>2
    <3>2. jobId[k] = i
      BY <1>0, <1>3, <3>1 DEF IInv, RowIds
    <3> QED
      BY <1>2, <1>3, <3>2
  <2> QED
    BY <1>1, <2>1, <2>2
<1> QED
  BY <1>6, <1>7, <1>8 DEF TInv, EraInv

\* Steps that touch no row, delivery or result and lift no suppression.
LEMMA UnmovedT ==
  ASSUME TInv, UNCHANGED <<jobs, delivery, stamp, epoch, timer, received>>,
         suppressed \subseteq suppressed', \A k \in held' : timer[jobId[k]] # "short"
  PROVE  TInv'
<1>1. \A k : (Pending(k)' <=> Pending(k)) /\ (InFlight(k)' <=> InFlight(k))
  BY DEF Pending, Queued, InFlight
<1>2. TimerInv'
  BY <1>1 DEF TInv, TimerInv, ShortIdle, HeldTimer, jobs
<1>3. StampsPast' /\ Orphans'
  BY <1>1 DEF TInv, EraInv, StampsPast, Orphans, Timely, jobs
<1>4. ReceivedSilent'
  BY <1>1 DEF TInv, EraInv, ReceivedSilent, Timely, jobs
<1> QED
  BY <1>2, <1>3, <1>4 DEF TInv, EraInv

\* Snapshots keep TInv.
LEMMA SnapshotT ==
  ASSUME IInv, IInv', DInv, TInv, HubJobs \/ HubWaitReturns
  PROVE  TInv'
<1>1. CASE HubJobs
  <2>1. Rows \in SUBSET Jobs /\ \A j \in Rows : jobId[j] \in Ids
    BY JobsAssumption DEF Rows, RowIds, IInv
  <2>2. held' = {}
    BY <1>1, IdleHolds DEF HubJobs, Idle, call
  <2> QED
    BY <1>1, <2>1, <2>2, ConsumeT DEF HubJobs
<1>2. CASE HubWaitReturns
  <2>1. held \in SUBSET Jobs /\ \A j \in held : jobId[j] \in Ids
    BY DEF IInv, TypeOK, HeldIds
  <2>2. CASE ~message
    BY <1>2, <2>1, <2>2, ConsumeT DEF HubWaitReturns
  <2>3. CASE message
    BY <1>2, <2>3, UnmovedT DEF HubWaitReturns, queue
  <2> QED
    BY <2>2, <2>3
<1> QED
  BY <1>1, <1>2

\* register keeps TInv: no timer is left of the id's last row.
LEMMA RegisterT ==
  ASSUME ~ReusesInFlight, IInv, IInv', DInv, TInv,
         NEW j \in Jobs, NEW i \in Ids, NEW f \in BOOLEAN, Register(j, i, f)
  PROVE  TInv'
<1>0. TypeOK
  BY DEF IInv
<1>1. /\ status[j] = "new" /\ row[i] = NoJob
      /\ \A k \in Jobs : jobId[k] = i => ~Pending(k)
      /\ status' = [status EXCEPT ![j] = "running"]
      /\ jobId' = [jobId EXCEPT ![j] = i]
      /\ era' = [era EXCEPT ![j] = epoch]
      /\ row' = [row EXCEPT ![i] = j]
      /\ suppressed \ {i} \subseteq suppressed'
      /\ held' = {j} \/ held' = held
      /\ UNCHANGED <<lost, timer, epoch, received>>
  BY DEF Register, model, acknowledgeDeliveries
<1>2. held = {}
  BY IdleHolds DEF Register, Idle
<1>3. ~Pending(j) /\ j \notin received
  BY <1>1 DEF DInv, ClaimInv, PendingFinished, ReceivedSettled, Settled
<1>4. Moved(delivery, suppressed \cup {i} \cup watched)
  <2>1. CASE f
    BY <1>0, <2>1, AcknowledgeMoves DEF Register
  <2>2. CASE ~f
    BY <2>2 DEF Register, Moved
  <2> QED
    BY <2>1, <2>2
<1>5. \A k \in Jobs : MovedEra(k)
  BY <1>1, <1>4, MovedEras
<1>6. \A k \in Jobs : Pending(k)' => /\ Pending(k) /\ k # j /\ jobId[k] # i
                                     /\ jobId'[k] = jobId[k] /\ jobId[k] \in Ids
                                     /\ row'[jobId[k]] = row[jobId[k]]
  BY <1>0, <1>1, <1>3, <1>5 DEF MovedEra, IInv, PendingIds, TypeOK
<1>7. TimerInv'
  <2>1. timer[i] = "none"
    BY <1>1 DEF IInv, TimersServeRows
  <2>2. ShortIdle'
    BY <1>1, <1>6 DEF TInv, TimerInv, ShortIdle
  <2>3. HeldTimer'
    BY <1>0, <1>1, <1>2, <2>1 DEF HeldTimer, TypeOK
  <2> QED
    BY <2>2, <2>3 DEF TimerInv
<1>8. StampsPast'
  BY <1>0, <1>1, <1>5 DEF TInv, EraInv, StampsPast, MovedEra, TypeOK
<1>9. Orphans'
  BY <1>1, <1>5, <1>6 DEF Orphans, MovedEra, Timely
<1>10. ReceivedSilent'
  <2> SUFFICES ASSUME NEW k \in received, Timely(k)'
               PROVE  \/ delivery'[k] = "delivered" \/ jobId'[k] \in suppressed'
                      \/ InFlight(k)' /\ stamp'[k] # epoch
    BY <1>1 DEF ReceivedSilent
  <2> QED
    BY <1>0, <1>1, <1>5, <1>6 DEF MovedEra, Timely, TypeOK
<1> QED
  BY <1>7, <1>8, <1>9, <1>10 DEF TInv, EraInv

\* A delivery that is queued for the first time and perhaps handed over at once.
LEMMA QueuedEra ==
  ASSUME NEW d, NEW quiet, Moved(d, quiet), NEW j \in Jobs, d[j] = "queued"
  PROVE  delivery'[j] \in {"none", "queued", "formatting"} /\ stamp'[j] \in {stamp[j], epoch}
BY DEF Moved

\* A step that queues the result of a job that has none pending, whose row is its
\* own and which the model has not received, and that moves the other deliveries.
LEMMA QueueT ==
  ASSUME IInv, IInv', DInv, TInv, NEW j \in Jobs, NEW d, d[j] = "queued",
         \A k \in Jobs \ {j} : d[k] = delivery[k],
         NEW quiet, UNCHANGED queue \/ Moved(d, quiet),
         \A k \in Jobs : Pending(k) /\ jobId[k] \in suppressed => jobId[k] \in quiet,
         \A k \in Jobs : Pending(k) /\ jobId[k] \in suppressed => jobId[k] \in suppressed',
         row[jobId[j]] = j, j \notin received, ~Pending(j),
         UNCHANGED <<jobId, row, lost, epoch, received>>
  PROVE  StampsPast' /\ Orphans' /\ ReceivedSilent'
<1>0. TypeOK
  BY DEF IInv
<1>1. \A k \in Jobs \ {j} :
        /\ stamp'[k] \in {stamp[k], epoch}
        /\ Timely(k)' /\ row[jobId[k]] # k => InFlight(k)' /\ stamp'[k] # epoch
        /\ Timely(k)' /\ k \in received
             => \/ delivery'[k] = "delivered" \/ jobId[k] \in suppressed'
                \/ InFlight(k)' /\ stamp'[k] # epoch
  <2> SUFFICES ASSUME NEW k \in Jobs \ {j}
               PROVE  /\ stamp'[k] \in {stamp[k], epoch}
                      /\ Timely(k)' /\ row[jobId[k]] # k => InFlight(k)' /\ stamp'[k] # epoch
                      /\ Timely(k)' /\ k \in received
                           => \/ delivery'[k] = "delivered" \/ jobId[k] \in suppressed'
                              \/ InFlight(k)' /\ stamp'[k] # epoch
    OBVIOUS
  <2>1. /\ Timely(k) /\ row[jobId[k]] # k => InFlight(k) /\ stamp[k] # epoch
        /\ Timely(k) /\ k \in received
             => \/ delivery[k] = "delivered" \/ jobId[k] \in suppressed
                \/ InFlight(k) /\ stamp[k] # epoch
    BY DEF TInv, EraInv, Orphans, ReceivedSilent
  <2>2. CASE delivery'[k] = delivery[k] /\ stamp'[k] = stamp[k]
    BY <2>1, <2>2 DEF Timely, Pending, Queued, InFlight
  <2>3. CASE delivery'[k] = "none" /\ stamp'[k] \in {stamp[k], epoch}
    BY <2>3 DEF Timely, Pending, Queued, InFlight
  <2>4. CASE /\ delivery[k] = "queued" /\ jobId[k] \notin quiet
             /\ delivery'[k] = "formatting" /\ stamp'[k] = epoch
    <3>1. Pending(k) /\ ~InFlight(k)
      BY <2>4 DEF Pending, Queued, InFlight
    <3> QED
      BY <2>1, <2>4, <3>1 DEF Timely
  <2> QED
    BY <2>2, <2>3, <2>4 DEF Moved, queue
<1>2. stamp'[j] \in {stamp[j], epoch}
  BY QueuedEra DEF queue
<1>3. StampsPast'
  BY <1>0, <1>1, <1>2 DEF TInv, EraInv, StampsPast, TypeOK
<1>4. Orphans'
  BY <1>1 DEF Orphans
<1>5. ReceivedSilent'
  BY <1>0, <1>1 DEF ReceivedSilent, TypeOK
<1> QED
  BY <1>3, <1>4, <1>5

\* A run that settles keeps TInv: its result was not received and its row is its own.
LEMMA FinishT ==
  ASSUME IInv, IInv', DInv, TInv, NEW j \in Jobs, Finish(j)
  PROVE  TInv'
<1> DEFINE d == [delivery EXCEPT ![j] = "queued"]
<1>0. TypeOK /\ d \in [Jobs -> DeliveryStates]
  BY DeliveryTyped DEF IInv, DeliveryStates
<1>1. /\ status[j] = "running"
      /\ status' = [status EXCEPT ![j] = "finished"]
      /\ timer' = [timer EXCEPT ![jobId[j]] = "full"]
      /\ UNCHANGED <<jobId, row, lost, suppressed, epoch, held, received>>
  BY DEF Finish, model
<1>2. row[jobId[j]] = j /\ jobId[j] \in Ids /\ ~Pending(j) /\ j \notin received
  BY <1>1 DEF IInv, LiveRows, DInv, ClaimInv, PendingFinished, ReceivedSettled, Settled
<1>3. UNCHANGED queue \/ Moved(d, suppressed \cup watched)
  BY <1>0, EnsureMoves DEF Finish, Enqueue
<1>4. d[j] = "queued" /\ \A k \in Jobs \ {j} : d[k] = delivery[k]
  BY <1>0 DEF TypeOK
<1> HIDE DEF d
<1>5. StampsPast' /\ Orphans' /\ ReceivedSilent'
  BY <1>1, <1>2, <1>3, <1>4, QueueT
<1>6. \A k \in Jobs \ {j} : Pending(k)' => Pending(k)
  <2> SUFFICES ASSUME NEW k \in Jobs \ {j}, Pending(k)' PROVE Pending(k)
    OBVIOUS
  <2> QED
    BY <1>3, <1>4 DEF Moved, queue, Pending, Queued, InFlight
<1>7. \A i \in Ids : timer'[i] = timer[i] \/ timer'[i] = "full"
  BY <1>0, <1>1, <1>2 DEF TypeOK
<1>8. TimerInv'
  <2>1. ShortIdle'
    <3> SUFFICES ASSUME NEW k \in Jobs, Pending(k)' PROVE timer'[jobId[k]] # "short"
      BY <1>1 DEF ShortIdle
    <3>1. CASE k = j
      BY <1>0, <1>1, <1>2, <3>1 DEF TypeOK
    <3>2. CASE k # j
      <4>1. jobId[k] \in Ids /\ timer[jobId[k]] # "short"
        BY <1>6, <3>2 DEF IInv, PendingIds, TInv, TimerInv, ShortIdle
      <4> QED
        BY <1>7, <4>1
    <3> QED
      BY <3>1, <3>2
  <2>2. HeldTimer'
    BY <1>1, <1>7 DEF TInv, TimerInv, HeldTimer, IInv, HeldIds
  <2> QED
    BY <2>1, <2>2 DEF TimerInv
<1> QED
  BY <1>5, <1>8 DEF TInv, EraInv

\* A cancelled run that settles keeps TInv.
LEMMA ReapT ==
  ASSUME IInv, DInv, TInv, NEW j \in Jobs, Reap(j)
  PROVE  TInv'
<1>0. TypeOK
  BY DEF IInv
<1>1. /\ status[j] = "cancelled"
      /\ status' = [status EXCEPT ![j] = "reaped"]
      /\ timer' = [timer EXCEPT ![jobId[j]] = "full"]
      /\ UNCHANGED <<jobId, row, lost, suppressed, delivery, stamp, epoch, held, received>>
  BY DEF Reap, queue, model
<1>2. \A i \in Ids : timer'[i] = timer[i] \/ timer'[i] = "full"
  BY <1>0, <1>1 DEF TypeOK, IInv, LiveRows
<1>3. \A k : (Pending(k)' <=> Pending(k)) /\ (InFlight(k)' <=> InFlight(k))
  BY <1>1 DEF Pending, Queued, InFlight
<1>4. TimerInv'
  BY <1>1, <1>2, <1>3 DEF TInv, TimerInv, ShortIdle, HeldTimer, IInv, PendingIds, HeldIds
<1>5. StampsPast' /\ Orphans'
  BY <1>1, <1>3 DEF TInv, EraInv, StampsPast, Orphans, Timely
<1>6. ReceivedSilent'
  BY <1>1, <1>3 DEF TInv, EraInv, ReceivedSilent, Timely
<1> QED
  BY <1>4, <1>5, <1>6 DEF TInv, EraInv

\* An eviction keeps TInv: a delivery of the row that is pending is overtaken by
\* the full retention.
LEMMA EvictT ==
  ASSUME IInv, TInv, NEW i \in Ids, Evict(i)
  PROVE  TInv'
<1>0. TypeOK
  BY DEF IInv
<1>1. /\ timer[i] # "none"
      /\ lost' = [j \in Jobs |-> IF row[i] = j /\ Pending(j) THEN timer[i] ELSE lost[j]]
      /\ row' = [row EXCEPT ![i] = NoJob]
      /\ timer' = [k \in Ids |-> IF k \in {i} THEN "none" ELSE timer[k]]
      /\ suppressed' = suppressed \ {i}
      /\ UNCHANGED <<jobId, delivery, stamp, epoch, held, received>>
  BY DEF Evict, ClearTimers, queue, call, model
<1>2. \A k : (Pending(k)' <=> Pending(k)) /\ (InFlight(k)' <=> InFlight(k))
  BY <1>1 DEF Pending, Queued, InFlight
<1>3. \A k \in Jobs : Pending(k) => jobId[k] \in Ids
  BY DEF IInv, PendingIds
<1>4. \A k \in Jobs : Pending(k) /\ jobId[k] = i => timer[i] = "full"
  BY <1>0, <1>1 DEF TInv, TimerInv, ShortIdle, TypeOK
<1>5. \A k \in Jobs : Timely(k)' => /\ Timely(k) /\ Pending(k)
                                    /\ jobId[k] = i => row[i] # k
  <2> SUFFICES ASSUME NEW k \in Jobs, Timely(k)'
               PROVE  Timely(k) /\ Pending(k) /\ (jobId[k] = i => row[i] # k)
    OBVIOUS
  <2>1. Pending(k) /\ lost'[k] # "full"
    BY <1>2 DEF Timely
  <2>2. row[i] = k => jobId[k] = i
    BY JobsAssumption DEF IInv, RowIds
  <2>3. row[i] # k
    BY <1>1, <1>4, <2>1, <2>2
  <2>4. lost[k] # "full"
    BY <1>1, <2>1, <2>3
  <2> QED
    BY <2>1, <2>3, <2>4 DEF Timely
<1>6. \A k \in Ids : timer'[k] \in {timer[k], "none"}
  BY <1>1
<1>7. TimerInv'
  BY <1>1, <1>2, <1>6 DEF TInv, TimerInv, ShortIdle, HeldTimer, IInv, PendingIds, HeldIds
<1>8. StampsPast'
  BY <1>1 DEF TInv, EraInv, StampsPast
<1>9. ASSUME NEW k \in Jobs, Timely(k)'
      PROVE  /\ row'[jobId[k]] # k => row[jobId[k]] # k
             /\ jobId[k] = i => InFlight(k) /\ stamp[k] # epoch
  BY <1>0, <1>1, <1>3, <1>5, <1>9 DEF TInv, EraInv, Orphans, TypeOK
<1>10. Orphans'
  BY <1>1, <1>2, <1>5, <1>9 DEF TInv, EraInv, Orphans
<1>11. ReceivedSilent'
  <2> SUFFICES ASSUME NEW k \in received, Timely(k)'
               PROVE  \/ delivery[k] = "delivered" \/ jobId[k] \in suppressed'
                      \/ InFlight(k) /\ stamp[k] # epoch
    BY <1>1, <1>2 DEF ReceivedSilent
  <2>1. k \in Jobs
    BY <1>0 DEF TypeOK
  <2> QED
    BY <1>1, <1>5, <1>9, <2>1 DEF TInv, EraInv, ReceivedSilent
<1> QED
  BY <1>7, <1>8, <1>10, <1>11 DEF TInv, EraInv

\* A session transition keeps TInv: the deliveries it leaves are stale sink calls.
LEMMA NewSessionT ==
  ASSUME IInv, DInv, TInv, NewSession
  PROVE  TInv'
<1>0. TypeOK
  BY DEF IInv
<1>1. /\ status' = [j \in Jobs |-> IF status[j] = "running" THEN "cancelled" ELSE status[j]]
      /\ row' = [i \in Ids |-> IF row[i] # NoJob /\ status[row[i]] = "finished"
                               THEN NoJob ELSE row[i]]
      /\ \A i \in Ids : timer'[i] \in {timer[i], "none"}
      /\ epoch' = epoch + 1
      /\ UNCHANGED <<jobId, lost, stamp, held, received>>
  BY DEF NewSession, ClearTimers, call, model
<1>2. held = {}
  BY IdleHolds DEF NewSession, Idle
<1>3. ASSUME NEW k \in Jobs, Pending(k)'
      PROVE  /\ Pending(k)
             /\ lost[k] # "full" => InFlight(k)' /\ stamp[k] # epoch'
  <2>1. Pending(k)
    BY <1>0, <1>3, NewSessionMoves DEF Pending, Queued, InFlight
  <2>2. jobId[k] \in Ids /\ status[k] = "finished"
    BY <2>1 DEF IInv, PendingIds, DInv, ClaimInv, PendingFinished
  <2>3. lost[k] # "full" => ~Queued(delivery, k)
    <3> SUFFICES ASSUME lost[k] # "full", Queued(delivery, k) PROVE FALSE
      OBVIOUS
    <3>1. row[jobId[k]] = k
      BY <2>1 DEF TInv, EraInv, Orphans, Timely, Queued, InFlight
    <3>2. delivery'[k] = "none"
      BY <1>0, <2>2, <3>1, NewSessionMoves
    <3> QED
      BY <1>3, <3>2 DEF Pending, Queued, InFlight
  <2>4. lost[k] # "full" => InFlight(k)'
    BY <1>0, <1>3, <2>1, <2>3, NewSessionMoves DEF Pending, InFlight
  <2>5. stamp[k] # epoch'
    BY <1>0, <1>1 DEF TInv, EraInv, StampsPast, TypeOK
  <2> QED
    BY <2>1, <2>4, <2>5
<1>4. TimerInv'
  BY <1>1, <1>2, <1>3 DEF TInv, TimerInv, ShortIdle, HeldTimer, IInv, PendingIds
<1>5. StampsPast' /\ Orphans'
  BY <1>0, <1>1, <1>3 DEF TInv, EraInv, StampsPast, Orphans, Timely, TypeOK
<1>6. ReceivedSilent'
  BY <1>0, <1>1, <1>3 DEF ReceivedSilent, Timely, TypeOK
<1> QED
  BY <1>4, <1>5, <1>6 DEF TInv, EraInv

\* hub cancel and an aborted foreground wait keep TInv.
LEMMA CancelT ==
  ASSUME IInv, IInv', DInv, TInv, NEW j \in Jobs, HubCancel(j) \/ ForegroundAborts(j)
  PROVE  TInv'
<1>0. TypeOK
  BY DEF IInv
<1>1. /\ \/ status' = status
         \/ status' = [status EXCEPT ![j] = "cancelled"]
      /\ held' \subseteq held /\ suppressed \subseteq suppressed'
      /\ UNCHANGED <<jobId, row, lost, timer, epoch, received>>
  BY <1>0 DEF HubCancel, ForegroundAborts, acknowledgeDeliveries, marks, model, call, TypeOK
<1>2. \E quiet : Moved(delivery, quiet) /\ suppressed \subseteq quiet
  <2>1. CASE HubCancel(j)
    <3>1. {jobId[j]} \in SUBSET Ids
      BY <2>1 DEF HubCancel, IInv, LiveRows
    <3>2. Moved(delivery, suppressed \cup {jobId[j]} \cup watched)
      BY <1>0, <2>1, <3>1, AcknowledgeMoves DEF HubCancel
    <3> QED
      BY <3>2
  <2>2. CASE ForegroundAborts(j)
    BY <2>2 DEF ForegroundAborts, queue, Moved
  <2> QED
    BY <2>1, <2>2
<1>3. PICK quiet : Moved(delivery, quiet) /\ suppressed \subseteq quiet
  BY <1>2
<1>4. \A k \in Jobs : MovedEra(k)
  BY <1>1, <1>3, MovedEras
<1>5. TimerInv'
  BY <1>1, <1>4, TimerSteps DEF MovedEra, TInv
<1>6. StampsPast' /\ Orphans'
  BY <1>0, <1>1, <1>4 DEF TInv, EraInv, StampsPast, Orphans, MovedEra, Timely, TypeOK
<1>7. ReceivedSilent'
  BY <1>0, <1>1, <1>4 DEF ReceivedSilent, MovedEra, Timely, TypeOK
<1> QED
  BY <1>5, <1>6, <1>7 DEF TInv, EraInv

\* The steps of a call keep TInv: a wait starts for running jobs, whose timers are
\* not armed.
LEMMA CallT ==
  ASSUME IInv, TInv,
         \/ WaitExpires \/ ForegroundExpires \/ Unwatch \/ MessageArrives
         \/ \E S \in SUBSET Jobs : HubWait(S)
  PROVE  TInv'
<1>1. CASE WaitExpires \/ ForegroundExpires \/ Unwatch \/ MessageArrives
  BY <1>1, UnmovedT
     DEF WaitExpires, ForegroundExpires, Unwatch, MessageArrives, marks, queue, model,
         TInv, TimerInv, HeldTimer
<1>2. ASSUME NEW S \in SUBSET Jobs, HubWait(S)
      PROVE  TInv'
  <2>1. \A k \in S : timer[jobId[k]] = "none"
    BY <1>2 DEF HubWait, IInv, LiveRows, TimersServeRows, Settled
  <2> QED
    BY <1>2, <2>1, UnmovedT DEF HubWait, model
<1> QED
  BY <1>1, <1>2

\* The foreground return keeps TInv: no delivery of what it returns is pending.
LEMMA ForegroundReturnsT ==
  ASSUME IInv, DInv, TInv, NEW j \in Jobs, ForegroundReturns(j)
  PROVE  TInv'
<1>1. /\ UNCHANGED <<jobs, suppressed, timer, delivery, stamp, epoch>>
      /\ tool = "answered" /\ held = {j} /\ held' = {}
      /\ received' = received \cup {j}
  BY DEF ForegroundReturns, marks, queue
<1>2. \A k : (Pending(k)' <=> Pending(k)) /\ (InFlight(k)' <=> InFlight(k))
  BY <1>1 DEF Pending, Queued, InFlight
<1>3. ~Pending(j)
  BY <1>1 DEF DInv, CallInv, HeldQuiet
<1>4. TimerInv'
  BY <1>1, <1>2 DEF TInv, TimerInv, ShortIdle, HeldTimer, jobs
<1>5. StampsPast' /\ Orphans'
  BY <1>1, <1>2 DEF TInv, EraInv, StampsPast, Orphans, Timely, jobs
<1>6. ReceivedSilent'
  BY <1>1, <1>2, <1>3 DEF TInv, EraInv, ReceivedSilent, Timely, jobs
<1> QED
  BY <1>4, <1>5, <1>6 DEF TInv, EraInv

\* The hand-off to the background keeps TInv: what it queues is owed.
LEMMA BackgroundsT ==
  ASSUME IInv, IInv', DInv, TInv, NEW j \in Jobs, Backgrounds(j)
  PROVE  TInv'
<1> DEFINE d == [delivery EXCEPT ![j] = "queued"]
           quiet == suppressed' \cup watched
<1>0. TypeOK /\ d \in [Jobs -> DeliveryStates]
  BY DeliveryTyped DEF IInv, DeliveryStates
<1>1. /\ UNCHANGED <<jobs, timer, epoch, received>>
      /\ held = {j} /\ held' = {} /\ tool = "expired"
      /\ suppressed' = suppressed \ {jobId[j]}
  BY DEF Backgrounds, resumeDeliveries, model
<1>2. row[jobId[j]] = j /\ ~Pending(j) /\ j \notin received /\ timer[jobId[j]] # "short"
  BY <1>1 DEF DInv, CallInv, HeldRows, HeldQuiet, HeldUnreceived, TInv, TimerInv, HeldTimer
<1>3. UNCHANGED queue \/ Moved(d, quiet)
  <2>1. CASE LoopRuns(d, quiet)
    BY <1>0, <2>1, LoopRunsMoves
  <2>2. CASE delivery' = d /\ UNCHANGED stamp
    BY <2>2 DEF Moved
  <2> QED
    BY <2>1, <2>2 DEF Backgrounds, resumeDeliveries
<1>4. d[j] = "queued" /\ \A k \in Jobs \ {j} : d[k] = delivery[k]
  BY <1>0 DEF TypeOK
<1>5. \A k \in Jobs : Pending(k) /\ jobId[k] \in suppressed
                        => jobId[k] \in suppressed' /\ jobId[k] \in quiet
  BY <1>1, <1>2, JobsAssumption DEF DInv, ClaimInv, PendingRows
<1> HIDE DEF d, quiet
<1>6. StampsPast' /\ Orphans' /\ ReceivedSilent'
  BY <1>1, <1>2, <1>3, <1>4, <1>5, QueueT DEF jobs
<1>7. \A k \in Jobs \ {j} : Pending(k)' => Pending(k)
  BY <1>3, <1>4 DEF Moved, queue, Pending, Queued, InFlight
<1>8. TimerInv'
  BY <1>1, <1>2, <1>7 DEF TInv, TimerInv, ShortIdle, HeldTimer, jobs
<1> QED
  BY <1>6, <1>8 DEF TInv, EraInv

\* TInv is inductive relative to IInv and DInv.
LEMMA TConsecution ==
  ASSUME ~ReusesInFlight
  PROVE  IInv /\ IInv' /\ DInv /\ TInv /\ [Next]_vars => TInv'
<1> SUFFICES ASSUME IInv, IInv', DInv, TInv, [Next]_vars PROVE TInv'
  OBVIOUS
<1>1. ASSUME NEW j \in Jobs, Finish(j) \/ Reap(j) \/ Sink(j)
      PROVE  TInv'
  BY <1>1, FinishT, ReapT, SinkT
<1>2. ASSUME NEW i \in Ids, Evict(i)
      PROVE  TInv'
  BY <1>2, EvictT
<1>3. CASE Loop \/ Inject
  BY <1>3, LoopT, InjectT
<1>4. CASE Tools
  <2>1. CASE WaitExpires \/ Unwatch \/ ForegroundExpires
    BY <2>1, CallT
  <2>2. CASE HubWaitReturns
    BY <2>2, SnapshotT
  <2>3. ASSUME NEW j \in Jobs, Backgrounds(j) \/ ForegroundReturns(j)
        PROVE  TInv'
    BY <2>3, BackgroundsT, ForegroundReturnsT
  <2> QED
    BY <1>4, <2>1, <2>2, <2>3 DEF Tools
<1>5. CASE Asked
  <2>1. CASE MessageArrives \/ \E S \in SUBSET Jobs : HubWait(S)
    BY <2>1, CallT
  <2>2. CASE HubJobs \/ NewSession
    BY <2>2, SnapshotT, NewSessionT
  <2>3. ASSUME NEW j \in Jobs, HubCancel(j) \/ ForegroundAborts(j)
        PROVE  TInv'
    BY <2>3, CancelT
  <2>4. ASSUME NEW j \in Jobs, NEW i \in Ids, NEW f \in BOOLEAN, Register(j, i, f)
        PROVE  TInv'
    BY <2>4, RegisterT
  <2> QED
    BY <1>5, <2>1, <2>2, <2>3, <2>4 DEF Asked
<1>6. CASE UNCHANGED vars
  BY <1>6, UnmovedT DEF vars, marks, queue, call, model, TInv, TimerInv, HeldTimer
<1>7. CASE Quiescent
  BY <1>6, <1>7 DEF Quiescent
<1> QED
  BY <1>1, <1>2, <1>3, <1>4, <1>5, <1>6, <1>7 DEF Next

\* TInv holds in every reachable state when ids wait for their deliveries.
LEMMA TInductive ==
  ASSUME ~ReusesInFlight
  PROVE  Spec => []TInv
<1>1. IInv /\ IInv' /\ DInv /\ TInv /\ [Next]_vars => TInv'
  BY TConsecution
<1> QED
  BY <1>1, TInitially, Inductive, DInductive, PTL DEF Spec

\* Only a flush injects.
LEMMA OnlyInjects ==
  ASSUME [Next]_vars
  PROVE  Inject \/ UNCHANGED injected
<1>1. CASE UNCHANGED vars \/ Loop \/ Quiescent \/ Tools
  BY <1>1
     DEF Loop, LoopWakes, LoopEnds, BackoffElapses, Quiescent, Tools, WaitExpires, Unwatch,
         HubWaitReturns, ForegroundExpires, Backgrounds, ForegroundReturns, vars, model
<1>2. ASSUME NEW j \in Jobs, Finish(j) \/ Reap(j) \/ Sink(j)
      PROVE  UNCHANGED injected
  BY <1>2 DEF Finish, Reap, Sink, Formatted, Delivered, Rejected, model
<1>3. ASSUME NEW i \in Ids, Evict(i)
      PROVE  UNCHANGED injected
  BY <1>3 DEF Evict, model
<1>4. CASE Asked
  BY <1>4 DEF Asked, HubJobs, NewSession, MessageArrives, HubWait, HubCancel, ForegroundAborts,
              Register, model
<1> QED
  BY <1>1, <1>2, <1>3, <1>4 DEF Next

\* A result the model already has, from a snapshot, a foreground return or an
\* earlier injection, is never injected again, unless the full retention of its row
\* overtook the delivery.  The premise: ids are reused only once none is pending.
THEOREM InjectedOnce ==
  ASSUME ~ReusesInFlight
  PROVE  Spec => NoDuplicateInjection
<1>1. IInv /\ TInv /\ [Next]_vars
        => [\A j \in Jobs :
              injected'[j] # injected[j] => j \notin received \/ lost[j] = "full"]_vars
  <2> SUFFICES ASSUME IInv, TInv, Inject, NEW j \in Jobs, injected'[j] # injected[j],
                      lost[j] # "full"
               PROVE  j \notin received
    BY OnlyInjects
  <2>1. delivery[j] = "parked" /\ ~Stale(j)
    BY InjectOne DEF IInv
  <2> QED
    BY <2>1, FreshIsOwed
<1> QED
  BY <1>1, Inductive, TInductive, PTL DEF Spec, NoDuplicateInjection

-----------------------------------------------------------------------------
(***************************************************************************)
(* EInv: results and transcripts, whatever ids are reused and whatever     *)
(* races a wait.  A delivery keeps its row until a transition makes it     *)
(* stale, unless the row's eviction timer overtakes it (lost).             *)
(***************************************************************************)
\* A delivery that a transition has not made stale has its row.
Rowed(j) == row[jobId[j]] = j \/ (InFlight(j) /\ stamp[j] # epoch)

PendingRowed == \A j \in Jobs : Pending(j) /\ lost[j] = "none" => Rowed(j)

\* A transition rejects what is parked, and nobody takes the id of a rejected
\* delivery before the loop has looked at it.
ParkedFresh == \A j \in Jobs : delivery[j] = "parked" => stamp[j] = epoch

RejectedRow ==
  \A j \in Jobs : delivery[j] = "rejected" /\ lost[j] = "none" => row[jobId[j]] \in {j, NoJob}

\* The rows that can still deliver are of the transcript on screen.
RowsCurrent ==
  \A j \in Jobs : status[j] \in {"running", "finished"} /\ row[jobId[j]] = j => era[j] = epoch

\* Nothing is injected for a job that was not registered.
NewSilent == \A j \in Jobs : status[j] = "new" => injected[j] = {}

EInv ==
  /\ PendingFinished /\ StampsPast /\ PendingRowed /\ ParkedFresh /\ RejectedRow
  /\ RowsCurrent /\ NewSilent /\ OwnTranscriptOnly

\* What EInv says of one job.
EJob(j) ==
  /\ Pending(j) => status[j] = "finished"
  /\ stamp[j] <= epoch
  /\ Pending(j) /\ lost[j] = "none" => Rowed(j)
  /\ delivery[j] = "parked" => stamp[j] = epoch
  /\ delivery[j] = "rejected" /\ lost[j] = "none" => row[jobId[j]] \in {j, NoJob}
  /\ status[j] \in {"running", "finished"} /\ row[jobId[j]] = j => era[j] = epoch
  /\ status[j] = "new" => injected[j] = {}
  /\ lost[j] = "none" => injected[j] \subseteq {era[j]}

LEMMA EIsEJob ==
  /\ EInv <=> \A j \in Jobs : EJob(j)
  /\ (\A j \in Jobs : EJob(j)') => EInv'
BY DEF EInv, EJob, PendingFinished, StampsPast, PendingRowed, ParkedFresh, RejectedRow,
       RowsCurrent, NewSilent, OwnTranscriptOnly

\* Nothing is registered yet.
LEMMA EInitially == Init => EInv
<1> SUFFICES ASSUME Init, NEW k \in Jobs PROVE EJob(k)
  BY EIsEJob
<1>1. ~Pending(k) /\ delivery[k] = "none"
  BY DEF Init, Pending, Queued, InFlight
<1> QED
  BY <1>1 DEF Init, EJob

\* How a run may go on in a step that leaves its row.
RunStep(j) ==
  \/ status'[j] = status[j]
  \/ status[j] = "running" /\ status'[j] \in {"finished", "cancelled"}
  \/ status[j] = "cancelled" /\ status'[j] = "reaped"

\* A step that leaves the rows and moves the delivery of k keeps EJob(k): what it
\* queues has its row.
LEMMA MovedE ==
  ASSUME TypeOK, NEW k \in Jobs, EJob(k), RunStep(k),
         UNCHANGED <<jobId, row, lost, era, epoch, injected>>,
         NEW d, NEW quiet, Moved(d, quiet),
         \/ d[k] = "none"
         \/ d[k] = delivery[k]
         \/ /\ d[k] \in {"queued", "backoff"} /\ status'[k] = "finished"
            /\ lost[k] = "none" => row[jobId[k]] = k
  PROVE  EJob(k)'
<1>1. /\ stamp'[k] \in {stamp[k], epoch}
      /\ \/ delivery'[k] = d[k] /\ stamp'[k] = stamp[k]
         \/ delivery'[k] = "none"
         \/ d[k] = "queued" /\ delivery'[k] = "formatting" /\ stamp'[k] = epoch
  BY DEF Moved
<1>2. stamp'[k] <= epoch
  BY <1>1 DEF EJob, TypeOK
<1>3. Pending(k)' => status'[k] = "finished"
  BY <1>1 DEF EJob, RunStep, Pending, Queued, InFlight
<1>4. ASSUME Pending(k)', lost[k] = "none"
      PROVE  row[jobId[k]] = k \/ (InFlight(k)' /\ stamp'[k] # epoch)
  <2>1. CASE delivery'[k] = delivery[k] /\ stamp'[k] = stamp[k]
    BY <1>4, <2>1 DEF EJob, Rowed, Pending, Queued, InFlight
  <2>2. CASE d[k] = delivery[k] /\ delivery[k] = "queued"
    BY <1>4, <2>2 DEF EJob, Rowed, Pending, Queued, InFlight
  <2>3. CASE d[k] \in {"queued", "backoff"} /\ (lost[k] = "none" => row[jobId[k]] = k)
    BY <1>4, <2>3
  <2>4. delivery'[k] # "none"
    BY <1>4 DEF Pending, Queued, InFlight
  <2> QED
    BY <1>1, <2>1, <2>2, <2>3, <2>4
<1>5. /\ delivery'[k] = "parked" => stamp'[k] = epoch
      /\ delivery'[k] = "rejected" /\ lost[k] = "none" => row[jobId[k]] \in {k, NoJob}
  BY <1>1 DEF EJob
<1>6. /\ status'[k] \in {"running", "finished"} /\ row[jobId[k]] = k => era[k] = epoch
      /\ status'[k] = "new" => injected[k] = {}
      /\ lost[k] = "none" => injected[k] \subseteq {era[k]}
  BY DEF EJob, RunStep
<1> QED
  BY <1>2, <1>3, <1>4, <1>5, <1>6 DEF EJob, Rowed

\* Steps that leave rows and deliveries alone.
LEMMA UnmovedE ==
  ASSUME TypeOK, NEW k \in Jobs, EJob(k), RunStep(k),
         UNCHANGED <<jobId, row, lost, era, epoch, injected, delivery, stamp>>
  PROVE  EJob(k)'
<1>1. Moved(delivery, {})
  BY DEF Moved
<1> QED
  BY <1>1, MovedE

\* The delivery loop keeps EInv.
LEMMA LoopE ==
  ASSUME IInv, EInv, Loop
  PROVE  EInv'
<1>0. TypeOK /\ delivery \in [Jobs -> DeliveryStates]
  BY DeliveryTyped DEF IInv
<1> SUFFICES ASSUME NEW k \in Jobs PROVE EJob(k)'
  BY EIsEJob
<1>1. EJob(k) /\ RunStep(k) /\ UNCHANGED <<jobId, row, lost, era, epoch, injected>>
  BY EIsEJob DEF Loop, LoopWakes, LoopEnds, BackoffElapses, jobs, model, RunStep
<1>2. CASE LoopWakes \/ LoopEnds
  <2>1. Moved(delivery, suppressed \cup watched)
    BY <1>0, <1>2, LoopRunsMoves DEF LoopWakes, LoopEnds, Moved
  <2> QED
    BY <1>0, <1>1, <2>1, MovedE
<1>3. ASSUME NEW j \in Jobs, BackoffElapses(j)
      PROVE  EJob(k)'
  <2> DEFINE d == [delivery EXCEPT ![j] = "queued"]
  <2>1. Moved(d, {}) /\ delivery[j] = "backoff"
    BY <1>3 DEF BackoffElapses, Moved
  <2>2. \/ d[k] = delivery[k]
        \/ d[k] = "queued" /\ delivery[k] = "backoff"
    BY <1>0, <2>1
  <2>3. delivery[k] = "backoff" => /\ status'[k] = "finished"
                                   /\ lost[k] = "none" => row[jobId[k]] = k
    BY <1>1, <1>3 DEF EJob, Rowed, Pending, Queued, InFlight, BackoffElapses, jobs
  <2> HIDE DEF d
  <2> QED
    BY <1>0, <1>1, <2>1, <2>2, <2>3, MovedE
<1> QED
  BY <1>2, <1>3 DEF Loop

\* The sink keeps EInv: it parks for the transcript on screen, and retries only a
\* delivery whose row is still there.
LEMMA SinkE ==
  ASSUME IInv, EInv, NEW j \in Jobs, Sink(j)
  PROVE  EInv'
<1>0. TypeOK /\ delivery \in [Jobs -> DeliveryStates]
  BY DeliveryTyped DEF IInv
<1> SUFFICES ASSUME NEW k \in Jobs PROVE EJob(k)'
  BY EIsEJob
<1>1. EJob(k) /\ RunStep(k) /\ UNCHANGED <<jobId, row, lost, era, epoch, injected>>
  BY EIsEJob DEF Sink, Formatted, Delivered, Rejected, jobs, model, RunStep
<1>2. CASE Formatted(j)
  <2>1. /\ delivery[j] = "formatting" /\ UNCHANGED <<status, stamp>>
        /\ k # j => delivery'[k] = delivery[k]
        /\ \/ delivery'[j] = "delivered"
           \/ delivery'[j] = "parked" /\ stamp[j] = epoch
    BY <1>0, <1>2 DEF Formatted, jobs
  <2> QED
    BY <1>1, <2>1 DEF EJob, Rowed, Pending, Queued, InFlight
<1>3. CASE Delivered(j)
  <2> DEFINE d == [delivery EXCEPT ![j] = "none"]
  <2>1. d \in [Jobs -> DeliveryStates] /\ d[k] \in {"none", delivery[k]}
    BY <1>0 DEF DeliveryStates
  <2>2. Moved(d, suppressed \cup watched)
    BY <1>0, <1>3, <2>1, EnsureMoves DEF Delivered
  <2> HIDE DEF d
  <2> QED
    BY <1>0, <1>1, <2>1, <2>2, MovedE
<1>4. CASE Rejected(j)
  <2> DEFINE d == [delivery EXCEPT ![j] =
                IF isDeliverySuppressed(jobId[j]) \/ row[jobId[j]] = NoJob
                THEN "none" ELSE "backoff"]
  <2>1. /\ d \in [Jobs -> DeliveryStates] /\ delivery[j] = "rejected"
        /\ \/ d[k] \in {"none", delivery[k]}
           \/ k = j /\ d[k] = "backoff" /\ row[jobId[k]] # NoJob
    BY <1>0, <1>4 DEF Rejected, DeliveryStates
  <2>2. Moved(d, suppressed \cup watched)
    BY <1>0, <1>4, <2>1, EnsureMoves DEF Rejected
  <2> HIDE DEF d
  <2>3. k = j => Pending(k) /\ delivery[k] = "rejected"
    BY <2>1 DEF Pending, InFlight
  <2>4. k = j /\ row[jobId[k]] # NoJob => /\ status'[k] = "finished"
                                          /\ lost[k] = "none" => row[jobId[k]] = k
    BY <1>1, <1>4, <2>3 DEF EJob, Rejected, jobs
  <2> QED
    BY <1>0, <1>1, <2>1, <2>2, <2>4, MovedE
<1> QED
  BY <1>2, <1>3, <1>4 DEF Sink

\* A flush keeps EInv: what is fresh has its row, which is of this transcript.
LEMMA InjectE ==
  ASSUME IInv, EInv, Inject
  PROVE  EInv'
<1>0. TypeOK
  BY DEF IInv
<1> SUFFICES ASSUME NEW k \in Jobs PROVE EJob(k)'
  BY EIsEJob
<1>1. EJob(k) /\ UNCHANGED <<status, jobId, row, lost, era, stamp, epoch>>
  BY EIsEJob DEF Inject, jobs
<1>2. CASE delivery'[k] = delivery[k] /\ injected'[k] = injected[k]
  BY <1>1, <1>2 DEF EJob, Rowed, Pending, Queued, InFlight
<1>3. CASE delivery[k] = "parked" /\ delivery'[k] = "rejected" /\ injected'[k] = injected[k]
  BY <1>1, <1>3 DEF EJob, Rowed, Pending, Queued, InFlight
<1>4. CASE /\ delivery[k] = "parked" /\ ~Stale(k)
           /\ delivery'[k] = "delivered" /\ injected'[k] = injected[k] \cup {epoch}
  <2>1. Pending(k) /\ stamp[k] = epoch
    BY <1>4 DEF Pending, InFlight, Stale
  <2>2. status[k] = "finished" /\ (lost[k] = "none" => row[jobId[k]] = k)
    BY <1>1, <2>1 DEF EJob, Rowed
  <2>3. lost[k] = "none" => injected'[k] \subseteq {era[k]}
    BY <1>1, <1>4, <2>2 DEF EJob
  <2>4. Pending(k)' /\ InFlight(k)'
    BY <1>4 DEF Pending, InFlight
  <2> QED
    BY <1>1, <1>4, <2>2, <2>3 DEF EJob, Rowed
<1> QED
  BY <1>0, <1>2, <1>3, <1>4, InjectOne

\* Snapshots keep EInv: they only drop deliveries.
LEMMA SnapshotE ==
  ASSUME IInv, EInv, HubJobs \/ HubWaitReturns
  PROVE  EInv'
<1>0. TypeOK
  BY DEF IInv
<1> SUFFICES ASSUME NEW k \in Jobs PROVE EJob(k)'
  BY EIsEJob
<1>1. EJob(k) /\ RunStep(k) /\ UNCHANGED <<jobId, row, lost, era, epoch, injected>>
  BY EIsEJob DEF HubJobs, HubWaitReturns, jobs, RunStep
<1>2. \A S \in SUBSET Jobs :
        (\A j \in S : jobId[j] \in Ids) /\ Consume(S) => \E quiet : Moved(delivery, quiet)
  <2> SUFFICES ASSUME NEW S \in SUBSET Jobs, \A j \in S : jobId[j] \in Ids, Consume(S)
               PROVE  \E quiet : Moved(delivery, quiet)
    OBVIOUS
  <2> DEFINE I == {i \in IdsOf(S) : row[i] # NoJob /\ status[row[i]] # "running"}
  <2>1. I \in SUBSET Ids /\ acknowledgeDeliveries(I)
    BY DEF IdsOf, Consume
  <2> HIDE DEF I
  <2> QED
    BY <1>0, <2>1, AcknowledgeMoves
<1>3. CASE HubJobs
  <2>1. Rows \in SUBSET Jobs /\ \A j \in Rows : jobId[j] \in Ids
    BY JobsAssumption DEF Rows, RowIds, IInv
  <2>2. \E quiet : Moved(delivery, quiet)
    BY <1>2, <1>3, <2>1 DEF HubJobs
  <2> QED
    BY <1>0, <1>1, <2>2, MovedE
<1>4. CASE HubWaitReturns
  <2>1. held \in SUBSET Jobs /\ \A j \in held : jobId[j] \in Ids
    BY DEF IInv, TypeOK, HeldIds
  <2>2. \E quiet : Moved(delivery, quiet)
    BY <1>2, <1>4, <2>1 DEF HubWaitReturns, queue, Moved
  <2> QED
    BY <1>0, <1>1, <2>2, MovedE
<1> QED
  BY <1>3, <1>4

\* register keeps EInv: the id it takes has no row, hence no delivery that has one.
LEMMA RegisterE ==
  ASSUME IInv, Registered, EInv, NEW j \in Jobs, NEW i \in Ids, NEW f \in BOOLEAN,
         Register(j, i, f)
  PROVE  EInv'
<1>0. TypeOK
  BY DEF IInv
<1>1. /\ status[j] = "new" /\ row[i] = NoJob /\ delivery \in [Jobs -> DeliveryStates]
      /\ \A k \in Jobs : delivery[k] # "rejected"
      /\ status' = [status EXCEPT ![j] = "running"]
      /\ jobId' = [jobId EXCEPT ![j] = i]
      /\ era' = [era EXCEPT ![j] = epoch]
      /\ row' = [row EXCEPT ![i] = j]
      /\ UNCHANGED <<lost, epoch, injected>>
  BY <1>0, DeliveryTyped DEF Register, Idle, Drained, model
<1>2. Moved(delivery, suppressed \cup {i} \cup watched)
  <2>1. CASE f
    BY <1>0, <2>1, AcknowledgeMoves DEF Register
  <2>2. CASE ~f
    BY <2>2 DEF Register, Moved
  <2> QED
    BY <2>1, <2>2
<1> SUFFICES ASSUME NEW k \in Jobs PROVE EJob(k)'
  BY EIsEJob
<1>3. /\ stamp'[k] \in {stamp[k], epoch}
      /\ \/ delivery'[k] = delivery[k] /\ stamp'[k] = stamp[k]
         \/ delivery'[k] = "none"
         \/ delivery[k] = "queued" /\ delivery'[k] = "formatting" /\ stamp'[k] = epoch
  BY <1>2 DEF Moved
<1>4. EJob(k)
  BY EIsEJob
<1>5. Pending(k)' => Pending(k)
  BY <1>3 DEF Pending, Queued, InFlight
<1>6. stamp'[k] <= epoch
  BY <1>0, <1>3, <1>4 DEF EJob, TypeOK
<1>7. /\ delivery'[k] # "rejected"
      /\ delivery'[k] = "parked" => stamp'[k] = epoch
  BY <1>1, <1>3, <1>4 DEF EJob
<1>8. CASE k = j
  <2>1. ~Pending(k)' /\ injected[k] = {}
    BY <1>1, <1>4, <1>5, <1>8 DEF EJob
  <2>2. status'[k] = "running" /\ era'[k] = epoch
    BY <1>0, <1>1, <1>8 DEF TypeOK
  <2> QED
    BY <1>1, <1>6, <1>7, <2>1, <2>2 DEF EJob
<1>9. CASE k # j
  <2>1. status'[k] = status[k] /\ jobId'[k] = jobId[k] /\ era'[k] = era[k]
    BY <1>0, <1>1, <1>9 DEF TypeOK
  <2>2. status[k] # "new" => jobId[k] \in Ids
    BY DEF Registered
  <2>3. status[k] # "new" => (row'[jobId[k]] = k <=> row[jobId[k]] = k)
    BY <1>0, <1>1, <1>9, <2>2, JobsAssumption DEF TypeOK
  <2>4. ASSUME Pending(k)', lost[k] = "none"
        PROVE  row'[jobId[k]] = k \/ (InFlight(k)' /\ stamp'[k] # epoch)
    <3>1. status[k] = "finished" /\ (row[jobId[k]] = k \/ (InFlight(k) /\ stamp[k] # epoch))
      BY <1>4, <1>5, <2>4 DEF EJob, Rowed
    <3>2. row[jobId[k]] = k => row'[jobId[k]] = k
      BY <2>3, <3>1
    <3>3. InFlight(k) => delivery'[k] = delivery[k] /\ stamp'[k] = stamp[k]
      BY <1>3, <2>4 DEF Pending, Queued, InFlight
    <3> QED
      BY <3>1, <3>2, <3>3 DEF InFlight
  <2>5. status'[k] \in {"running", "finished"} /\ row'[jobId[k]] = k => era'[k] = epoch
    BY <1>4, <2>1, <2>3 DEF EJob
  <2> QED
    BY <1>1, <1>4, <1>5, <1>6, <1>7, <2>1, <2>4, <2>5 DEF EJob, Rowed
<1> QED
  BY <1>8, <1>9

\* A run that settles keeps EInv: its row is its own.
LEMMA FinishE ==
  ASSUME IInv, EInv, NEW j \in Jobs, Finish(j)
  PROVE  EInv'
<1> DEFINE d == [delivery EXCEPT ![j] = "queued"]
<1>0. TypeOK /\ d \in [Jobs -> DeliveryStates]
  BY DeliveryTyped DEF IInv, DeliveryStates
<1> SUFFICES ASSUME NEW k \in Jobs PROVE EJob(k)'
  BY EIsEJob
<1>1. /\ status[j] = "running" /\ status' = [status EXCEPT ![j] = "finished"]
      /\ UNCHANGED <<jobId, row, lost, era, epoch, injected>>
  BY DEF Finish, model
<1>2. EJob(k) /\ RunStep(k)
  BY <1>0, <1>1, EIsEJob DEF RunStep, TypeOK
<1>3. row[jobId[j]] = j /\ status'[j] = "finished"
  BY <1>0, <1>1 DEF IInv, LiveRows, TypeOK
<1>4. d[k] = delivery[k] \/ (k = j /\ d[k] = "queued")
  BY <1>0 DEF TypeOK
<1>5. CASE UNCHANGED queue
  BY <1>0, <1>1, <1>2, <1>5, UnmovedE DEF queue
<1>6. CASE Ensure(d)
  <2>1. Moved(d, suppressed \cup watched)
    BY <1>0, <1>6, EnsureMoves
  <2> HIDE DEF d
  <2> QED
    BY <1>0, <1>1, <1>2, <1>3, <1>4, <2>1, MovedE
<1> QED
  BY <1>5, <1>6 DEF Finish, Enqueue

\* An eviction keeps EInv: the delivery it overtakes is lost.
LEMMA EvictE ==
  ASSUME IInv, Registered, EInv, NEW i \in Ids, Evict(i)
  PROVE  EInv'
<1>0. TypeOK
  BY DEF IInv
<1>1. /\ timer[i] # "none"
      /\ lost' = [j \in Jobs |-> IF row[i] = j /\ Pending(j) THEN timer[i] ELSE lost[j]]
      /\ row' = [row EXCEPT ![i] = NoJob]
      /\ UNCHANGED <<status, jobId, era, delivery, stamp, epoch, injected>>
  BY DEF Evict, queue, model
<1> SUFFICES ASSUME NEW k \in Jobs PROVE EJob(k)'
  BY EIsEJob
<1>2. EJob(k)
  BY EIsEJob
<1>3. lost'[k] = "none" => lost[k] = "none" /\ ~(row[i] = k /\ Pending(k))
  BY <1>1
<1>4. status[k] # "new" => /\ jobId[k] \in Ids
                           /\ row'[jobId[k]] = IF jobId[k] = i THEN NoJob ELSE row[jobId[k]]
  BY <1>0, <1>1 DEF Registered, TypeOK
<1>5. (Pending(k)' <=> Pending(k)) /\ (InFlight(k)' <=> InFlight(k))
  BY <1>1 DEF Pending, Queued, InFlight
<1>6. delivery[k] = "rejected" => Pending(k)
  BY DEF Pending, InFlight
<1>7. Pending(k) => status[k] = "finished"
  BY <1>2 DEF EJob
<1>8. Pending(k) /\ lost'[k] = "none"
        => row'[jobId[k]] = k \/ (InFlight(k) /\ stamp[k] # epoch)
  BY <1>2, <1>3, <1>4, <1>7 DEF EJob, Rowed
<1>9. delivery[k] = "rejected" /\ lost'[k] = "none" => row'[jobId[k]] \in {k, NoJob}
  BY <1>2, <1>3, <1>4, <1>6, <1>7 DEF EJob
<1>10. status[k] \in {"running", "finished"} /\ row'[jobId[k]] = k => era[k] = epoch
  BY <1>2, <1>4, JobsAssumption DEF EJob
<1> QED
  BY <1>1, <1>2, <1>3, <1>5, <1>8, <1>9, <1>10 DEF EJob, Rowed

\* A session transition keeps EInv: it drops what is queued and has its row, and
\* makes stale what is in flight.
LEMMA NewSessionE ==
  ASSUME IInv, Registered, EInv, NewSession
  PROVE  EInv'
<1>0. TypeOK
  BY DEF IInv
<1>1. /\ status' = [j \in Jobs |-> IF status[j] = "running" THEN "cancelled" ELSE status[j]]
      /\ row' = [i \in Ids |-> IF row[i] # NoJob /\ status[row[i]] = "finished"
                               THEN NoJob ELSE row[i]]
      /\ epoch' = epoch + 1
      /\ \A j \in Jobs : delivery[j] # "rejected"
      /\ UNCHANGED <<jobId, lost, era, stamp, injected>>
  BY DEF NewSession, Idle, Drained, model
<1> SUFFICES ASSUME NEW k \in Jobs PROVE EJob(k)'
  BY EIsEJob
<1>2. EJob(k)
  BY EIsEJob
<1>3. /\ \/ delivery'[k] = delivery[k]
         \/ delivery[k] = "parked" /\ delivery'[k] = "rejected"
         \/ Queued(delivery, k) /\ delivery'[k] = "none"
      /\ Queued(delivery, k) /\ jobId[k] \in Ids /\ row[jobId[k]] = k /\ status[k] = "finished"
           => delivery'[k] = "none"
  BY <1>0, NewSessionMoves
<1>4. delivery'[k] # "parked"
  <2> DEFINE Gone == {i \in Ids : row[i] # NoJob /\ status[row[i]] = "finished"}
             Kept == IF Gone = {} THEN delivery ELSE Purge(Gone \cup suppressed \cup watched)
  <2>1. delivery' = [j \in Jobs |-> IF Kept[j] = "parked" THEN "rejected" ELSE Kept[j]]
    BY DEF NewSession
  <2> HIDE DEF Kept
  <2> QED
    BY <2>1
<1>5. stamp[k] <= epoch' /\ stamp[k] # epoch'
  BY <1>0, <1>1, <1>2 DEF EJob, TypeOK
<1>6. Pending(k)' => Pending(k) /\ status[k] = "finished"
  BY <1>2, <1>3 DEF EJob, Pending, Queued, InFlight
<1>7. status[k] # "new" => jobId[k] \in Ids
  BY DEF Registered
<1>8. ASSUME Pending(k)', lost[k] = "none"
      PROVE  InFlight(k)'
  <2>1. Queued(delivery, k) => row[jobId[k]] = k
    BY <1>2, <1>6, <1>8 DEF EJob, Rowed, Queued, InFlight
  <2>2. ~Queued(delivery, k)
    BY <1>3, <1>6, <1>7, <1>8, <2>1 DEF Pending, Queued, InFlight
  <2> QED
    BY <1>3, <1>6, <1>8, <2>2 DEF Pending, InFlight
<1>9. delivery'[k] = "rejected" /\ lost[k] = "none" => row'[jobId[k]] \in {k, NoJob}
  <2> SUFFICES ASSUME delivery'[k] = "rejected", lost[k] = "none"
               PROVE  row'[jobId[k]] \in {k, NoJob}
    OBVIOUS
  <2>1. delivery[k] = "parked" /\ Pending(k)
    BY <1>1, <1>3 DEF Pending, InFlight
  <2>2. row[jobId[k]] = k /\ status[k] = "finished"
    BY <1>2, <2>1 DEF EJob, Rowed
  <2> QED
    BY <1>1, <1>7, <2>2
<1>10. ~(status'[k] \in {"running", "finished"} /\ row'[jobId[k]] = k)
  <2> SUFFICES ASSUME status'[k] \in {"running", "finished"}, row'[jobId[k]] = k PROVE FALSE
    OBVIOUS
  <2>1. status[k] = "finished" /\ jobId[k] \in Ids
    BY <1>0, <1>1, <1>7 DEF TypeOK
  <2> QED
    BY <1>1, <2>1, JobsAssumption
<1>11. Pending(k)' => status'[k] = "finished"
  BY <1>1, <1>6
<1>12. status'[k] = "new" => injected[k] = {}
  BY <1>0, <1>1, <1>2 DEF EJob, TypeOK
<1> QED
  BY <1>1, <1>2, <1>4, <1>5, <1>8, <1>9, <1>10, <1>11, <1>12 DEF EJob, Rowed

\* The hand-off to the background keeps EInv: what it queues has its row.
LEMMA BackgroundsE ==
  ASSUME IInv, EInv, NEW j \in Jobs, Backgrounds(j)
  PROVE  EInv'
<1> DEFINE d == [delivery EXCEPT ![j] = "queued"]
<1>0. TypeOK /\ d \in [Jobs -> DeliveryStates]
  BY DeliveryTyped DEF IInv, DeliveryStates
<1> SUFFICES ASSUME NEW k \in Jobs PROVE EJob(k)'
  BY EIsEJob
<1>1. UNCHANGED <<status, jobId, row, lost, era, epoch, injected>> /\ EJob(k) /\ RunStep(k)
  BY EIsEJob DEF Backgrounds, jobs, model, RunStep
<1>2. d[k] = delivery[k] \/ (k = j /\ d[k] = "queued")
  BY <1>0 DEF TypeOK
<1>3. CASE UNCHANGED queue
  BY <1>0, <1>1, <1>3, UnmovedE DEF queue
<1>4. CASE ~UNCHANGED queue
  <2>1. /\ row[jobId[j]] = j /\ status[j] = "finished"
        /\ \/ LoopRuns(d, suppressed' \cup watched)
           \/ delivery' = d /\ UNCHANGED stamp
    BY <1>4 DEF Backgrounds, resumeDeliveries
  <2>2. \E quiet : Moved(d, quiet)
    <3>1. CASE LoopRuns(d, suppressed' \cup watched)
      BY <1>0, <3>1, LoopRunsMoves
    <3>2. CASE delivery' = d /\ UNCHANGED stamp
      BY <3>2 DEF Moved
    <3> QED
      BY <2>1, <3>1, <3>2
  <2> HIDE DEF d
  <2> QED
    BY <1>0, <1>1, <1>2, <2>1, <2>2, MovedE
<1> QED
  BY <1>3, <1>4

\* hub cancel and an aborted foreground wait keep EInv.
LEMMA CancelE ==
  ASSUME IInv, EInv, NEW j \in Jobs, HubCancel(j) \/ ForegroundAborts(j)
  PROVE  EInv'
<1>0. TypeOK
  BY DEF IInv
<1> SUFFICES ASSUME NEW k \in Jobs PROVE EJob(k)'
  BY EIsEJob
<1>1. EJob(k) /\ RunStep(k) /\ UNCHANGED <<jobId, row, lost, era, epoch, injected>>
  BY <1>0, EIsEJob DEF HubCancel, ForegroundAborts, RunStep, model, TypeOK
<1>2. CASE HubCancel(j)
  <2>1. {jobId[j]} \in SUBSET Ids
    BY <1>2 DEF HubCancel, IInv, LiveRows
  <2>2. Moved(delivery, suppressed \cup {jobId[j]} \cup watched)
    BY <1>0, <1>2, <2>1, AcknowledgeMoves DEF HubCancel
  <2> QED
    BY <1>0, <1>1, <2>2, MovedE
<1>3. CASE ForegroundAborts(j)
  BY <1>0, <1>1, <1>3, UnmovedE DEF ForegroundAborts, queue
<1> QED
  BY <1>2, <1>3

\* The other steps leave rows and deliveries alone.
LEMMA QuietE ==
  ASSUME IInv, EInv,
         \/ WaitExpires \/ Unwatch \/ ForegroundExpires \/ MessageArrives
         \/ UNCHANGED vars
         \/ \E S \in SUBSET Jobs : HubWait(S)
         \/ \E j \in Jobs : ForegroundReturns(j) \/ Reap(j)
  PROVE  EInv'
<1> SUFFICES ASSUME NEW k \in Jobs PROVE EJob(k)'
  BY EIsEJob
<1>1. UNCHANGED <<jobId, row, lost, era, epoch, injected, delivery, stamp>> /\ RunStep(k)
  BY DEF WaitExpires, Unwatch, ForegroundExpires, MessageArrives, HubWait, ForegroundReturns,
         Reap, RunStep, jobs, queue, model, vars, IInv, TypeOK
<1> QED
  BY <1>1, EIsEJob, UnmovedE DEF IInv

\* EInv is inductive relative to IInv and Registered.
LEMMA EConsecution == IInv /\ Registered /\ EInv /\ [Next]_vars => EInv'
<1> SUFFICES ASSUME IInv, Registered, EInv, [Next]_vars PROVE EInv'
  OBVIOUS
<1>1. ASSUME NEW j \in Jobs, Finish(j) \/ Reap(j) \/ Sink(j)
      PROVE  EInv'
  BY <1>1, FinishE, QuietE, SinkE
<1>2. ASSUME NEW i \in Ids, Evict(i)
      PROVE  EInv'
  BY <1>2, EvictE
<1>3. CASE Loop \/ Inject
  BY <1>3, LoopE, InjectE
<1>4. CASE Tools
  <2>1. CASE WaitExpires \/ Unwatch \/ ForegroundExpires
    BY <2>1, QuietE
  <2>2. CASE HubWaitReturns
    BY <2>2, SnapshotE
  <2>3. ASSUME NEW j \in Jobs, Backgrounds(j) \/ ForegroundReturns(j)
        PROVE  EInv'
    BY <2>3, BackgroundsE, QuietE
  <2> QED
    BY <1>4, <2>1, <2>2, <2>3 DEF Tools
<1>5. CASE Asked
  <2>1. CASE MessageArrives \/ \E S \in SUBSET Jobs : HubWait(S)
    BY <2>1, QuietE
  <2>2. CASE HubJobs \/ NewSession
    BY <2>2, SnapshotE, NewSessionE
  <2>3. ASSUME NEW j \in Jobs, HubCancel(j) \/ ForegroundAborts(j)
        PROVE  EInv'
    BY <2>3, CancelE
  <2>4. ASSUME NEW j \in Jobs, NEW i \in Ids, NEW f \in BOOLEAN, Register(j, i, f)
        PROVE  EInv'
    BY <2>4, RegisterE
  <2> QED
    BY <1>5, <2>1, <2>2, <2>3, <2>4 DEF Asked
<1>6. CASE UNCHANGED vars
  BY <1>6, QuietE
<1>7. CASE Quiescent
  BY <1>6, <1>7 DEF Quiescent
<1> QED
  BY <1>1, <1>2, <1>3, <1>4, <1>5, <1>6, <1>7 DEF Next

\* A background result is injected only into the transcript that started the job,
\* across retries, formatting awaits, reused ids and any number of transitions:
\* the one way around is an eviction timer that takes the row of a delivery that
\* is still pending (lost), which is where NeverInLaterTranscript fails.
THEOREM OwnTranscript == Spec => []OwnTranscriptOnly
<1>1. IInv /\ Registered /\ EInv /\ [Next]_vars => EInv'
  BY EConsecution
<1>2. EInv => OwnTranscriptOnly
  BY DEF EInv
<1> QED
  BY <1>1, <1>2, EInitially, Inductive, RegisteredInductive, PTL DEF Spec
=============================================================================
