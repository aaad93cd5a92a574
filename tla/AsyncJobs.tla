----------------------------- MODULE AsyncJobs -----------------------------
(***************************************************************************)
(* Background jobs and the delivery of their results to the owning         *)
(* session: AsyncJobManager (packages/coding-agent/src/async/              *)
(* job-manager.ts), the session's delivery sink and "async-result" yield   *)
(* queue (session/agent-session.ts, session/yield-queue.ts), and the tools *)
(* that take a result in the foreground: `hub` jobs/wait/cancel            *)
(* (tools/hub) and the auto-backgrounding bash (tools/bash.ts).            *)
(*                                                                         *)
(* One session owns every job; its transcript changes at NewSession. Jobs  *)
(* have identity; the job ids they run under are reused once a row is      *)
(* evicted. Marks (suppressed, watched, consumed) and timers belong to     *)
(* ids, as in the code. A step is the code between two awaits.             *)
(***************************************************************************)
EXTENDS Naturals

CONSTANTS
  Jobs,             \* the jobs ever registered
  Ids,              \* job ids
  NoJob,            \* no row under an id; also the id of an unregistered job
  PhotoFinish,      \* a watched job may settle while a peer message ends its wait
  ReusesInFlight,   \* an id may be reused while an older delivery of it is pending
  MaxEpoch,         \* bound: transcripts after the first
  MaxFailures       \* bound: failed injections

ASSUME JobsAssumption ==
  /\ NoJob \notin Jobs /\ NoJob \notin Ids
  /\ PhotoFinish \in BOOLEAN
  /\ ReusesInFlight \in BOOLEAN
  /\ MaxEpoch \in Nat /\ MaxFailures \in Nat

VARIABLES
  status,     \* job status; "reaped" is a cancelled job whose run has settled
  jobId,      \* the id a job was registered under
  era,        \* the epoch in which it was registered
  row,        \* #jobs: the job an id names
  lost,       \* history: the timer that evicted a job's row before its delivery
  suppressed, watched, consumed,   \* #suppressedDeliveries, #watchedJobs,
                                   \* #consumedJobResults
  timer,      \* #evictionTimers: "full" retention or "short" consumed grace
  delivery,   \* where the delivery of a job's result stands
  stamp,      \* #asyncDeliveryEpoch as its sink call captured it
  loop,       \* #deliveryLoop
  epoch,      \* #asyncDeliveryEpoch: which transcript the session is on
  failures,   \* injections that failed so far
  tool,       \* the session's coordination tool call and where it stands
  held,       \* the jobs that call waits for
  message,    \* the bus leg of the wait took a message
  received,   \* jobs whose result the model has been given
  injected    \* job -> transcripts its result was injected into

jobs == <<status, jobId, era, row, lost>>
marks == <<suppressed, watched, consumed, timer>>
queue == <<delivery, stamp, loop>>
call == <<tool, held, message>>
model == <<received, injected>>
vars == <<jobs, marks, queue, epoch, failures, call, model>>

Queued(d, j) == d[j] \in {"queued", "backoff"}
InFlight(j) == delivery[j] \in {"formatting", "parked", "delivered", "rejected"}
Pending(j) == Queued(delivery, j) \/ InFlight(j)

IdsOf(S) == {jobId[j] : j \in S}
Settled(j) == status[j] \in {"finished", "reaped"}
isDeliverySuppressed(i) == i \in suppressed \cup watched

\* No continuation is due: macrotasks (timers, provider responses, new tool
\* calls) run only once the microtasks have.
Drained ==
  /\ \A j \in Jobs : delivery[j] \notin {"delivered", "rejected"}
  /\ loop \notin {"woken", "ending"}
  /\ tool \in {"none", "waiting", "foreground"}

Idle == Drained /\ tool = "none"

Init ==
  /\ status = [j \in Jobs |-> "new"] /\ jobId = [j \in Jobs |-> NoJob]
  /\ era = [j \in Jobs |-> 0]
  /\ row = [i \in Ids |-> NoJob] /\ lost = [j \in Jobs |-> "none"]
  /\ suppressed = {} /\ watched = {} /\ consumed = {}
  /\ timer = [i \in Ids |-> "none"]
  /\ delivery = [j \in Jobs |-> "none"] /\ stamp = [j \in Jobs |-> 0]
  /\ loop = "off"
  /\ epoch = 0 /\ failures = 0
  /\ tool = "none" /\ held = {} /\ message = FALSE
  /\ received = {} /\ injected = [j \in Jobs |-> {}]

-----------------------------------------------------------------------------
(***************************************************************************)
(* The delivery loop. A run of it hands every due delivery to the sink and *)
(* drops the suppressed ones; it then waits for the head's back-off or     *)
(* returns, and its finally clears #deliveryLoop a microtask later.        *)
(***************************************************************************)
Dispatch(d, quiet) ==
  [j \in Jobs |-> IF Queued(d, j) /\ jobId[j] \in quiet THEN "none"
                  ELSE IF d[j] = "queued" THEN "formatting" ELSE d[j]]

LoopRuns(d, quiet) ==
  /\ delivery' = Dispatch(d, quiet)
  /\ stamp' = [j \in Jobs |-> IF d[j] = "queued" THEN epoch ELSE stamp[j]]
  /\ loop' = IF \E j \in Jobs : Dispatch(d, quiet)[j] = "backoff" THEN "waiting" ELSE "ending"

\* #notifyDeliveryQueueChanged wakes a waiting loop; #ensureDeliveryLoop starts
\* one only when there is none.
Notify == loop' = IF loop = "waiting" THEN "woken" ELSE loop

Ensure(d) ==
  IF loop = "off" /\ \E j \in Jobs : Queued(d, j)
  THEN LoopRuns(d, suppressed \cup watched)
  ELSE delivery' = d /\ UNCHANGED stamp /\ Notify

\* #enqueueDelivery: skipped for a suppressed or watched id.
Enqueue(j) ==
  IF isDeliverySuppressed(jobId[j]) THEN UNCHANGED queue
  ELSE Ensure([delivery EXCEPT ![j] = "queued"])

LoopWakes ==
  /\ loop = "woken"
  /\ LoopRuns(delivery, suppressed \cup watched)
  /\ UNCHANGED <<jobs, marks, epoch, failures, call, model>>

\* Mutant: the finally does not look for deliveries queued behind its back.
LoopEndsBlindly ==
  /\ loop = "ending"
  /\ loop' = "off" /\ UNCHANGED <<delivery, stamp>>
  /\ UNCHANGED <<jobs, marks, epoch, failures, call, model>>

LoopEnds ==
  /\ loop = "ending"
  /\ IF \E j \in Jobs : Queued(delivery, j)
     THEN LoopRuns(delivery, suppressed \cup watched)
     ELSE loop' = "off" /\ UNCHANGED <<delivery, stamp>>
  /\ UNCHANGED <<jobs, marks, epoch, failures, call, model>>

\* The back-off of a failed delivery elapses and the loop's timer fires.
BackoffElapses(j) ==
  /\ Drained
  /\ delivery[j] = "backoff"
  /\ delivery' = [delivery EXCEPT ![j] = "queued"]
  /\ Notify
  /\ UNCHANGED <<jobs, marks, stamp, epoch, failures, call, model>>

-----------------------------------------------------------------------------
(***************************************************************************)
(* Acknowledging and consuming results.                                    *)
(***************************************************************************)
\* The deliveries left once the ids of quiet are suppressed or watched.
Purge(quiet) ==
  [j \in Jobs |-> IF Queued(delivery, j) /\ jobId[j] \in quiet THEN "none" ELSE delivery[j]]

acknowledgeDeliveries(I) ==
  /\ suppressed' = suppressed \cup I
  /\ delivery' = IF I = {} THEN delivery ELSE Purge(suppressed \cup I \cup watched)
  /\ IF I = {} THEN UNCHANGED loop ELSE Notify
  /\ UNCHANGED stamp

\* Mutant: an id without a row is marked.
UnconsumedUnchecked(I) == {i \in I : i \notin consumed}

\* The ids of I whose rows hold a result nobody consumed.
Unconsumed(I) ==
  {i \in I : row[i] # NoJob /\ Settled(row[i]) /\ i \notin consumed}

\* Mutant: a consumed row is always evicted after the short grace (the marker
\* that suppresses its parked entry goes with it).
ShortenAll(I) == timer' = [i \in Ids |-> IF i \in I THEN "short" ELSE timer[i]]

\* #consumeJobResult arms the short grace unless a delivery is pending.
Shorten(I) ==
  LET Waiting == {j \in Jobs : Queued(delivery', j) \/ InFlight(j)} IN
  timer' = [i \in Ids |-> IF i \in I \ IdsOf(Waiting) THEN "short" ELSE timer[i]]

\* Mutant: the results are consumed before the snapshot is taken of them.
ConsumeFirst(S) ==
  LET I == {i \in IdsOf(S) : row[i] # NoJob /\ status[row[i]] # "running"} IN
  /\ acknowledgeDeliveries(I)
  /\ consumed' = consumed \cup Unconsumed(I)
  /\ Shorten(Unconsumed(I))
  /\ UNCHANGED received

\* buildJobResult: a snapshot shows the results nobody consumed and calls
\* consumeJobResults for every settled row.
Consume(S) ==
  LET I == {i \in IdsOf(S) : row[i] # NoJob /\ status[row[i]] # "running"} IN
  /\ acknowledgeDeliveries(I)
  /\ consumed' = consumed \cup Unconsumed(I)
  /\ Shorten(Unconsumed(I))
  /\ received' = received \cup {row[i] : i \in Unconsumed(I)}

-----------------------------------------------------------------------------
(***************************************************************************)
(* Jobs.                                                                   *)
(***************************************************************************)
\* register; a foreground wait acknowledges the job in the same step.
Register(j, i, foreground) ==
  /\ Idle
  /\ status[j] = "new" /\ row[i] = NoJob
  /\ (\E k \in Jobs : jobId[k] = i /\ Pending(k)) => ReusesInFlight
  /\ status' = [status EXCEPT ![j] = "running"]
  /\ jobId' = [jobId EXCEPT ![j] = i]
  /\ era' = [era EXCEPT ![j] = epoch]
  /\ row' = [row EXCEPT ![i] = j]
  /\ consumed' = consumed \ {i}
  /\ IF foreground
     THEN acknowledgeDeliveries({i}) /\ tool' = "foreground" /\ held' = {j}
     ELSE /\ suppressed' = suppressed \ {i}
          /\ UNCHANGED <<delivery, loop, stamp, tool, held>>
  /\ UNCHANGED <<lost, watched, timer, epoch, failures, message, model>>

\* The run settles: its result is recorded and queued for delivery.
Finish(j) ==
  /\ status[j] = "running"
  /\ (message /\ tool = "raced" /\ j \in held) => PhotoFinish
  /\ status' = [status EXCEPT ![j] = "finished"]
  /\ Enqueue(j)
  /\ timer' = [timer EXCEPT ![jobId[j]] = "full"]
  /\ tool' = IF j \notin held THEN tool
             ELSE CASE tool = "waiting" -> "raced"
                    [] tool = "foreground" -> "answered"
                    [] OTHER -> tool
  /\ UNCHANGED <<jobId, era, row, lost, suppressed, watched, consumed, epoch, failures,
                 held, message, model>>

\* A cancelled run settles: nothing is delivered.
Reap(j) ==
  /\ status[j] = "cancelled"
  /\ status' = [status EXCEPT ![j] = "reaped"]
  /\ timer' = [timer EXCEPT ![jobId[j]] = "full"]
  /\ tool' = IF j \in held /\ tool = "waiting" THEN "raced" ELSE tool
  /\ UNCHANGED <<jobId, era, row, lost, suppressed, watched, consumed, queue, epoch,
                 failures, held, message, model>>

ClearTimers(I) == timer' = [i \in Ids |-> IF i \in I THEN "none" ELSE timer[i]]

\* An eviction timer fires: #evictJob.  The full retention may elapse while a
\* delivery of the row is pending.
Evict(i) ==
  /\ Drained
  /\ timer[i] # "none"
  /\ lost' = [j \in Jobs |-> IF row[i] = j /\ Pending(j) THEN timer[i] ELSE lost[j]]
  /\ row' = [row EXCEPT ![i] = NoJob]
  /\ ClearTimers({i})
  /\ suppressed' = suppressed \ {i}
  /\ watched' = watched \ {i}
  /\ consumed' = consumed \ {i}
  /\ UNCHANGED <<status, jobId, era, queue, epoch, failures, call, model>>

-----------------------------------------------------------------------------
(***************************************************************************)
(* The session's sink and yield queue.                                     *)
(***************************************************************************)
\* #deliverAsyncJobResult after its formatting await: parks the entry on the
\* yield queue, or returns, which counts as delivered.
Formatted(j) ==
  /\ delivery[j] = "formatting"
  /\ delivery' = [delivery EXCEPT ![j] =
                    IF stamp[j] # epoch \/ isDeliverySuppressed(jobId[j])
                    THEN "delivered" ELSE "parked"]
  /\ UNCHANGED <<jobs, marks, stamp, loop, epoch, failures, call, model>>

Stale(j) == stamp[j] # epoch \/ isDeliverySuppressed(jobId[j])

\* A flush at a step boundary or when idle: stale entries are rejected, the
\* others injected in one message, or all rejected when the dispatch fails.
Inject ==
  LET Parked == {j \in Jobs : delivery[j] = "parked"}
      Fresh == {j \in Parked : ~Stale(j)}
  IN
  /\ Idle
  /\ Parked # {}
  /\ \/ /\ delivery' = [j \in Jobs |-> IF j \in Fresh THEN "delivered"
                                       ELSE IF j \in Parked THEN "rejected" ELSE delivery[j]]
        /\ received' = received \cup Fresh
        /\ injected' = [j \in Jobs |-> IF j \in Fresh THEN injected[j] \cup {epoch}
                                       ELSE injected[j]]
        /\ UNCHANGED failures
     \/ /\ Fresh # {} /\ failures < MaxFailures
        /\ failures' = failures + 1
        /\ delivery' = [j \in Jobs |-> IF j \in Parked THEN "rejected" ELSE delivery[j]]
        /\ UNCHANGED model
  /\ UNCHANGED <<jobs, marks, stamp, loop, epoch, call>>

\* The sink call resolved: the row is consumed and its grace shortened.
Delivered(j) ==
  LET i == jobId[j] IN
  /\ delivery[j] = "delivered"
  /\ Ensure([delivery EXCEPT ![j] = "none"])
  /\ consumed' = consumed \cup Unconsumed({i})
  /\ IF i \in consumed /\ row[i] # NoJob
     THEN timer' = [timer EXCEPT ![i] = "short"]
     ELSE timer' = [timer EXCEPT ![i] =
            IF Unconsumed({i}) # {} /\ \A k \in Jobs \ {j} : ~(jobId[k] = i /\ Pending(k))
            THEN "short" ELSE @]
  /\ UNCHANGED <<jobs, suppressed, watched, epoch, failures, call, model>>

\* Mutant: a rejected delivery is dropped.
RejectedNever(j) ==
  /\ delivery[j] = "rejected"
  /\ Ensure([delivery EXCEPT ![j] = "none"])
  /\ UNCHANGED <<jobs, marks, epoch, failures, call, model>>

\* Mutant: a rejected delivery is retried whatever became of its row.
RejectedAlways(j) ==
  /\ delivery[j] = "rejected"
  /\ Ensure([delivery EXCEPT ![j] = "backoff"])
  /\ UNCHANGED <<jobs, marks, epoch, failures, call, model>>

\* The sink call rejected: retried unless suppressed or the row is gone.
Rejected(j) ==
  /\ delivery[j] = "rejected"
  /\ Ensure([delivery EXCEPT ![j] =
       IF isDeliverySuppressed(jobId[j]) \/ row[jobId[j]] = NoJob THEN "none" ELSE "backoff"])
  /\ UNCHANGED <<jobs, marks, epoch, failures, call, model>>

\* #cancelOwnAsyncJobs at a session transition.
NewSession ==
  LET Finished == {i \in Ids : row[i] # NoJob /\ status[row[i]] = "finished"}
      Kept == IF Finished = {} THEN delivery ELSE Purge(Finished \cup suppressed \cup watched)
  IN
  /\ Idle
  /\ epoch < MaxEpoch
  /\ epoch' = epoch + 1
  /\ status' = [j \in Jobs |-> IF status[j] = "running" THEN "cancelled" ELSE status[j]]
  /\ row' = [i \in Ids |-> IF i \in Finished THEN NoJob ELSE row[i]]
  /\ ClearTimers(Finished)
  /\ suppressed' = suppressed \ Finished
  /\ watched' = watched \ Finished
  /\ consumed' = consumed \ Finished
  /\ delivery' = [j \in Jobs |-> IF Kept[j] = "parked" THEN "rejected" ELSE Kept[j]]
  /\ IF Finished = {} THEN UNCHANGED loop ELSE Notify
  /\ UNCHANGED <<jobId, era, lost, stamp, failures, call, model>>

-----------------------------------------------------------------------------
(***************************************************************************)
(* Tools that take results in the foreground.                              *)
(***************************************************************************)
Rows == {j \in Jobs : \E i \in Ids : row[i] = j}

HubJobs ==
  /\ Idle
  /\ Consume(Rows)
  /\ UNCHANGED <<jobs, watched, epoch, failures, call, injected>>

\* A cancelled row has no result yet: the snapshot only suppresses its id.
HubCancel(j) ==
  /\ Idle
  /\ status[j] = "running"
  /\ status' = [status EXCEPT ![j] = "cancelled"]
  /\ acknowledgeDeliveries({jobId[j]})
  /\ UNCHANGED <<jobId, era, row, lost, watched, consumed, timer, epoch, failures, call,
                 model>>

HubWait(S) ==
  /\ Idle
  /\ S # {} /\ \A j \in S : status[j] = "running"
  /\ watched' = watched \cup IdsOf(S)
  /\ Notify
  /\ tool' = "waiting" /\ held' = S /\ message' = FALSE
  /\ UNCHANGED <<jobs, suppressed, consumed, timer, delivery, stamp, epoch, failures, model>>

\* The window or an abort ends the race.
WaitExpires ==
  /\ tool = "waiting" /\ Drained
  /\ tool' = "raced"
  /\ UNCHANGED <<jobs, marks, queue, epoch, failures, held, message, model>>

\* The bus leg takes a message; it is cancelled only once the race is over.
MessageArrives ==
  /\ ~message
  /\ tool \in {"waiting", "raced"}
  /\ (\E j \in held : Settled(j)) => PhotoFinish
  /\ message' = TRUE /\ tool' = "raced"
  /\ UNCHANGED <<jobs, marks, queue, epoch, failures, held, model>>

unwatchJobs(I) == watched' = watched \ I

\* The finally unwatches the jobs and cancels the bus leg, which the tool awaits
\* before it looks at the jobs.
Unwatch ==
  /\ tool = "raced"
  /\ unwatchJobs(IdsOf(held))
  /\ tool' = "unwatched"
  /\ UNCHANGED <<jobs, suppressed, consumed, timer, queue, epoch, failures, held, message,
                 model>>

\* A message wins; otherwise the jobs are reported.
HubWaitReturns ==
  /\ tool = "unwatched"
  /\ tool' = "none" /\ held' = {} /\ message' = FALSE
  /\ IF message
     THEN UNCHANGED <<suppressed, consumed, timer, queue, received>>
     ELSE Consume(held)
  /\ UNCHANGED <<jobs, watched, epoch, failures, injected>>

\* The threshold or a steer ends the foreground wait of bash.
ForegroundExpires ==
  /\ tool = "foreground" /\ Drained
  /\ tool' = "expired"
  /\ UNCHANGED <<jobs, marks, queue, epoch, failures, held, message, model>>

\* Mutant: the suppression is lifted without looking for a skipped result.
ResumeBlindly(j) ==
  /\ suppressed' = suppressed \ {jobId[j]}
  /\ UNCHANGED queue

\* resumeDeliveries: a result that settled while suppressed is queued now.
resumeDeliveries(j) ==
  LET i == jobId[j] IN
  /\ suppressed' = suppressed \ {i}
  /\ IF i \in suppressed /\ row[i] = j /\ status[j] = "finished"
        /\ ~Pending(j) /\ i \notin watched
     THEN LET d == [delivery EXCEPT ![j] = "queued"] IN
          IF loop = "off" THEN LoopRuns(d, suppressed' \cup watched)
          ELSE delivery' = d /\ UNCHANGED stamp /\ Notify
     ELSE UNCHANGED queue

Backgrounds(j) ==
  /\ tool = "expired" /\ held = {j}
  /\ resumeDeliveries(j)
  /\ tool' = "none" /\ held' = {}
  /\ UNCHANGED <<jobs, watched, consumed, timer, epoch, failures, message, model>>

\* The result is the tool's own; the suppression stays.
ForegroundReturns(j) ==
  /\ tool = "answered" /\ held = {j}
  /\ received' = received \cup {j}
  /\ tool' = "none" /\ held' = {}
  /\ UNCHANGED <<jobs, marks, queue, epoch, failures, message, injected>>

\* The user aborts the foreground wait, which cancels the job.
ForegroundAborts(j) ==
  /\ tool = "foreground" /\ Drained /\ held = {j}
  /\ status' = [status EXCEPT ![j] = IF @ = "running" THEN "cancelled" ELSE @]
  /\ tool' = "none" /\ held' = {}
  /\ UNCHANGED <<jobId, era, row, lost, marks, queue, epoch, failures, message, model>>

Tools ==
  \/ WaitExpires \/ Unwatch \/ HubWaitReturns \/ ForegroundExpires
  \/ \E j \in Jobs : Backgrounds(j) \/ ForegroundReturns(j)

Asked ==
  \/ HubJobs \/ NewSession \/ MessageArrives
  \/ \E S \in SUBSET Jobs : HubWait(S)
  \/ \E j \in Jobs : HubCancel(j) \/ ForegroundAborts(j)
  \/ \E j \in Jobs, i \in Ids, f \in BOOLEAN : Register(j, i, f)

Loop == LoopWakes \/ LoopEnds \/ \E j \in Jobs : BackoffElapses(j)

Sink(j) == Formatted(j) \/ Delivered(j) \/ Rejected(j)

\* Every job may be used up and every result handed over.
Quiescent ==
  /\ Idle /\ \A j \in Jobs : status[j] \in {"finished", "reaped"} /\ ~Pending(j)
  /\ UNCHANGED vars

Next ==
  \/ Asked \/ Tools \/ Loop \/ Inject \/ Quiescent
  \/ \E j \in Jobs : Finish(j) \/ Reap(j) \/ Sink(j)
  \/ \E i \in Ids : Evict(i)

(***************************************************************************)
(* The event loop runs every continuation and timer, a tool call returns,  *)
(* and the session reaches a step boundary or goes idle again and again    *)
(* (injections are strongly fair: new tool calls keep delaying them).      *)
(***************************************************************************)
Fairness ==
  /\ WF_vars(Tools) /\ WF_vars(LoopWakes) /\ WF_vars(LoopEnds)
  /\ SF_vars(Inject)
  /\ \A j \in Jobs : WF_vars(Sink(j)) /\ SF_vars(BackoffElapses(j))

Spec == Init /\ [][Next]_vars
FairSpec == Spec /\ Fairness

-----------------------------------------------------------------------------
(***************************************************************************)
(* Properties.                                                             *)
(***************************************************************************)
\* Every variable keeps its range; consumed marks are on live rows only.
TypeOK ==
  /\ status \in [Jobs -> {"new", "running", "finished", "cancelled", "reaped"}]
  /\ jobId \in [Jobs -> Ids \cup {NoJob}]
  /\ era \in [Jobs -> Nat] /\ row \in [Ids -> Jobs \cup {NoJob}]
  /\ lost \in [Jobs -> {"none", "full", "short"}]
  /\ suppressed \subseteq Ids /\ watched \subseteq Ids /\ consumed \subseteq Ids
  /\ timer \in [Ids -> {"none", "full", "short"}]
  /\ delivery \in [Jobs -> {"none", "queued", "backoff", "formatting", "parked", "delivered",
                            "rejected"}]
  /\ stamp \in [Jobs -> Nat] /\ loop \in {"off", "waiting", "woken", "ending"}
  /\ epoch \in Nat /\ failures \in Nat
  /\ tool \in {"none", "waiting", "raced", "unwatched", "foreground", "expired", "answered"}
  /\ held \subseteq Jobs /\ message \in BOOLEAN
  /\ received \subseteq Jobs /\ injected \in [Jobs -> SUBSET Nat]
  /\ \A i \in consumed : row[i] # NoJob

\* A background result is injected only into the transcript that started the
\* job, never into one that replaced it (/new, switch, handoff, reset), across
\* retries and formatting awaits.  The exception is a job whose row was evicted
\* while its delivery was pending (lost): NeverInLaterTranscript.
OwnTranscriptOnly == \A j \in Jobs : lost[j] = "none" => injected[j] \subseteq {era[j]}

\* "A prior session's result can never be injected into a later transcript"
\* (async/job-manager.ts, evictCompletedJobs).  A session transition drops the
\* deliveries of the rows it evicts; one in back-off whose row the retention has
\* evicted stays queued, and is stamped anew for the transcript it is then
\* injected into.
NeverInLaterTranscript == \A j \in Jobs : injected[j] \subseteq {era[j]}

\* A result the model already has (from a snapshot, a foreground return or an
\* earlier injection) is never injected as an async-result follow-up, unless the
\* full retention of the row that held the mark elapsed before the delivery (lost).
NoDuplicateInjection ==
  [][\A j \in Jobs :
       injected'[j] # injected[j] => j \notin received \/ lost[j] = "full"]_vars

\* An eviction timer is armed only for a row whose job has settled: none is left
\* behind to evict the running job that reuses the id of an evicted row.
TimersServeRows == \A i \in Ids : timer[i] # "none" => row[i] # NoJob /\ Settled(row[i])

\* Queued deliveries always have a live loop: a delivery queued between the
\* loop's last look at the queue and its finally is not left behind.
LoopServesQueue == (\E j \in Jobs : Queued(delivery, j)) => loop # "off"

\* The result of j is still owed to the transcript on screen.
Unclaimed(j) ==
  /\ status[j] = "finished" /\ j \notin received
  /\ era[j] = epoch /\ row[jobId[j]] = j

\* A finished result that nobody took has a delivery pending, unless a
\* foreground call holds it and is about to return it or to resume its delivery:
\* "job results re-deliver themselves" (tools/hub/index.ts).
NoStrandedResult ==
  \A j \in Jobs : Unclaimed(j) => Pending(j) \/ j \in held

\* The model is eventually given every finished result, unless its row is
\* evicted or the transcript it belongs to is replaced first.
ResultReachesModel == \A j \in Jobs : Unclaimed(j) ~> ~Unclaimed(j)

\* A result is marked consumed only once the model has been given it.
ConsumedMeansReceived ==
  \A i \in consumed : row[i] # NoJob => row[i] \in received
=============================================================================
