----------------------------- MODULE AgentQueues -----------------------------
(***************************************************************************)
(* The message queues of Agent (agent/src/agent.ts): steering and          *)
(* follow-up messages that the user queues, that a run claims, prepares    *)
(* and takes out at its polls (agent-loop.ts), and that come back to the   *)
(* queue when the run ends before they are in the transcript.  Runs are    *)
(* started by prompts and by the session's drain of stranded messages      *)
(* (session/agent-session.ts); they are aborted, fail, and are superseded  *)
(* by a reset.                                                             *)
(*                                                                         *)
(* A step is the code between two awaits.  The events a run pushes are     *)
(* consumed in the microtasks that follow, as part of the same step.       *)
(***************************************************************************)
EXTENDS Naturals, Sequences, FiniteSets, SequencesExt

CONSTANTS
    Run,            \* slots for runs: the abort controller of each
    BatchModes,     \* the delivery modes tried: "all", "one-at-a-time"
    MaxMessage,     \* bound: messages queued
    MaxFault,       \* bound: aborts, and hooks, preparations and calls that fail
    None

Queue == {"steering", "followUp"}
Message == 1..MaxMessage
Own == 0                \* the message a prompt brings itself; it is never queued

\* What a pending preparation holds: its run, the #abortController it saw, and the
\* batch.
Claims == [run : Run, controller : Run, messages : Seq(Message) \ {<<>>}]

ASSUME QueuesAssumption ==
    /\ None \notin Run /\ None \notin Claims
    /\ BatchModes \subseteq {"all", "one-at-a-time"}
    /\ MaxMessage \in Nat /\ MaxFault \in Nat

VARIABLES
    accepted,       \* the queue of each message, in the order they were queued
    queue,          \* #steeringQueue and #followUpQueue
    mode,           \* #steeringMode and #followUpMode
    claim,          \* #queuedMessageClaims: run, controller, messages
    deliveries,     \* #queuedMessageDeliveries: by run and queue, the messages from
                    \* next on, of all its deliveries in order
    ctl,            \* #abortController: the current run
    aborted,        \* the runs whose signal is aborted
    streaming,      \* #state.isStreaming
    got,            \* the queued messages in #state.messages
    tail,           \* the kind of the last of #state.messages
    \* the runs
    pc, step,       \* where each is; of a poll: "start", "hooks", "prepare"
    hand,           \* the messages it is about to emit
    \* the session
    suppressed,     \* autoResumeSuppressed: a user interrupt is in effect
    blocked,        \* #queuedMessageDrainBlocked: the last drain failed
    \* history
    gone,           \* messages withdrawn by the user, or by a reset
    dropped,        \* messages in a run's hands whose delivery record a change
                    \* of the queues deleted
    faults

agentVars == <<queue, claim, deliveries, ctl, aborted, streaming, got, tail>>
runVars == <<pc, step, hand>>
histVars == <<accepted, gone, dropped>>
vars == <<accepted, queue, mode, claim, deliveries, ctl, aborted, streaming, got, tail,
          pc, step, hand, suppressed, blocked, gone, dropped, faults>>

\* The polls of a run and the queue each takes from: the two of continue(), the
\* initial one, the one after tool calls, the one at a stop, and the late ones
\* before the loop yields.
Polled == [openSteer |-> "steering", openFollow |-> "followUp", initial |-> "steering",
           midwork |-> "steering", stop |-> "steering",
           lateSteer |-> "steering", lateFollow |-> "followUp"]
Polls == DOMAIN Polled
Opening == {"openSteer", "openFollow"}

NoDelivery == [q \in Queue |-> <<>>]

Init ==
    /\ accepted = <<>>
    /\ queue = [q \in Queue |-> <<>>]
    /\ mode \in [Queue -> BatchModes]
    /\ claim = [q \in Queue |-> None]
    /\ deliveries = [r \in Run |-> NoDelivery]
    /\ ctl = None /\ aborted = {} /\ streaming = FALSE
    /\ got = <<>> /\ tail = "empty"
    /\ pc = [r \in Run |-> "free"]
    /\ step = [r \in Run |-> "start"]
    /\ hand = [r \in Run |-> <<>>]
    /\ suppressed = FALSE /\ blocked = FALSE
    /\ gone = {} /\ dropped = {}
    /\ faults = 0

(***************************************************************************)
(* Records of the queues.                                                  *)
(***************************************************************************)
\* peekSteeringQueue, peekFollowUpQueue: the claimed originals included.
Claimed(q) == IF claim[q] = None THEN <<>> ELSE claim[q].messages
Peek(q) == Claimed(q) \o queue[q]

HasQueued(qs, cl) == \E q \in Queue : qs[q] # <<>> \/ cl[q] # None

\* The records that are left when those of run r are deleted, and the queues qs
\* with what r did not deliver back at their heads.
Others(ds, r) == [ds EXCEPT ![r] = NoDelivery]
Restored(ds, r, qs) == [q \in Queue |-> ds[r][q] \o qs[q]]

\* How far a delivery of the messages s advances while the messages ms reach the
\* transcript: next moves when its message does.
Advance(s, ms) ==
    LET next[k \in 0..Len(ms)] ==
          IF k = 0 THEN 0
          ELSE IF next[k - 1] < Len(s) /\ s[next[k - 1] + 1] = ms[k] THEN next[k - 1] + 1
          ELSE next[k - 1]
    IN  next[Len(ms)]

\* What is left of the deliveries then.  Deliveries of a run from one queue reach the
\* transcript in the order they were made, so they advance as one; and a message is
\* next in one of them at most.
AppendMessages(ds, ms) ==
    [r \in Run |-> [q \in Queue |-> SubSeq(ds[r][q], Advance(ds[r][q], ms) + 1, Len(ds[r][q]))]]

\* A prompt's own message is the first in the hands of its run.
FromQueues(ms) == IF ms # <<>> /\ Head(ms) = Own THEN Tail(ms) ELSE ms

(***************************************************************************)
(* The course of a run.                                                    *)
(***************************************************************************)
\* Mutant: a run that leaves a poll is still in its preparation.
ToKeepsStep(r, place, ms) ==
    /\ pc' = [pc EXCEPT ![r] = place]
    /\ hand' = [hand EXCEPT ![r] = ms]
    /\ UNCHANGED step

To(r, place, ms) ==
    /\ pc' = [pc EXCEPT ![r] = place]
    /\ step' = [step EXCEPT ![r] = "start"]
    /\ hand' = [hand EXCEPT ![r] = ms]

\* The finally of #runLoop and of continue(): the run's undelivered messages go
\* back to the head of their queues, and only the current run clears the state.
Finally(r, ds, qs) ==
    /\ deliveries' = Others(ds, r)
    /\ queue' = Restored(ds, r, qs)
    /\ IF ctl = r THEN ctl' = None /\ streaming' = FALSE ELSE UNCHANGED <<ctl, streaming>>
    /\ aborted' = aborted \ {r}
    /\ To(r, "free", <<>>)

\* Its consumer appends the messages in hand to the transcript, unless the run
\* was superseded.
Emitted(r, ds) == IF ctl = r THEN AppendMessages(ds, hand[r]) ELSE ds
Emit(r) ==
    IF ctl = r THEN /\ got' = got \o FromQueues(hand[r])
                    /\ tail' = IF hand[r] = <<>> THEN tail ELSE "user"
    ELSE UNCHANGED <<got, tail>>

\* An exception reaches the catch of #runLoop, after the poll at its start has
\* emitted the input; continue() passes it on to the drain.
Threw(r, ds, qs, block) ==
    IF pc[r] \in Opening
    THEN /\ Finally(r, ds, qs)
         /\ blocked' = HasQueued(queue', claim')
         /\ UNCHANGED <<got, tail>>
    ELSE LET emits == pc[r] \in {"initial", "turn"}
         IN  /\ Finally(r, IF emits THEN Emitted(r, ds) ELSE ds, qs)
             /\ got' = IF emits /\ ctl = r THEN got \o FromQueues(hand[r]) ELSE got
             /\ tail' = IF ctl = r THEN "assistant" ELSE tail
             /\ blocked' \in block

Goes(r, place, ms, ds, qs) ==
    /\ To(r, place, ms)
    /\ deliveries' = ds /\ queue' = qs
    /\ UNCHANGED <<ctl, aborted, streaming, got, tail, blocked>>

\* A poll returned the messages ms.
Returned(r, ms, ds, qs) ==
    LET all == hand[r] \o ms
    IN  \/ /\ pc[r] \in Opening /\ ctl # r
           /\ Finally(r, ds, qs)
           /\ UNCHANGED <<got, tail, blocked>>
        \/ /\ pc[r] = "openSteer" /\ ctl = r
           /\ Goes(r, IF ms = <<>> THEN "openFollow" ELSE "turn", ms, ds, qs)
        \/ /\ pc[r] = "openFollow" /\ ctl = r /\ ms # <<>>
           /\ Goes(r, "initial", ms, ds, qs)
        \/ /\ pc[r] = "openFollow" /\ ctl = r /\ ms = <<>>
           /\ Threw(r, ds, qs, {})
        \/ /\ pc[r] \in {"initial", "midwork"}
           /\ Goes(r, "turn", all, ds, qs)
        \/ /\ pc[r] = "stop"
           /\ Goes(r, IF ms = <<>> THEN "lateSteer" ELSE "turn", ms, ds, qs)
        \/ /\ pc[r] = "lateSteer"
           /\ Goes(r, "lateFollow", ms, ds, qs)
        \/ /\ pc[r] = "lateFollow" /\ all # <<>>
           /\ Goes(r, "turn", all, ds, qs)
        \/ /\ pc[r] = "lateFollow" /\ all = <<>>
           /\ To(r, "ended", <<>>)
           /\ streaming' = (streaming /\ ctl # r)
           /\ deliveries' = ds /\ queue' = qs
           /\ UNCHANGED <<ctl, aborted, got, tail, blocked>>

\* An abort explains a failure; any other one counts as a fault.
Fault(r) ==
    IF r \in aborted THEN UNCHANGED faults ELSE faults < MaxFault /\ faults' = faults + 1

(***************************************************************************)
(* Polls.                                                                  *)
(***************************************************************************)
StartPoll(r) ==
    /\ pc[r] \in Polls /\ step[r] = "start"
    /\ IF r \in aborted \/ queue[Polled[pc[r]]] = <<>>
       THEN UNCHANGED claim /\ Returned(r, <<>>, deliveries, queue)
       ELSE /\ step' = [step EXCEPT ![r] = "hooks"]
            /\ UNCHANGED <<agentVars, pc, hand, blocked>>
    /\ UNCHANGED <<accepted, mode, suppressed, gone, dropped, faults>>

\* The batch a dequeue takes.
Batch(q) == IF mode[q] = "all" THEN queue[q] ELSE SubSeq(queue[q], 1, 1)
Rest(q) == IF mode[q] = "all" THEN <<>> ELSE Tail(queue[q])

\* #prepareQueuedMessageBatch claims a batch.
Claim(r, q) ==
    /\ claim' = [claim EXCEPT ![q] = [run |-> r, controller |-> ctl, messages |-> Batch(q)]]
    /\ queue' = [queue EXCEPT ![q] = Rest(q)]
    /\ step' = [step EXCEPT ![r] = "prepare"]
    /\ UNCHANGED <<deliveries, ctl, aborted, streaming, got, tail, pc, hand, blocked>>

HooksEnd(r) ==
    /\ pc[r] \in Polls /\ step[r] = "hooks"
    /\ LET q == Polled[pc[r]]
       IN  IF r \in aborted \/ claim[q] # None \/ queue[q] = <<>>
           THEN UNCHANGED claim /\ Returned(r, <<>>, deliveries, queue)
           ELSE Claim(r, q)
    /\ UNCHANGED <<accepted, mode, suppressed, gone, dropped, faults>>

\* The session's hook throws when its preflight is refused, which blocks the drain.
HooksThrow(r) ==
    /\ pc[r] \in Polls /\ step[r] = "hooks"
    /\ Fault(r)
    /\ UNCHANGED claim
    /\ Threw(r, deliveries, queue, {HasQueued(queue, claim)})
    /\ UNCHANGED <<accepted, mode, suppressed, gone, dropped>>

Unclaim(q) == [claim EXCEPT ![q] = None]
\* Mutant: a cancelled claim goes to the end of its queue.
ReclaimAtTail(q) == [queue EXCEPT ![q] = @ \o claim[q].messages]

\* The claimed messages go back to the head of their queue.
Reclaim(q) == [queue EXCEPT ![q] = claim[q].messages \o @]
\* Mutant: a preparation that ends does not check whose claim it finds.
MineIfAny(r, q) == claim[q] # None

Mine(r, q) == claim[q] # None /\ claim[q].run = r

\* The preparation succeeded: the claim becomes a delivery, unless it was
\* cancelled meanwhile.
PrepareEnds(r) ==
    /\ pc[r] \in Polls /\ step[r] = "prepare" /\ r \notin aborted
    /\ LET q == Polled[pc[r]]
       IN  IF Mine(r, q)
           THEN /\ claim' = Unclaim(q)
                /\ Returned(r, claim[q].messages,
                            [deliveries EXCEPT ![claim[q].controller][q] = @ \o claim[q].messages],
                            queue)
           ELSE UNCHANGED claim /\ Returned(r, <<>>, deliveries, queue)
    /\ UNCHANGED <<accepted, mode, suppressed, gone, dropped, faults>>

\* It failed, its commit was refused, or the run was aborted.  A cancelled claim
\* is no failure.
PrepareFails(r) ==
    /\ pc[r] \in Polls /\ step[r] = "prepare"
    /\ LET q == Polled[pc[r]]
       IN  /\ Mine(r, q) \/ r \in aborted
           /\ claim' = IF Mine(r, q) THEN Unclaim(q) ELSE claim
           /\ Threw(r, deliveries, IF Mine(r, q) THEN Reclaim(q) ELSE queue, {blocked, TRUE})
    /\ Fault(r)
    /\ UNCHANGED <<accepted, mode, suppressed, gone, dropped>>

(***************************************************************************)
(* Turns.                                                                  *)
(***************************************************************************)
\* The turn opens: the messages in hand reach the transcript, and the model is
\* called.
OpenTurn(r) ==
    /\ pc[r] = "turn"
    /\ Emit(r)
    /\ deliveries' = Emitted(r, deliveries)
    /\ To(r, "model", <<>>)
    /\ UNCHANGED <<accepted, queue, mode, claim, ctl, aborted, streaming,
                   suppressed, blocked, gone, dropped, faults>>

\* A gate stops the run before the call, or a hook or the preparation of the
\* call throws: the messages are emitted all the same.
GateStops(r) ==
    /\ pc[r] = "turn"
    /\ Fault(r)
    /\ Emit(r)
    /\ deliveries' = Emitted(r, deliveries)
    /\ To(r, "ended", <<>>)
    /\ streaming' = (streaming /\ ctl # r)
    /\ UNCHANGED <<accepted, queue, mode, claim, ctl, aborted, suppressed, blocked, gone, dropped>>

TurnThrows(r) ==
    /\ pc[r] = "turn"
    /\ Fault(r)
    /\ UNCHANGED claim
    /\ Threw(r, deliveries, queue, {blocked})
    /\ UNCHANGED <<accepted, mode, suppressed, gone, dropped>>

\* The model answers or calls tools, whose results end the transcript.
ModelStep(r, kind, place) ==
    /\ pc[r] = "model"
    /\ tail' = IF ctl = r THEN kind ELSE tail
    /\ To(r, place, <<>>)
    /\ UNCHANGED <<accepted, queue, mode, claim, deliveries, ctl, aborted, got,
                   suppressed, blocked, gone, dropped>>

Answer(r) == ModelStep(r, "assistant", "stop") /\ UNCHANGED <<streaming, faults>>
CallTools(r) == ModelStep(r, "tool", "midwork") /\ UNCHANGED <<streaming, faults>>

\* The call is aborted or fails: an assistant message says so and the run ends.
ModelFails(r) ==
    /\ Fault(r)
    /\ streaming' = (streaming /\ ctl # r)
    /\ ModelStep(r, "assistant", "ended")

\* After agent_end the loop's finally is due.
Finish(r) ==
    /\ pc[r] = "ended"
    /\ Finally(r, deliveries, queue)
    /\ UNCHANGED <<accepted, mode, claim, got, tail, suppressed, blocked, gone, dropped, faults>>

(***************************************************************************)
(* The user and the session.                                               *)
(***************************************************************************)
\* A user message is queued: steer, followUp.
Enqueue(q) ==
    /\ Len(accepted) < MaxMessage
    /\ accepted' = Append(accepted, q)
    /\ queue' = [queue EXCEPT ![q] = Append(@, Len(accepted'))]
    /\ suppressed' = FALSE /\ blocked' = FALSE
    /\ UNCHANGED <<mode, claim, deliveries, ctl, aborted, streaming, got, tail,
                   runVars, gone, dropped, faults>>

\* A run takes the agent.  Which of the free slots it uses does not matter.
Begin(r, place, ms) ==
    /\ pc[r] = "free" /\ r = CHOOSE x \in Run : pc[x] = "free"
    /\ ~streaming
    /\ ctl' = r /\ streaming' = TRUE
    /\ To(r, place, ms)
    /\ UNCHANGED <<accepted, queue, mode, claim, deliveries, aborted, got, tail,
                   blocked, gone, dropped, faults>>

Prompt(r) == Begin(r, "initial", <<Own>>) /\ suppressed' = FALSE

\* #canAutoContinueForFollowUp: a follow-up alone needs a tail it can follow.
CanAutoContinue ==
    \/ Peek("steering") # <<>>
    \/ ~suppressed /\ tail \in {"assistant", "tool"}

\* Mutant: after a user's interrupt nothing is drained, steering neither.
DrainsUnlessInterrupted == ~blocked /\ ~suppressed /\ CanAutoContinue /\ HasQueued(queue, claim)

Drains == ~blocked /\ CanAutoContinue /\ HasQueued(queue, claim)

\* The session is idle and its drain calls continue().
Drain(r) ==
    /\ ctl = None /\ Drains
    /\ Begin(r, IF tail \in {"empty", "assistant"} THEN "openSteer" ELSE "initial", <<>>)
    /\ UNCHANGED suppressed

\* An abort, which a user's interrupt (Esc) makes by.
Abort(user) ==
    /\ ctl # None /\ ctl \notin aborted
    /\ faults < MaxFault /\ faults' = faults + 1
    /\ aborted' = aborted \cup {ctl}
    /\ suppressed' = (suppressed \/ user)
    /\ UNCHANGED <<accepted, queue, mode, claim, deliveries, ctl, streaming, got, tail,
                   runVars, blocked, gone, dropped>>

\* The queues are replaced by what is left of them: the claims are cancelled and
\* the records of the deliveries deleted, of the queues Q.  The session's changes,
\* which are of both, lift the block of the drain when nothing is left.
Change(Q, qs) ==
    /\ queue' = [q \in Queue |-> IF q \in Q THEN qs[q] ELSE queue[q]]
    /\ claim' = [q \in Queue |-> IF q \in Q THEN None ELSE claim[q]]
    /\ deliveries' = [r \in Run |-> [q \in Queue |-> IF q \in Q THEN <<>> ELSE deliveries[r][q]]]
    /\ dropped' = dropped \cup UNION {ToSet(deliveries[r][q]) : r \in Run, q \in Q}
    /\ gone' = gone \cup UNION {ToSet(Peek(q)) \ ToSet(qs[q]) : q \in Q}
    /\ blocked' = (blocked /\ (Q # Queue \/ HasQueued(queue', claim')))
    /\ UNCHANGED <<accepted, mode, ctl, aborted, streaming, got, tail, runVars, suppressed, faults>>

\* The user takes back the last queued message (Alt+Up), steering first.
Pop ==
    /\ \E q \in Queue : Peek(q) # <<>>
    /\ LET last == IF Peek("steering") # <<>> THEN "steering" ELSE "followUp"
       IN  Change(Queue, [q \in Queue |-> IF q = last THEN Front(Peek(q)) ELSE Peek(q)])

\* The user takes back everything (clearQueue, clearAllQueues), or one queue is
\* cleared (clearSteeringQueue, clearFollowUpQueue).
Clear(Q) == Change(Q, [q \in Queue |-> <<>>])

\* The conversation is dropped.  A preparation that is pending is abandoned with
\* its run; otherwise the callers have waited for the agent to be idle.
Reset ==
    LET claiming == \E q \in Queue : claim[q] # None
    IN  /\ claiming \/ ctl = None
        /\ accepted # <<>>
        /\ IF claiming THEN aborted' = aborted \cup ({ctl} \ {None}) /\ ctl' = None
           ELSE UNCHANGED <<aborted, ctl>>
        /\ got' = <<>> /\ tail' = "empty" /\ streaming' = FALSE
        /\ queue' = [q \in Queue |-> <<>>] /\ claim' = [q \in Queue |-> None]
        /\ deliveries' = [r \in Run |-> NoDelivery]
        /\ gone' = DOMAIN accepted /\ dropped' = {}
        /\ blocked' = FALSE
        /\ UNCHANGED <<accepted, mode, runVars, suppressed, faults>>

(***************************************************************************)
(* The specification.                                                      *)
(***************************************************************************)
RunStep(r) ==
    \/ StartPoll(r) \/ HooksEnd(r) \/ PrepareEnds(r)
    \/ OpenTurn(r) \/ Answer(r) \/ CallTools(r) \/ Finish(r)

Failure(r) ==
    HooksThrow(r) \/ PrepareFails(r) \/ GateStops(r) \/ TurnThrows(r) \/ ModelFails(r)

Next ==
    \/ \E r \in Run : RunStep(r) \/ Failure(r) \/ Prompt(r) \/ Drain(r)
    \/ \E q \in Queue : Enqueue(q)
    \/ \E user \in BOOLEAN : Abort(user)
    \/ Pop
    \/ \E Q \in {{"steering"}, {"followUp"}, Queue} : Clear(Q)
    \/ Reset

\* Runs go on, also when aborted; a run that uses tools answers in the end; and an
\* idle session drains its queues.
Fairness ==
    /\ \A r \in Run :
         /\ WF_vars(RunStep(r))
         /\ WF_vars(PrepareFails(r) /\ r \in aborted)
         /\ SF_vars(Answer(r))
    /\ WF_vars(\E r \in Run : Drain(r))

Spec == Init /\ [][Next]_vars /\ Fairness

(***************************************************************************)
(* Properties.                                                             *)
(***************************************************************************)
TypeOK ==
    /\ accepted \in Seq(Queue) /\ Len(accepted) <= MaxMessage
    /\ queue \in [Queue -> Seq(Message)]
    /\ mode \in [Queue -> BatchModes]
    /\ claim \in [Queue -> Claims \cup {None}]
    /\ deliveries \in [Run -> [Queue -> Seq(Message)]]
    /\ ctl \in Run \cup {None} /\ aborted \subseteq Run /\ streaming \in BOOLEAN
    /\ got \in Seq(Message)
    /\ tail \in {"empty", "user", "tool", "assistant"}
    /\ pc \in [Run -> Polls \cup {"free", "turn", "model", "ended"}]
    /\ step \in [Run -> {"start", "hooks", "prepare"}]
    /\ \A r \in Run : step[r] # "start" => pc[r] \in Polls
    /\ hand \in [Run -> Seq({Own} \cup Message)]
    /\ suppressed \in BOOLEAN /\ blocked \in BOOLEAN
    /\ gone \subseteq Message /\ dropped \subseteq Message /\ faults \in 0..MaxFault

\* What is still owed to the transcript of the messages of queue q: those the
\* current run has yet to emit, those it is preparing, and those that wait.
Owed(q) ==
    (IF ctl = None THEN <<>> ELSE deliveries[ctl][q])
      \o (IF claim[q] # None /\ claim[q].run = ctl THEN claim[q].messages ELSE <<>>)
      \o queue[q]

Line(q) == got \o Owed(q)
Of(q) == {m \in DOMAIN accepted : accepted[m] = q}

\* However runs claim, prepare, abort, fail and end, the messages of a queue are
\* in the transcript, with the current run, or in the queue: each once, in the
\* order they were queued.  Two kinds are left out: those that were withdrawn, and
\* those a run had in its hands when a change of the queue deleted the record of
\* their delivery (dropped): replaceQueues and the clears do, for all that agent.ts
\* says "Dequeued originals remain recoverable until their transcript events arrive".
Conserved ==
    \A q \in Queue :
        /\ ToSet(Owed(q)) \subseteq Of(q)
        /\ (Of(q) \cap ToSet(Line(q))) \ dropped = Of(q) \ (gone \cup dropped)
        /\ \A i, j \in DOMAIN Line(q) :
             /\ i < j
             /\ {Line(q)[i], Line(q)[j]} \subseteq Of(q) \ dropped
             => Line(q)[i] < Line(q)[j]

\* A run that a reset or a new prompt superseded changes nothing of the agent any
\* more: not the transcript, not the queues, not the state of its successor.
Moves(r) == <<pc[r], step[r], hand[r]>> # <<pc'[r], step'[r], hand'[r]>>

AbandonedIsSilent ==
    [][\A r \in Run : pc[r] # "free" /\ ctl # r /\ Moves(r)
         => UNCHANGED <<queue, claim, deliveries, ctl, streaming, got, tail>>]_vars

\* A queued message is delivered or withdrawn in the end, unless the drain is
\* blocked by its last failure, or only a follow-up is left that may not resume
\* the session by itself.
Waiting(m) == \E q \in Queue : m \in ToSet(Peek(q))
Served ==
    \A m \in Message :
        Waiting(m) ~> \/ /\ ~Waiting(m)
                         /\ m \notin UNION {ToSet(deliveries[r][q]) : r \in Run, q \in Queue}
                      \/ blocked
                      \/ ctl = None /\ ~CanAutoContinue
=============================================================================
