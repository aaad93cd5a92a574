-------------------------- MODULE AgentQueues_proof --------------------------
(***************************************************************************)
(* Proofs about AgentQueues for any number of runs, messages and faults.   *)
(* First what the runs do, whatever the queues hold: a claim belongs to    *)
(* the current run, which is waiting for that very preparation, and a run  *)
(* that was superseded is on its way out.  Then what the queues hold: the  *)
(* types, the order and completeness of each queue's messages, and that a  *)
(* superseded run leaves them alone.                                       *)
(***************************************************************************)
EXTENDS AgentQueues, TLAPS, WellFoundedInduction, SequenceTheorems

Place == Polls \cup {"free", "turn", "model", "ended"}

Shape ==
    /\ pc \in [Run -> Place]
    /\ step \in [Run -> {"start", "hooks", "prepare"}]
    /\ ctl \in Run \cup {None}
    /\ aborted \subseteq Run
    /\ streaming \in BOOLEAN
    /\ claim = [q \in Queue |-> claim[q]]

\* The current run is under way, and the agent is streaming until it has ended.
Current ==
    /\ ctl = None => ~streaming
    /\ ctl # None => pc[ctl] # "free" /\ (pc[ctl] # "ended" => streaming)

\* Preparing(r, q): run r waits for the preparation of a batch of queue q.
Preparing(r, q) == pc[r] \in Polls /\ step[r] = "prepare" /\ Polled[pc[r]] = q

\* A claim is held by the current run, which waits for its preparation: there is
\* never more than one.
ClaimsAreCurrent ==
    \A q \in Queue :
        claim[q] # None =>
            /\ ctl \in Run /\ Preparing(ctl, q)
            /\ claim[q].run = ctl /\ claim[q].controller = ctl

\* A run that is not the current one has ended, or waits for a preparation with
\* its signal aborted.
SupersededIsLeaving ==
    \A r \in Run :
        pc[r] # "free" /\ ctl # r =>
            \/ pc[r] = "ended"
            \/ r \in aborted /\ \E q \in Queue : Preparing(r, q)

IInv == Shape /\ Current /\ ClaimsAreCurrent /\ SupersededIsLeaving

(***************************************************************************)
(* What the steps do to the runs.                                          *)
(***************************************************************************)
\* Run r goes on to another place.
MovesTo(r, place) ==
    /\ place \in Place \ {"free"}
    /\ pc[r] \notin {"free", "ended"}
    /\ pc' = [pc EXCEPT ![r] = place]
    /\ step' = [step EXCEPT ![r] = "start"]
    /\ UNCHANGED <<ctl, aborted>>
    /\ IF place = "ended" THEN streaming' = (streaming /\ ctl # r) ELSE streaming' = streaming

\* Run r is over.
Ends(r) ==
    /\ pc[r] # "free"
    /\ pc' = [pc EXCEPT ![r] = "free"]
    /\ step' = [step EXCEPT ![r] = "start"]
    /\ aborted' = aborted \ {r}
    /\ IF ctl = r THEN ctl' = None /\ streaming' = FALSE ELSE UNCHANGED <<ctl, streaming>>

Proceeds(r) == Ends(r) \/ \E place \in Place : MovesTo(r, place)

\* A run that holds no claim proceeds.
Walks(r) == step[r] # "prepare" \/ pc[r] \notin Polls

\* A run begins a dequeue, or claims a batch.
Asks(r) ==
    /\ pc[r] \in Polls /\ step[r] = "start" /\ step' = [step EXCEPT ![r] = "hooks"]
    /\ UNCHANGED <<pc, ctl, aborted, streaming, claim>>

Claims_(r) ==
    /\ pc[r] \in Polls /\ step[r] = "hooks" /\ step' = [step EXCEPT ![r] = "prepare"]
    /\ \E ms : claim' = [claim EXCEPT ![Polled[pc[r]]] =
                            [run |-> r, controller |-> ctl, messages |-> ms]]
    /\ UNCHANGED <<pc, ctl, aborted, streaming>>

\* A preparation is over, and its claim with it.
Prepared(r) ==
    /\ pc[r] \in Polls /\ step[r] = "prepare"
    /\ Proceeds(r) /\ (r \in aborted => Ends(r))
    /\ LET q == Polled[pc[r]]
       IN  claim' = IF Mine(r, q) THEN Unclaim(q) ELSE claim

Begins(r) ==
    /\ pc[r] = "free" /\ ~streaming
    /\ \E place \in Polls : pc' = [pc EXCEPT ![r] = place]
    /\ step' = [step EXCEPT ![r] = "start"]
    /\ ctl' = r /\ streaming' = TRUE
    /\ UNCHANGED <<aborted, claim>>

RunEffect(r) ==
    \/ Walks(r) /\ Proceeds(r) /\ claim' = claim
    \/ Asks(r) \/ Claims_(r) \/ Prepared(r) \/ Begins(r)

\* Claims are cancelled; an abort; and a reset that abandons the current run.
HostEffect ==
    \/ /\ \E Q \in SUBSET Queue : claim' = [q \in Queue |-> IF q \in Q THEN None ELSE claim[q]]
       /\ UNCHANGED <<pc, step, ctl, aborted, streaming>>
    \/ /\ ctl # None /\ aborted' = aborted \cup {ctl}
       /\ UNCHANGED <<pc, step, ctl, streaming, claim>>
    \/ /\ claim' = [q \in Queue |-> None] /\ streaming' = FALSE
       /\ UNCHANGED <<pc, step>>
       /\ IF \E q \in Queue : claim[q] # None
          THEN aborted' = aborted \cup ({ctl} \ {None}) /\ ctl' = None
          ELSE ctl = None /\ UNCHANGED <<aborted, ctl>>

(***************************************************************************)
(* The invariant is inductive over these effects.                          *)
(***************************************************************************)
LEMMA PolledQueues == Polled \in [Polls -> Queue]
BY DEF Polled, Polls, Queue

LEMMA IInvInit == Init => IInv
<1> SUFFICES ASSUME Init PROVE IInv
  OBVIOUS
<1>1. Shape
  BY DEF Init, Shape, Place
<1>2. Current /\ SupersededIsLeaving
  BY DEF Init, Current, SupersededIsLeaving
<1>3. ClaimsAreCurrent
  BY DEF Init, ClaimsAreCurrent
<1> QED BY <1>1, <1>2, <1>3 DEF IInv

LEMMA EndsLeaving ==
  ASSUME IInv, NEW r \in Run, Ends(r)
  PROVE  SupersededIsLeaving'
<1> SUFFICES ASSUME NEW s \in Run, pc'[s] # "free", ctl' # s
             PROVE  (pc[s] = "ended" \/ (s \in aborted /\ \E q \in Queue : Preparing(s, q)))'
  BY DEF SupersededIsLeaving
<1>1. s # r /\ pc'[s] = pc[s] /\ step'[s] = step[s]
  BY DEF IInv, Shape, Ends
<1>2. (s \in aborted => s \in aborted') /\ \A q \in Queue : Preparing(s, q) => Preparing(s, q)'
  BY <1>1 DEF Ends, Preparing
<1>3. pc[s] = "ended" \/ (s \in aborted /\ \E q \in Queue : Preparing(s, q))
  <2>1. ctl # s
    BY <1>1 DEF Ends
  <2>2. pc[s] # "free"
    BY <1>1
  <2> QED BY <2>1, <2>2, Zenon DEF IInv, SupersededIsLeaving
<1> QED BY <1>1, <1>2, <1>3

LEMMA EndsKeeps ==
  ASSUME IInv, NEW r \in Run, Ends(r),
         claim' = claim, ctl = r => \A q \in Queue : claim[q] = None
  PROVE  IInv'
<1>1. Shape'
  BY DEF IInv, Shape, Ends, Place
<1>2. Current'
  BY QueuesAssumption DEF IInv, Shape, Current, Ends
<1>3. ClaimsAreCurrent'
  BY QueuesAssumption DEF IInv, Shape, ClaimsAreCurrent, Preparing, Ends
<1>4. SupersededIsLeaving'
  BY EndsLeaving
<1> QED BY <1>1, <1>2, <1>3, <1>4 DEF IInv

LEMMA WalksKeeps ==
  ASSUME IInv, NEW r \in Run, Walks(r), Proceeds(r), claim' = claim
  PROVE  IInv'
<1>0. ctl = r => \A q \in Queue : claim[q] = None
  BY DEF IInv, ClaimsAreCurrent, Preparing, Walks
<1>1. CASE Ends(r)
  BY <1>0, <1>1, EndsKeeps
<1>2. ASSUME NEW place \in Place, MovesTo(r, place) PROVE IInv'
  BY <1>2, QueuesAssumption DEF IInv, Shape, Current, ClaimsAreCurrent, SupersededIsLeaving,
                                Preparing,
     Walks, MovesTo, Place
<1> QED BY <1>1, <1>2 DEF Proceeds

LEMMA AsksKeeps ==
  ASSUME IInv, NEW r \in Run, Asks(r)
  PROVE  IInv'
BY QueuesAssumption DEF IInv, Shape, Current, ClaimsAreCurrent, SupersededIsLeaving, Preparing,
                        Asks, Place

LEMMA ClaimsKeeps ==
  ASSUME IInv, NEW r \in Run, Claims_(r)
  PROVE  IInv'
<1>1. r = ctl /\ \A q \in Queue : claim[q] = None
  BY QueuesAssumption, PolledQueues
     DEF IInv, Shape, ClaimsAreCurrent, SupersededIsLeaving, Preparing, Claims_, Place, Polls,
         Polled
<1>2. PICK ms : claim' = [claim EXCEPT ![Polled[pc[r]]] =
                             [run |-> r, controller |-> ctl, messages |-> ms]]
  BY DEF Claims_
<1>3. Polled[pc[r]] \in Queue
  BY PolledQueues DEF Claims_
<1>4. ClaimsAreCurrent'
  BY <1>1, <1>2, <1>3, QueuesAssumption DEF IInv, Shape, ClaimsAreCurrent, Preparing, Claims_
<1>5. Shape' /\ Current' /\ SupersededIsLeaving'
  BY <1>1, <1>2, <1>3, QueuesAssumption
     DEF IInv, Shape, Current, SupersededIsLeaving, Preparing, Claims_, Place
<1> QED BY <1>4, <1>5 DEF IInv

LEMMA PreparedKeeps ==
  ASSUME IInv, NEW r \in Run, Prepared(r)
  PROVE  IInv'
<1>1. Polled[pc[r]] \in Queue
  BY PolledQueues DEF Prepared
<1>2. claim' = [q \in Queue |-> IF ctl = r THEN None ELSE claim[q]]
  <2> DEFINE p == Polled[pc[r]]
  <2>1. \A q \in Queue : claim[q] # None /\ ctl = r => q = p
    BY DEF IInv, ClaimsAreCurrent, Preparing
  <2>2. CASE Mine(r, p)
    <3>1. ctl = r
      BY <1>1, <2>2 DEF IInv, ClaimsAreCurrent, Mine
    <3>2. claim' = [claim EXCEPT ![p] = None]
      BY <2>2 DEF Prepared, Unclaim
    <3> HIDE DEF p
    <3> QED BY <1>1, <2>1, <3>1, <3>2 DEF IInv, Shape
  <2>3. CASE ~Mine(r, p)
    <3>1. claim' = claim
      BY <2>3 DEF Prepared
    <3>2. ctl = r => claim[p] = None
      BY <1>1, <2>3 DEF IInv, ClaimsAreCurrent, Mine
    <3> HIDE DEF p
    <3> QED BY <2>1, <3>1, <3>2 DEF IInv, Shape
  <2> QED BY <2>2, <2>3
<1>3. CASE Ends(r)
  <2>1. Shape' /\ Current'
    BY <1>2, <1>3, QueuesAssumption DEF IInv, Shape, Current, Ends, Place
  <2>3. SupersededIsLeaving'
    BY <1>3, EndsLeaving
  <2>2. ClaimsAreCurrent'
    BY <1>2, <1>3, QueuesAssumption DEF IInv, Shape, ClaimsAreCurrent, Preparing, Ends
  <2> QED BY <2>1, <2>2, <2>3 DEF IInv
<1>4. ASSUME NEW place \in Place, MovesTo(r, place), r \notin aborted PROVE IInv'
  <2>1. ctl = r
    BY <1>4 DEF IInv, SupersededIsLeaving, MovesTo
  <2>2. ClaimsAreCurrent'
    BY <1>2, <2>1 DEF ClaimsAreCurrent
  <2>3. Shape' /\ Current'
    BY <1>2, <1>4, <2>1 DEF IInv, Shape, Current, MovesTo, Place
  <2>4. SupersededIsLeaving'
    BY <1>4, <2>1 DEF IInv, Shape, SupersededIsLeaving, Preparing, MovesTo
  <2> QED BY <2>2, <2>3, <2>4 DEF IInv
<1> QED BY <1>3, <1>4 DEF Prepared, Proceeds

LEMMA BeginsKeeps ==
  ASSUME IInv, NEW r \in Run, Begins(r)
  PROVE  IInv'
<1>1. ctl = None \/ pc[ctl] = "ended"
  BY DEF IInv, Current, Begins
<1>2. \A q \in Queue : claim[q] = None
  BY <1>1, QueuesAssumption DEF IInv, ClaimsAreCurrent, Preparing, Polls, Polled
<1>3. ClaimsAreCurrent'
  BY <1>2 DEF Begins, ClaimsAreCurrent
<1>4. Shape'
  BY DEF IInv, Shape, Begins, Place
<1>5. Current'
  BY QueuesAssumption DEF IInv, Shape, Begins, Current, Polls, Polled
<1>6. SupersededIsLeaving'
  <2> SUFFICES ASSUME NEW s \in Run, pc'[s] # "free", ctl' # s
               PROVE  (pc[s] = "ended" \/ (s \in aborted /\ \E q \in Queue : Preparing(s, q)))'
    BY DEF SupersededIsLeaving
  <2>1. s # r /\ pc'[s] = pc[s] /\ step'[s] = step[s]
    BY DEF IInv, Shape, Begins
  <2>2. (s \in aborted => s \in aborted') /\ \A q \in Queue : Preparing(s, q) => Preparing(s, q)'
    BY <2>1 DEF Begins, Preparing
  <2>3. pc[s] = "ended" \/ (s \in aborted /\ \E q \in Queue : Preparing(s, q))
    <3>1. pc[s] # "free"
      BY <2>1
    <3>2. CASE ctl # s
      BY <3>1, <3>2, Zenon DEF IInv, SupersededIsLeaving
    <3>3. CASE ctl = s
      BY <1>1, <3>3, QueuesAssumption
    <3> QED BY <3>2, <3>3
  <2> QED BY <2>1, <2>2, <2>3
<1> QED BY <1>3, <1>4, <1>5, <1>6 DEF IInv

LEMMA HostKeeps ==
  ASSUME IInv, HostEffect
  PROVE  IInv'
<1>1. ASSUME NEW Q \in SUBSET Queue, claim' = [q \in Queue |-> IF q \in Q THEN None ELSE claim[q]],
             UNCHANGED <<pc, step, ctl, aborted, streaming>>
      PROVE  IInv'
  BY <1>1 DEF IInv, Shape, Current, ClaimsAreCurrent, SupersededIsLeaving, Preparing
<1>2. CASE /\ ctl # None /\ aborted' = aborted \cup {ctl}
           /\ UNCHANGED <<pc, step, ctl, streaming, claim>>
  BY <1>2 DEF IInv, Shape, Current, ClaimsAreCurrent, SupersededIsLeaving, Preparing
<1>3. CASE /\ claim' = [q \in Queue |-> None] /\ streaming' = FALSE
           /\ UNCHANGED <<pc, step>>
           /\ IF \E q \in Queue : claim[q] # None
              THEN aborted' = aborted \cup ({ctl} \ {None}) /\ ctl' = None
              ELSE ctl = None /\ UNCHANGED <<aborted, ctl>>
  <2>1. ClaimsAreCurrent' /\ Shape' /\ Current'
    BY <1>3, QueuesAssumption DEF IInv, Shape, Current, ClaimsAreCurrent
  <2>2. SupersededIsLeaving'
    <3>1. ASSUME NEW s \in Run, pc[s] # "free", ctl = s, \E q \in Queue : claim[q] # None
          PROVE  \E q \in Queue : Preparing(s, q)
      BY <3>1 DEF IInv, ClaimsAreCurrent
    <3>2. \A s \in Run, q \in Queue : Preparing(s, q) => Preparing(s, q)'
      BY <1>3 DEF Preparing
    <3> QED BY <1>3, <3>1, <3>2, QueuesAssumption DEF IInv, SupersededIsLeaving
  <2> QED BY <2>1, <2>2 DEF IInv
<1> QED BY <1>1, <1>2, <1>3 DEF HostEffect

(***************************************************************************)
(* Every step has one of the effects.                                      *)
(***************************************************************************)
LEMMA FinallyEnds ==
  ASSUME NEW r, NEW ds, NEW qs, pc[r] # "free", Finally(r, ds, qs)
  PROVE  Ends(r)
BY DEF Finally, To, Ends

LEMMA ThrewEnds ==
  ASSUME NEW r, NEW ds, NEW qs, NEW block, pc[r] # "free", Threw(r, ds, qs, block)
  PROVE  Ends(r)
<1>1. PICK es : Finally(r, es, qs)
  BY DEF Threw
<1> QED BY <1>1, FinallyEnds

LEMMA GoesMoves ==
  ASSUME NEW r, NEW place \in Place \ {"free", "ended"}, NEW ms, NEW ds, NEW qs,
         pc[r] \in Polls, Goes(r, place, ms, ds, qs)
  PROVE  Proceeds(r)
<1>1. MovesTo(r, place)
  BY DEF Goes, To, MovesTo, Polls, Polled, Place
<1> QED BY <1>1 DEF Proceeds

LEMMA ReturnedProceeds ==
  ASSUME NEW r, NEW ms, NEW ds, NEW qs, pc[r] \in Polls, Returned(r, ms, ds, qs)
  PROVE  Proceeds(r)
<1>1. pc[r] # "free" /\ {"openFollow", "turn", "initial", "lateSteer", "lateFollow"}
                           \subseteq Place \ {"free", "ended"}
  BY DEF Polls, Polled, Place
<1> DEFINE all == hand[r] \o ms
<1>2. CASE Finally(r, ds, qs)
  BY <1>1, <1>2, FinallyEnds DEF Proceeds
<1>3. CASE Threw(r, ds, qs, {})
  BY <1>1, <1>3, ThrewEnds DEF Proceeds
<1>4. ASSUME NEW place \in {"openFollow", "turn", "initial", "lateSteer", "lateFollow"}, NEW es,
             Goes(r, place, es, ds, qs)
      PROVE  Proceeds(r)
  BY <1>1, <1>4, GoesMoves
<1>5. ASSUME To(r, "ended", <<>>), streaming' = (streaming /\ ctl # r), UNCHANGED <<ctl, aborted>>,
             pc[r] = "lateFollow"
      PROVE  Proceeds(r)
  <2>1. MovesTo(r, "ended")
    BY <1>5 DEF To, MovesTo, Place
  <2> QED BY <2>1 DEF Proceeds, Place
<1> QED BY <1>2, <1>3, <1>4, <1>5 DEF Returned

LEMMA PollEffects ==
  ASSUME NEW r \in Run,
         StartPoll(r) \/ HooksEnd(r) \/ HooksThrow(r) \/ PrepareEnds(r) \/ PrepareFails(r)
  PROVE  RunEffect(r)
<1>0. \A place \in Polls : place # "free"
  BY DEF Polls, Polled
<1>1. CASE StartPoll(r)
  <2>1. CASE Returned(r, <<>>, deliveries, queue) /\ claim' = claim
    BY <1>1, <2>1, ReturnedProceeds DEF StartPoll, Walks, RunEffect
  <2>2. CASE step' = [step EXCEPT ![r] = "hooks"] /\ UNCHANGED <<agentVars, pc, hand, blocked>>
    BY <1>1, <2>2 DEF StartPoll, Asks, RunEffect, agentVars
  <2> QED BY <1>1, <2>1, <2>2 DEF StartPoll
<1>2. CASE HooksEnd(r)
  <2>1. CASE Returned(r, <<>>, deliveries, queue) /\ claim' = claim
    BY <1>2, <2>1, ReturnedProceeds DEF HooksEnd, Walks, RunEffect
  <2>2. CASE Claim(r, Polled[pc[r]])
    BY <1>2, <2>2 DEF HooksEnd, Claim, Claims_, RunEffect
  <2> QED BY <1>2, <2>1, <2>2 DEF HooksEnd
<1>3. CASE HooksThrow(r)
  BY <1>0, <1>3, ThrewEnds DEF HooksThrow, Walks, Proceeds, RunEffect
<1>4. CASE PrepareEnds(r)
  <2>1. PICK ms, ds : Returned(r, ms, ds, queue)
    BY <1>4 DEF PrepareEnds
  <2>2. Proceeds(r)
    BY <1>4, <2>1, ReturnedProceeds DEF PrepareEnds
  <2> QED BY <1>4, <2>2 DEF PrepareEnds, Prepared, RunEffect
<1>5. CASE PrepareFails(r)
  <2>1. Ends(r)
    BY <1>0, <1>5, ThrewEnds DEF PrepareFails
  <2> QED BY <1>5, <2>1 DEF PrepareFails, Prepared, Proceeds, RunEffect
<1> QED BY <1>1, <1>2, <1>3, <1>4, <1>5

LEMMA TurnEffects ==
  ASSUME IInv, NEW r \in Run,
         OpenTurn(r) \/ GateStops(r) \/ TurnThrows(r) \/ Answer(r) \/ CallTools(r)
           \/ ModelFails(r) \/ Finish(r)
  PROVE  RunEffect(r)
<1>0. pc[r] \in {"turn", "model", "ended"} => Walks(r) /\ pc[r] # "free"
  BY DEF Walks, Polls, Polled
<1>1. CASE OpenTurn(r)
  <2>1. MovesTo(r, "model")
    BY <1>1 DEF OpenTurn, To, MovesTo, Place
  <2> QED BY <1>0, <1>1, <2>1 DEF OpenTurn, Proceeds, RunEffect, Place
<1>2. CASE GateStops(r)
  <2>1. MovesTo(r, "ended")
    BY <1>2 DEF GateStops, To, MovesTo, Place
  <2> QED BY <1>0, <1>2, <2>1 DEF GateStops, Proceeds, RunEffect, Place
<1>3. CASE TurnThrows(r)
  BY <1>0, <1>3, ThrewEnds DEF TurnThrows, Proceeds, RunEffect
<1>4. CASE Answer(r)
  <2>1. MovesTo(r, "stop")
    BY <1>4 DEF Answer, ModelStep, To, MovesTo, Place, Polls, Polled
  <2> QED BY <1>0, <1>4, <2>1 DEF Answer, ModelStep, MovesTo, Proceeds, RunEffect
<1>5. CASE CallTools(r)
  <2>1. MovesTo(r, "midwork")
    BY <1>5 DEF CallTools, ModelStep, To, MovesTo, Place, Polls, Polled
  <2> QED BY <1>0, <1>5, <2>1 DEF CallTools, ModelStep, MovesTo, Proceeds, RunEffect
<1>6. CASE ModelFails(r)
  <2>1. MovesTo(r, "ended")
    BY <1>6 DEF ModelFails, ModelStep, To, MovesTo, Place
  <2> QED BY <1>0, <1>6, <2>1 DEF ModelFails, ModelStep, Proceeds, RunEffect, Place
<1>7. CASE Finish(r)
  BY <1>0, <1>7, FinallyEnds DEF Finish, Proceeds, RunEffect
<1> QED BY <1>1, <1>2, <1>3, <1>4, <1>5, <1>6, <1>7

LEMMA BeginEffects ==
  ASSUME NEW r \in Run, Prompt(r) \/ Drain(r)
  PROVE  RunEffect(r)
<1>1. \A ms : \A place \in Polls : Begin(r, place, ms) => Begins(r)
  BY DEF Begin, To, Begins
<1>2. {"initial", "openSteer"} \subseteq Polls
  BY DEF Polls, Polled
<1> QED BY <1>1, <1>2 DEF Prompt, Drain, RunEffect

LEMMA HostEffects ==
  ASSUME IInv, NEW Q \in SUBSET Queue, NEW q \in Queue, NEW user \in BOOLEAN,
         Enqueue(q) \/ Abort(user) \/ Pop \/ Clear(Q) \/ Reset
  PROVE  HostEffect
<1>1. CASE Enqueue(q)
  <2>1. claim' = [k \in Queue |-> IF k \in {} THEN None ELSE claim[k]]
    BY <1>1 DEF Enqueue, IInv, Shape
  <2>2. \E R \in SUBSET Queue : claim' = [k \in Queue |-> IF k \in R THEN None ELSE claim[k]]
    <3> WITNESS {} \in SUBSET Queue
    <3> QED BY <2>1
  <2>3. UNCHANGED <<pc, step, ctl, aborted, streaming>>
    BY <1>1 DEF Enqueue, runVars
  <2> QED BY <2>2, <2>3 DEF HostEffect
<1>2. CASE Abort(user)
  BY <1>2 DEF Abort, HostEffect, runVars
<1>3. \A qs : \A R \in SUBSET Queue : Change(R, qs) => HostEffect
  BY DEF Change, HostEffect, runVars
<1>4. CASE Pop
  BY <1>3, <1>4 DEF Pop
<1>5. CASE Clear(Q)
  BY <1>3, <1>5 DEF Clear
<1>6. CASE Reset
  BY <1>6 DEF Reset, HostEffect, runVars
<1> QED BY <1>1, <1>2, <1>4, <1>5, <1>6

LEMMA IInvNext == IInv /\ [Next]_vars => IInv'
<1> SUFFICES ASSUME IInv, [Next]_vars PROVE IInv'
  OBVIOUS
<1>1. ASSUME NEW r \in Run, RunEffect(r) PROVE IInv'
  BY <1>1, WalksKeeps, AsksKeeps, ClaimsKeeps, PreparedKeeps, BeginsKeeps DEF RunEffect
<1>2. ASSUME NEW r \in Run, RunStep(r) \/ Failure(r) \/ Prompt(r) \/ Drain(r) PROVE IInv'
  BY <1>1, <1>2, PollEffects, TurnEffects, BeginEffects DEF RunStep, Failure
<1>3. {{"steering"}, {"followUp"}, Queue} \subseteq SUBSET Queue /\ Queue # {}
  BY DEF Queue
<1>4. ASSUME \/ \E q \in Queue : Enqueue(q)
             \/ \E user \in BOOLEAN : Abort(user)
             \/ Pop
             \/ \E Q \in {{"steering"}, {"followUp"}, Queue} : Clear(Q)
             \/ Reset
      PROVE  IInv'
  <2>1. HostEffect
    BY <1>3, <1>4, HostEffects
  <2> QED BY <2>1, HostKeeps
<1>5. CASE UNCHANGED vars
  BY <1>5 DEF vars, IInv, Shape, Current, ClaimsAreCurrent, SupersededIsLeaving, Preparing
<1> QED BY <1>2, <1>4, <1>5 DEF Next

\* A message is claimed at most once: whatever aborts, withdrawals, resets and
\* superseded runs do, a claim belongs to the current run, which is waiting for
\* that preparation (#queuedMessageClaims and #abortController of agent.ts).
THEOREM ClaimsHeld == Spec => []ClaimsAreCurrent
<1>1. IInv => ClaimsAreCurrent
  BY DEF IInv
<1> QED BY <1>1, IInvInit, IInvNext, PTL DEF Spec

\* There is one run at work: any other has ended or will find its signal aborted
\* when its preparation returns.
THEOREM OneRunAtWork == Spec => []SupersededIsLeaving
<1>1. IInv => SupersededIsLeaving
  BY DEF IInv
<1> QED BY <1>1, IInvInit, IInvNext, PTL DEF Spec

(***************************************************************************)
(* What a run that was superseded does to the claims, the transcript and   *)
(* the state of its successor: nothing.                                    *)
(***************************************************************************)
LEMMA FinallySpares ==
  ASSUME NEW r, NEW ds, NEW qs, ctl # r, Finally(r, ds, qs)
  PROVE  UNCHANGED <<ctl, streaming>>
BY DEF Finally

LEMMA ThrewSpares ==
  ASSUME NEW r, NEW ds, NEW qs, NEW block, ctl # r, Threw(r, ds, qs, block)
  PROVE  UNCHANGED <<ctl, streaming, got, tail>>
<1>1. PICK es : Finally(r, es, qs)
  BY DEF Threw
<1>2. UNCHANGED <<got, tail>>
  BY DEF Threw
<1> QED BY <1>1, <1>2, FinallySpares

LEMMA OwnStepSpares ==
  ASSUME IInv, NEW r \in Run, RunStep(r) \/ Failure(r), ctl # r
  PROVE  UNCHANGED <<claim, ctl, streaming, got, tail>>
<1>1. pc[r] # "free"
  BY DEF RunStep, Failure, StartPoll, HooksEnd, HooksThrow, PrepareEnds, PrepareFails, OpenTurn,
     GateStops, TurnThrows, Answer, CallTools, ModelFails, ModelStep, Finish, Polls, Polled
<1>2. pc[r] = "ended" \/ (r \in aborted /\ pc[r] \in Polls /\ step[r] = "prepare")
  BY <1>1 DEF IInv, SupersededIsLeaving, Preparing
<1>3. PrepareFails(r) \/ Finish(r)
  BY <1>2 DEF RunStep, Failure, StartPoll, HooksEnd, HooksThrow, PrepareEnds, OpenTurn,
     GateStops, TurnThrows, Answer, CallTools, ModelFails, ModelStep, Polls, Polled
<1>4. CASE Finish(r)
  BY <1>4, FinallySpares DEF Finish
<1>5. CASE PrepareFails(r)
  <2>1. ~Mine(r, Polled[pc[r]])
    BY <1>5, PolledQueues DEF PrepareFails, IInv, ClaimsAreCurrent, Mine
  <2>2. claim' = claim
    BY <1>5, <2>1 DEF PrepareFails
  <2>3. UNCHANGED <<ctl, streaming, got, tail>>
    BY <1>5, ThrewSpares DEF PrepareFails
  <2> QED BY <2>2, <2>3
<1> QED BY <1>3, <1>4, <1>5

\* A step of one run leaves the place of every other run alone.
LEMMA EffectIsLocal ==
  ASSUME IInv, NEW s \in Run, RunEffect(s), NEW r \in Run, r # s
  PROVE  pc'[r] = pc[r] /\ step'[r] = step[r]
BY DEF IInv, Shape, RunEffect, Proceeds, Ends, MovesTo, Asks, Claims_, Prepared, Begins

(***************************************************************************)
(* Sequences of messages, and how far a delivery advances: to its end,     *)
(* when its messages reach the transcript in their order.                  *)
(***************************************************************************)
\* The elements of s that are in X are in order, each once.
SortedOn(s, X) ==
    \A i, j \in 1..Len(s) : i < j /\ s[i] \in X /\ s[j] \in X => s[i] < s[j]

\* The elements of a sequence.
LEMMA SetIs ==
  ASSUME NEW S, NEW s \in Seq(S)
  PROVE  /\ \A x : x \in ToSet(s) <=> \E i \in 1..Len(s) : s[i] = x
         /\ ToSet(s) \subseteq S
BY DEF ToSet

\* A concatenation: its length, and where each element comes from.
LEMMA ConcatIs ==
  ASSUME NEW S, NEW s \in Seq(S), NEW t \in Seq(S)
  PROVE  /\ s \o t \in Seq(S)
         /\ Len(s) \in Nat /\ Len(t) \in Nat /\ Len(s \o t) = Len(s) + Len(t)
         /\ \A i \in 1..Len(s) : i \in 1..Len(s \o t) /\ (s \o t)[i] = s[i]
         /\ \A i \in 1..Len(t) : Len(s) + i \in 1..Len(s \o t) /\ (s \o t)[Len(s) + i] = t[i]
         /\ \A k \in 1..Len(s \o t) :
              \/ k \in 1..Len(s)
              \/ \E i \in 1..Len(t) : k = Len(s) + i
<1>1. ASSUME NEW k \in 1..Len(s \o t), k \notin 1..Len(s) PROVE \E i \in 1..Len(t) : k = Len(s) + i
  <2>1. k - Len(s) \in 1..Len(t) /\ k = Len(s) + (k - Len(s))
    BY <1>1
  <2> QED BY <2>1
<1> QED BY <1>1

\* The elements of a concatenation.
LEMMA SetConcat ==
  ASSUME NEW S, NEW s \in Seq(S), NEW t \in Seq(S)
  PROVE  ToSet(s \o t) = ToSet(s) \cup ToSet(t)
<1>0. /\ Len(s) \in Nat /\ Len(t) \in Nat /\ Len(s \o t) = Len(s) + Len(t)
      /\ \A i \in 1..Len(s) : i \in 1..Len(s \o t) /\ (s \o t)[i] = s[i]
      /\ \A i \in 1..Len(t) : Len(s) + i \in 1..Len(s \o t) /\ (s \o t)[Len(s) + i] = t[i]
      /\ \A k \in 1..Len(s \o t) :
              \/ k \in 1..Len(s)
              \/ \E i \in 1..Len(t) : k = Len(s) + i
  BY ConcatIs
<1>1. \A x : x \in ToSet(s) <=> \E i \in 1..Len(s) : s[i] = x
  BY SetIs
<1>2. \A x : x \in ToSet(t) <=> \E i \in 1..Len(t) : t[i] = x
  BY SetIs
<1>3. \A x : x \in ToSet(s \o t) <=> \E i \in 1..Len(s \o t) : (s \o t)[i] = x
  <2>1. s \o t \in Seq(S)
    BY ConcatIs
  <2> QED BY <2>1, SetIs
<1>4. ASSUME NEW x \in ToSet(s \o t) PROVE x \in ToSet(s) \cup ToSet(t)
  <2>1. PICK k \in 1..Len(s \o t) : (s \o t)[k] = x
    BY <1>3, <1>4
  <2>2. CASE k \in 1..Len(s)
    BY <1>0, <1>1, <2>1, <2>2
  <2>3. ASSUME NEW i \in 1..Len(t), k = Len(s) + i PROVE x \in ToSet(t)
    BY <1>0, <1>2, <2>1, <2>3
  <2> QED BY <1>0, <2>2, <2>3
<1>5. ASSUME NEW x \in ToSet(s) \cup ToSet(t) PROVE x \in ToSet(s \o t)
  <2>1. CASE x \in ToSet(s)
    BY <1>0, <1>1, <1>3, <2>1
  <2>2. CASE x \in ToSet(t)
    BY <1>0, <1>2, <1>3, <2>2
  <2> QED BY <1>5, <2>1, <2>2
<1> QED BY <1>4, <1>5

\* A concatenation is in order when its parts are, one after the other.
LEMMA SortedConcat ==
  ASSUME NEW s \in Seq(Nat), NEW t \in Seq(Nat), NEW X
  PROVE  SortedOn(s \o t, X) <=> /\ SortedOn(s, X) /\ SortedOn(t, X)
                                 /\ \A m \in ToSet(s) \cap X, n \in ToSet(t) \cap X : m < n
<1>0. /\ Len(s) \in Nat /\ Len(t) \in Nat /\ Len(s \o t) = Len(s) + Len(t)
      /\ \A i \in 1..Len(s) : i \in 1..Len(s \o t) /\ (s \o t)[i] = s[i]
      /\ \A i \in 1..Len(t) : Len(s) + i \in 1..Len(s \o t) /\ (s \o t)[Len(s) + i] = t[i]
      /\ \A k \in 1..Len(s \o t) :
              \/ k \in 1..Len(s)
              \/ \E i \in 1..Len(t) : k = Len(s) + i
  BY ConcatIs
<1>1. ASSUME SortedOn(s \o t, X) PROVE SortedOn(s, X)
  BY <1>0, <1>1 DEF SortedOn
<1>2. ASSUME SortedOn(s \o t, X) PROVE SortedOn(t, X)
  <2> SUFFICES ASSUME NEW i \in 1..Len(t), NEW j \in 1..Len(t), i < j,
                      t[i] \in X, t[j] \in X
               PROVE  t[i] < t[j]
    BY DEF SortedOn
  <2>1. (s \o t)[Len(s) + i] < (s \o t)[Len(s) + j]
    <3>1. Len(s) + i < Len(s) + j
      BY <1>0
    <3>2. /\ Len(s) + i \in 1..Len(s \o t) /\ (s \o t)[Len(s) + i] = t[i]
          /\ Len(s) + j \in 1..Len(s \o t) /\ (s \o t)[Len(s) + j] = t[j]
      BY <1>0
    <3> QED BY <1>2, <3>1, <3>2 DEF SortedOn
  <2>2. (s \o t)[Len(s) + i] = t[i] /\ (s \o t)[Len(s) + j] = t[j]
    BY <1>0
  <2> QED BY <2>1, <2>2
<1>3. ASSUME SortedOn(s \o t, X), NEW m \in ToSet(s) \cap X, NEW n \in ToSet(t) \cap X PROVE m < n
  <2>1. PICK i \in 1..Len(s), j \in 1..Len(t) : s[i] = m /\ t[j] = n
    BY <1>3, SetIs
  <2>2. (s \o t)[i] < (s \o t)[Len(s) + j]
    <3>1. i < Len(s) + j
      BY <1>0
    <3>2. /\ i \in 1..Len(s \o t) /\ (s \o t)[i] = s[i]
          /\ Len(s) + j \in 1..Len(s \o t) /\ (s \o t)[Len(s) + j] = t[j]
      BY <1>0
    <3> QED BY <1>3, <2>1, <3>1, <3>2 DEF SortedOn
  <2>3. (s \o t)[i] = s[i] /\ (s \o t)[Len(s) + j] = t[j]
    BY <1>0
  <2> QED BY <2>1, <2>2, <2>3
<1>4. ASSUME SortedOn(s, X), SortedOn(t, X),
             \A m \in ToSet(s) \cap X, n \in ToSet(t) \cap X : m < n
      PROVE  SortedOn(s \o t, X)
  <2> SUFFICES ASSUME NEW i \in 1..Len(s \o t), NEW j \in 1..Len(s \o t), i < j,
                      (s \o t)[i] \in X, (s \o t)[j] \in X
               PROVE  (s \o t)[i] < (s \o t)[j]
    BY DEF SortedOn
  <2>1. CASE j \in 1..Len(s)
    BY <1>0, <1>4, <2>1 DEF SortedOn
  <2>2. ASSUME NEW k \in 1..Len(t), j = Len(s) + k PROVE (s \o t)[i] < (s \o t)[j]
    <3>1. CASE i \in 1..Len(s)
      <4>1. s[i] \in ToSet(s) /\ t[k] \in ToSet(t)
        BY <3>1 DEF ToSet
      <4> QED BY <1>0, <1>4, <2>2, <3>1, <4>1
    <3>2. ASSUME NEW l \in 1..Len(t), i = Len(s) + l PROVE (s \o t)[i] < (s \o t)[j]
      <4>1. l < k
        BY <1>0, <2>2, <3>2
      <4> QED BY <1>0, <1>4, <2>2, <3>2, <4>1 DEF SortedOn
    <3> QED BY <1>0, <3>1, <3>2
  <2> QED BY <1>0, <2>1, <2>2
<1> QED BY <1>1, <1>2, <1>3, <1>4

\* A set of numbers has a least one.
LEMMA LeastElement ==
  ASSUME NEW T \in SUBSET Nat, T # {}
  PROVE  \E n \in T : \A k \in T : n <= k
<1>1. PICK n \in T : \A k \in Nat : <<k, n>> \in OpToRel(<, Nat) => k \notin T
  BY WFMin, NatLessThanWellFounded, Zenon
<1>2. \A k \in T : ~(k < n)
  BY <1>1 DEF OpToRel
<1> QED BY <1>2

\* next after one more message of ms.
OneMore(s, ms, n, k) == IF n < Len(s) /\ s[n + 1] = ms[k] THEN n + 1 ELSE n

\* f is the course of next over the first n messages.
Course(s, ms, f, n) ==
    f \in [0..n -> Nat] /\ f[0] = 0 /\ \A k \in 1..n : f[k] = OneMore(s, ms, f[k - 1], k)

\* The function of Advance exists, for any number of messages.
LEMMA CourseExists ==
  ASSUME NEW s \in Seq(Nat), NEW ms \in Seq(Nat), NEW n \in Nat
  PROVE  \E f : Course(s, ms, f, n)
<1> DEFINE T == {k \in Nat : ~\E f : Course(s, ms, f, k)}
<1> SUFFICES ASSUME T # {} PROVE FALSE
  OBVIOUS
<1>1. PICK k \in T : \A j \in T : k <= j
  <2> T \in SUBSET Nat
    OBVIOUS
  <2> HIDE DEF T
  <2> QED BY LeastElement
<1>2. k # 0
  <2>1. Course(s, ms, [j \in 0..0 |-> 0], 0)
    BY DEF Course
  <2> QED BY <2>1
<1>3. PICK f : Course(s, ms, f, k - 1)
  <2>1. k - 1 \in Nat /\ k - 1 \notin T
    BY <1>1, <1>2
  <2> QED BY <2>1
<1>4. OneMore(s, ms, f[k - 1], k) \in Nat
  BY <1>2, <1>3 DEF Course, OneMore
<1> DEFINE g == [j \in 0..k |-> IF j = k THEN OneMore(s, ms, f[k - 1], k) ELSE f[j]]
<1>5. Course(s, ms, g, k)
  <2>1. g \in [0..k -> Nat] /\ g[0] = 0
    BY <1>2, <1>3, <1>4 DEF Course
  <2>2. ASSUME NEW j \in 1..k PROVE g[j] = OneMore(s, ms, g[j - 1], j)
    <3>1. CASE j = k
      BY <1>2, <3>1
    <3>2. CASE j # k
      BY <1>2, <1>3, <3>2 DEF Course
    <3> QED BY <3>1, <3>2
  <2> HIDE DEF g
  <2> QED BY <2>1, <2>2 DEF Course
<1> QED BY <1>5

\* Advance is the end of that course.
LEMMA AdvanceIs ==
  ASSUME NEW s \in Seq(Nat), NEW ms \in Seq(Nat)
  PROVE  \E next : Course(s, ms, next, Len(ms)) /\ Advance(s, ms) = next[Len(ms)]
<1> DEFINE body(f) == [k \in 0..Len(ms) |-> IF k = 0 THEN 0
                        ELSE IF f[k - 1] < Len(s) /\ s[f[k - 1] + 1] = ms[k] THEN f[k - 1] + 1
                        ELSE f[k - 1]]
           next == CHOOSE f : f = body(f)
<1>1. Advance(s, ms) = next[Len(ms)]
  BY DEF Advance
<1>2. PICK f : Course(s, ms, f, Len(ms))
  BY CourseExists
<1>3. f = body(f)
  <2>1. f = [k \in 0..Len(ms) |-> f[k]]
    BY <1>2 DEF Course
  <2>2. ASSUME NEW k \in 0..Len(ms) PROVE f[k] = body(f)[k]
    <3>1. CASE k = 0
      BY <1>2, <3>1 DEF Course
    <3>2. CASE k # 0
      <4>1. k \in 1..Len(ms)
        BY <3>2
      <4> QED BY <1>2, <3>2, <4>1 DEF Course, OneMore
    <3> QED BY <3>1, <3>2
  <2> QED BY <2>1, <2>2
<1>4. next = body(next)
  <2> HIDE DEF body
  <2> QED BY <1>3
<1> DEFINE T == {k \in 0..Len(ms) : next[k] # f[k]}
<1>5. T = {}
  <2> SUFFICES ASSUME T # {} PROVE FALSE
    OBVIOUS
  <2>1. PICK k \in T : \A j \in T : k <= j
    <3> T \in SUBSET Nat
      OBVIOUS
    <3> HIDE DEF T
    <3> QED BY LeastElement
  <2> HIDE DEF next
  <2>2. k \in 0..Len(ms) /\ next[k] # f[k] /\ \A j \in 0..Len(ms) : next[j] # f[j] => k <= j
    BY <2>1
  <2> HIDE DEF T
  <2>3. \A g : g = body(g) => g[0] = 0
    OBVIOUS
  <2>4. next[0] = f[0]
    BY <1>3, <1>4, <2>3
  <2>5. k - 1 \in 0..Len(ms)
    BY <2>2, <2>4
  <2>6. next[k - 1] = f[k - 1]
    BY <2>2, <2>5
  <2>7. body(next)[k] = body(f)[k]
    BY <2>2, <2>6
  <2> QED BY <1>3, <1>4, <2>2, <2>7
<1> QED BY <1>1, <1>2, <1>5

\* The messages of s have their place in ms, in order.
Follows(s, ms) ==
    /\ \A i, j \in 1..Len(s) : i < j => s[i] < s[j]
    /\ \A i \in 1..Len(s) : \E j \in 1..Len(ms) : ms[j] = s[i]
    /\ \A i, j \in 1..Len(ms) : \A m, n \in 1..Len(s) :
          i < j /\ ms[i] = s[m] /\ ms[j] = s[n] => ms[i] < ms[j]

\* next counts the messages of s among the first k of ms.
Passed(s, ms, n, k) ==
    /\ n \in 0..Len(s)
    /\ \A i \in 1..Len(s) : (i <= n) <=> (\E j \in 1..k : ms[j] = s[i])

\* One more message moves next when it is the one next points at.
LEMMA PassedOne ==
  ASSUME NEW s \in Seq(Nat), NEW ms \in Seq(Nat), Follows(s, ms),
         NEW k \in 1..Len(ms), NEW n, Passed(s, ms, n, k - 1)
  PROVE  Passed(s, ms, OneMore(s, ms, n, k), k)
<1>0. /\ n \in Nat /\ n <= Len(s) /\ Len(s) \in Nat /\ Len(ms) \in Nat /\ k \in Nat /\ 1 <= k
      /\ \A i \in 1..Len(s) : s[i] \in Nat
      /\ \A i \in 1..Len(ms) : ms[i] \in Nat
  BY DEF Passed
<1>1. \A j \in 1..k : j \in 1..(k - 1) \/ j = k
  BY <1>0
<1>2. \A j \in 1..(k - 1) : j \in 1..k
  BY <1>0
<1>3. CASE n < Len(s) /\ s[n + 1] = ms[k]
  <2>1. OneMore(s, ms, n, k) = n + 1 /\ n + 1 \in 1..Len(s)
    BY <1>0, <1>3 DEF OneMore
  <2>2. ASSUME NEW i \in 1..Len(s) PROVE (i <= n + 1) <=> (\E j \in 1..k : ms[j] = s[i])
    <3>1. (ms[k] = s[i]) <=> (i = n + 1)
      <4>1. i < n + 1 => s[i] < s[n + 1]
        BY <2>1 DEF Follows
      <4>2. n + 1 < i => s[n + 1] < s[i]
        BY <2>1 DEF Follows
      <4> QED BY <1>0, <1>3, <2>1, <4>1, <4>2
    <3>2. (i <= n) <=> (\E j \in 1..(k - 1) : ms[j] = s[i])
      BY DEF Passed
    <3>3. (\E j \in 1..k : ms[j] = s[i]) <=> (ms[k] = s[i] \/ \E j \in 1..(k - 1) : ms[j] = s[i])
      BY <1>0, <1>1, <1>2
    <3> QED BY <1>0, <3>1, <3>2, <3>3
  <2> QED BY <1>0, <2>1, <2>2 DEF Passed
<1>4. CASE ~(n < Len(s) /\ s[n + 1] = ms[k])
  <2>1. OneMore(s, ms, n, k) = n
    BY <1>4 DEF OneMore
  <2>2. ASSUME NEW i \in 1..Len(s), ms[k] = s[i], i > n PROVE FALSE
    <3>1. n + 1 \in 1..Len(s) /\ n + 1 < i
      BY <1>0, <1>4, <2>2
    <3>2. s[n + 1] < s[i]
      BY <3>1 DEF Follows
    <3>3. PICK j \in 1..Len(ms) : ms[j] = s[n + 1]
      BY <3>1 DEF Follows
    <3>4. j \notin 1..(k - 1)
      BY <1>0, <3>1, <3>3 DEF Passed
    <3>5. k < j
      <4>1. s[n + 1] # s[i]
        BY <1>0, <3>1, <3>2
      <4>2. j # k
        BY <2>2, <3>3, <4>1
      <4> QED BY <1>0, <3>3, <3>4, <4>2
    <3>6. ms[k] < ms[j]
      <4>1. \A a, b \in 1..Len(ms) : \A u, v \in 1..Len(s) :
                 a < b /\ ms[a] = s[u] /\ ms[b] = s[v] => ms[a] < ms[b]
        BY DEF Follows
      <4> QED BY <2>2, <3>1, <3>3, <3>5, <4>1, Zenon
    <3>7. s[i] \in Nat /\ s[n + 1] \in Nat
      BY <1>0, <3>1
    <3>8. s[i] < s[n + 1]
      BY <2>2, <3>3, <3>6, Zenon
    <3> QED BY <3>2, <3>7, <3>8
  <2>3. ASSUME NEW i \in 1..Len(s) PROVE (i <= n) <=> (\E j \in 1..k : ms[j] = s[i])
    <3>1. (i <= n) <=> (\E j \in 1..(k - 1) : ms[j] = s[i])
      BY DEF Passed
    <3>2. ms[k] = s[i] => i <= n
      BY <1>0, <2>2
    <3> QED BY <1>1, <1>2, <3>1, <3>2
  <2> QED BY <2>1, <2>3 DEF Passed
<1> QED BY <1>3, <1>4

\* A delivery whose messages reach the transcript in order is complete.
LEMMA AdvancesToEnd ==
  ASSUME NEW s \in Seq(Nat), NEW ms \in Seq(Nat), Follows(s, ms)
  PROVE  Advance(s, ms) = Len(s)
<1>1. PICK f : Course(s, ms, f, Len(ms)) /\ Advance(s, ms) = f[Len(ms)]
  BY AdvanceIs
<1> DEFINE T == {k \in 0..Len(ms) : ~Passed(s, ms, f[k], k)}
<1>2. T = {}
  <2> SUFFICES ASSUME T # {} PROVE FALSE
    OBVIOUS
  <2>1. PICK k \in T : \A j \in T : k <= j
    <3> T \in SUBSET Nat
      OBVIOUS
    <3> HIDE DEF T
    <3> QED BY LeastElement
  <2>2. k \in Nat /\ k <= Len(ms) /\ ~Passed(s, ms, f[k], k)
        /\ \A j \in 0..Len(ms) : j < k => Passed(s, ms, f[j], j)
    BY <2>1
  <2> HIDE DEF T
  <2>3. Passed(s, ms, f[0], 0)
    BY <1>1 DEF Course, Passed
  <2>4. k \in 1..Len(ms) /\ k - 1 \in 0..Len(ms) /\ k - 1 < k
    BY <2>2, <2>3
  <2>5. Passed(s, ms, f[k - 1], k - 1)
    BY <2>2, <2>4
  <2>6. f[k] = OneMore(s, ms, f[k - 1], k)
    BY <1>1, <2>4 DEF Course
  <2> QED BY <2>2, <2>4, <2>5, <2>6, PassedOne
<1>3. Passed(s, ms, f[Len(ms)], Len(ms))
  BY <1>2
<1>4. \A i \in 1..Len(s) : i <= f[Len(ms)]
  BY <1>3 DEF Follows, Passed
<1> QED BY <1>1, <1>3, <1>4 DEF Passed

(***************************************************************************)
(* Types.                                                                  *)
(***************************************************************************)
Lists == [Queue -> Seq(Message)]

\* What a queue's lists and the records of the deliveries are.
Records == [Run -> Lists]

\* The parts of TypeOK: what runs change, the claims, and the rest.
RunTyped ==
    /\ queue \in Lists /\ deliveries \in Records
    /\ ctl \in Run \cup {None} /\ aborted \subseteq Run /\ streaming \in BOOLEAN
    /\ got \in Seq(Message) /\ tail \in {"empty", "user", "tool", "assistant"}
    /\ pc \in [Run -> Place] /\ step \in [Run -> {"start", "hooks", "prepare"}]
    /\ \A r \in Run : step[r] # "start" => pc[r] \in Polls
    /\ hand \in [Run -> Seq({Own} \cup Message)]
    /\ blocked \in BOOLEAN

ClaimTyped == claim \in [Queue -> Claims \cup {None}]

RestTyped ==
    /\ accepted \in Seq(Queue) /\ Len(accepted) <= MaxMessage
    /\ mode \in [Queue -> BatchModes]
    /\ suppressed \in BOOLEAN
    /\ gone \subseteq Message /\ dropped \subseteq Message /\ faults \in 0..MaxFault

\* TypeOK is its parts, in this state
LEMMA TypeParts == TypeOK <=> RunTyped /\ ClaimTyped /\ RestTyped
BY DEF TypeOK, RunTyped, ClaimTyped, RestTyped, Lists, Records, Place

\* and in the next.
LEMMA TypePartsNext == RunTyped' /\ ClaimTyped' /\ RestTyped' => TypeOK'
BY DEF TypeOK, RunTyped, ClaimTyped, RestTyped, Lists, Records, Place

\* Nothing is a list of any kind.
LEMMA EmptyIsTyped ==
  NoDelivery \in Lists /\ <<>> \in Seq(Message) /\ <<>> \in Seq({Own} \cup Message)
BY DEF NoDelivery, Lists

\* What a prompt leaves out is the first in hand, if any.
OwnFirst(ms) == \A i \in 1..Len(ms) : ms[i] = Own => i = 1

\* A sequence is one of the set its elements are in.
LEMMA ElementsType ==
  ASSUME NEW S, NEW T, NEW s \in Seq(S), \A i \in 1..Len(s) : s[i] \in T
  PROVE  s \in Seq(T)
<1>1. Len(s) \in Nat /\ s \in [1..Len(s) -> T]
  <2>1. s \in [1..Len(s) -> S] /\ Len(s) \in Nat
    BY LenProperties
  <2> QED BY <2>1
<1> QED BY <1>1

LEMMA InSet ==
  ASSUME NEW S, NEW s \in Seq(S), NEW i \in 1..Len(s)
  PROVE  s[i] \in ToSet(s)
BY SetIs

\* What a run has from the queues is what it has but the message of its prompt.
LEMMA FromQueuesIs ==
  ASSUME NEW ms \in Seq({Own} \cup Message), OwnFirst(ms)
  PROVE  /\ FromQueues(ms) \in Seq(Message)
         /\ ToSet(FromQueues(ms)) = ToSet(ms) \ {Own}
<1>0. Len(ms) \in Nat /\ \A i \in 1..Len(ms) : ms[i] \in {Own} \cup Message
  OBVIOUS
<1>1. CASE ms # <<>> /\ Head(ms) = Own
  <2>1. FromQueues(ms) = Tail(ms) /\ ms[1] = Own
    BY <1>1 DEF FromQueues
  <2>2. /\ Len(Tail(ms)) = Len(ms) - 1 /\ Len(ms) # 0
        /\ \A i \in 1..(Len(ms) - 1) : Tail(ms)[i] = ms[i + 1]
        /\ Tail(ms) \in Seq({Own} \cup Message)
    BY <1>1
  <2>3. \A i \in 1..(Len(ms) - 1) : i + 1 \in 1..Len(ms) /\ i + 1 # 1
    BY <1>0, <2>2
  <2>4. \A i \in 1..(Len(ms) - 1) : Tail(ms)[i] \in Message
    BY <1>0, <2>2, <2>3 DEF OwnFirst
  <2>5. Tail(ms) \in Seq(Message)
    <3>1. \A i \in 1..Len(Tail(ms)) : Tail(ms)[i] \in Message
      BY <2>2, <2>4
    <3> QED BY <2>2, <3>1, ElementsType
  <2>6. ASSUME NEW x \in ToSet(Tail(ms)) PROVE x \in ToSet(ms) \ {Own}
    <3>1. PICK i \in 1..(Len(ms) - 1) : Tail(ms)[i] = x
      BY <2>2, <2>5, <2>6, SetIs
    <3>2. x = ms[i + 1] /\ i + 1 \in 1..Len(ms) /\ x # Own
      BY <2>2, <2>3, <3>1 DEF OwnFirst
    <3> QED BY <3>2, SetIs
  <2>7. ASSUME NEW x \in ToSet(ms) \ {Own} PROVE x \in ToSet(Tail(ms))
    <3>1. PICK i \in 1..Len(ms) : ms[i] = x
      BY <2>7, SetIs
    <3>2. i # 1
      BY <2>1, <2>7, <3>1
    <3>3. i - 1 \in 1..(Len(ms) - 1) /\ (i - 1) + 1 = i
      BY <1>0, <3>2
    <3>4. Tail(ms)[i - 1] = x
      BY <2>2, <3>1, <3>3
    <3>5. i - 1 \in 1..Len(Tail(ms))
      BY <2>2, <3>3
    <3> QED BY <2>5, <3>4, <3>5, InSet
  <2> QED BY <2>1, <2>5, <2>6, <2>7
<1>2. CASE ~(ms # <<>> /\ Head(ms) = Own)
  <2>1. FromQueues(ms) = ms
    BY <1>2 DEF FromQueues
  <2>2. \A i \in 1..Len(ms) : ms[i] # Own
    BY <1>0, <1>2 DEF OwnFirst
  <2>3. ms \in Seq(Message) /\ Own \notin ToSet(ms)
    BY <1>0, <2>2, SetIs
  <2> QED BY <2>1, <2>3
<1> QED BY <1>1, <1>2

\* What is left of a delivery is a list of messages
LEMMA AdvanceTyped ==
  ASSUME NEW s \in Seq(Message), NEW ms \in Seq({Own} \cup Message)
  PROVE  /\ Advance(s, ms) \in Nat
         /\ SubSeq(s, Advance(s, ms) + 1, Len(s)) \in Seq(Message)
<1>1. s \in Seq(Nat) /\ ms \in Seq(Nat)
  BY QueuesAssumption DEF Message, Own
<1>2. PICK f : Course(s, ms, f, Len(ms)) /\ Advance(s, ms) = f[Len(ms)]
  BY <1>1, AdvanceIs
<1>3. f[Len(ms)] \in Nat
  BY <1>2 DEF Course
<1> QED BY <1>2, <1>3

\* and what is left of all of them is such a record.
LEMMA AppendTyped ==
  ASSUME NEW ds \in Records, NEW ms \in Seq({Own} \cup Message)
  PROVE  AppendMessages(ds, ms) \in Records
BY AdvanceTyped DEF AppendMessages, Records, Lists

\* A prompt's message is the first in its run's hand.
OwnLeads == \A r \in Run : OwnFirst(hand[r])

LEMMA HasQueuedTyped == \A qs, cl : HasQueued(qs, cl) \in BOOLEAN
BY DEF HasQueued

\* The types of what the helpers of the actions change.
LEMMA ToTyped ==
  ASSUME RunTyped, NEW r \in Run, NEW place \in Place, NEW ms \in Seq({Own} \cup Message),
         To(r, place, ms)
  PROVE  /\ pc' \in [Run -> Place] /\ step' \in [Run -> {"start", "hooks", "prepare"}]
         /\ \A s \in Run : step'[s] # "start" => pc'[s] \in Polls
         /\ hand' \in [Run -> Seq({Own} \cup Message)]
<1>1. pc' \in [Run -> Place] /\ step' \in [Run -> {"start", "hooks", "prepare"}]
  BY DEF RunTyped, To
<1>2. \A s \in Run : step'[s] # "start" => pc'[s] \in Polls
  BY DEF RunTyped, To
<1>3. hand' \in [Run -> Seq({Own} \cup Message)]
  <2> DEFINE T == Seq({Own} \cup Message)
  <2>1. hand \in [Run -> T] /\ ms \in T /\ hand' = [hand EXCEPT ![r] = ms]
    BY DEF RunTyped, To
  <2> HIDE DEF T
  <2>2. hand' \in [Run -> T]
    BY <2>1
  <2> QED BY <2>2 DEF T
<1> QED BY <1>1, <1>2, <1>3

LEMMA FinallyTyped ==
  ASSUME RunTyped, NEW r \in Run, NEW ds \in Records, NEW qs \in Lists, Finally(r, ds, qs)
  PROVE  /\ queue' \in Lists /\ deliveries' \in Records
         /\ ctl' \in Run \cup {None} /\ aborted' \subseteq Run /\ streaming' \in BOOLEAN
         /\ pc' \in [Run -> Place] /\ step' \in [Run -> {"start", "hooks", "prepare"}]
         /\ \A s \in Run : step'[s] # "start" => pc'[s] \in Polls
         /\ hand' \in [Run -> Seq({Own} \cup Message)]
<1>1. "free" \in Place /\ <<>> \in Seq({Own} \cup Message)
  BY DEF Place
<1>2. To(r, "free", <<>>)
  BY DEF Finally
<1>3. deliveries' \in Records
  <2>1. deliveries' = [ds EXCEPT ![r] = NoDelivery]
    BY DEF Finally, Others
  <2> QED BY <2>1, EmptyIsTyped DEF Records
<1>4. queue' \in Lists
  <2>1. queue' = [q \in Queue |-> ds[r][q] \o qs[q]]
    BY DEF Finally, Restored
  <2>2. \A q \in Queue : ds[r][q] \in Seq(Message) /\ qs[q] \in Seq(Message)
    BY DEF Records, Lists
  <2>3. \A q \in Queue : ds[r][q] \o qs[q] \in Seq(Message)
    BY <2>2
  <2> QED BY <2>1, <2>3 DEF Lists
<1>5. ctl' \in Run \cup {None} /\ aborted' \subseteq Run /\ streaming' \in BOOLEAN
  BY DEF Finally, RunTyped
<1> QED BY <1>1, <1>2, <1>3, <1>4, <1>5, ToTyped

LEMMA EmittedTyped ==
  ASSUME RunTyped, OwnLeads, NEW r \in Run, NEW ds \in Records
  PROVE  Emitted(r, ds) \in Records /\ got \o FromQueues(hand[r]) \in Seq(Message)
<1>1. hand[r] \in Seq({Own} \cup Message) /\ got \in Seq(Message)
  BY DEF RunTyped
<1>2. FromQueues(hand[r]) \in Seq(Message)
  BY <1>1, FromQueuesIs DEF OwnLeads
<1>3. Emitted(r, ds) \in Records
  BY <1>1, AppendTyped DEF Emitted
<1> QED BY <1>1, <1>2, <1>3

LEMMA ThrewTyped ==
  ASSUME RunTyped, OwnLeads, NEW r \in Run, NEW ds \in Records, NEW qs \in Lists,
         NEW block \in SUBSET BOOLEAN, Threw(r, ds, qs, block)
  PROVE  RunTyped'
<1>1. CASE pc[r] \in Opening
  <2>1. Finally(r, ds, qs) /\ UNCHANGED <<got, tail>> /\ blocked' = HasQueued(queue', claim')
    BY <1>1 DEF Threw
  <2>2. blocked' \in BOOLEAN
    BY <2>1, HasQueuedTyped
  <2> QED BY <2>1, <2>2, FinallyTyped DEF RunTyped
<1>2. CASE pc[r] \notin Opening
  <2>1. PICK es \in Records : Finally(r, es, qs)
    BY <1>2, EmittedTyped DEF Threw
  <2>2. /\ got' = got \/ got' = got \o FromQueues(hand[r])
        /\ tail' \in {"assistant", tail} /\ blocked' \in BOOLEAN
    BY <1>2 DEF Threw
  <2>3. got' \in Seq(Message) /\ tail' \in {"empty", "user", "tool", "assistant"}
    BY <2>2, EmittedTyped DEF RunTyped
  <2> QED BY <2>1, <2>2, <2>3, FinallyTyped DEF RunTyped
<1> QED BY <1>1, <1>2

LEMMA GoesTyped ==
  ASSUME RunTyped, NEW r \in Run, NEW ds \in Records, NEW qs \in Lists,
         NEW place \in Place, NEW ms \in Seq({Own} \cup Message), Goes(r, place, ms, ds, qs)
  PROVE  RunTyped'
<1>1. To(r, place, ms) /\ deliveries' = ds /\ queue' = qs
      /\ UNCHANGED <<ctl, aborted, streaming, got, tail, blocked>>
  BY DEF Goes
<1> QED BY <1>1, ToTyped DEF RunTyped

LEMMA ReturnedTyped ==
  ASSUME RunTyped, OwnLeads, NEW r \in Run, NEW ds \in Records, NEW qs \in Lists,
         NEW ms \in Seq(Message), Returned(r, ms, ds, qs)
  PROVE  RunTyped'
<1>0. /\ {"openFollow", "turn", "initial", "lateSteer", "lateFollow", "ended"} \subseteq Place
      /\ {} \in SUBSET BOOLEAN
  BY DEF Place, Polls, Polled
<1>1. ms \in Seq({Own} \cup Message) /\ hand[r] \o ms \in Seq({Own} \cup Message)
  <2>1. ms \in Seq({Own} \cup Message)
    BY SeqMonotonic
  <2>2. hand[r] \in Seq({Own} \cup Message)
    BY DEF RunTyped
  <2> QED BY <2>1, <2>2
<1>2. CASE Finally(r, ds, qs) /\ UNCHANGED <<got, tail, blocked>>
  BY <1>2, FinallyTyped DEF RunTyped
<1>3. CASE Threw(r, ds, qs, {})
  BY <1>0, <1>3, ThrewTyped
<1>4. ASSUME NEW place \in {"openFollow", "turn", "initial", "lateSteer", "lateFollow"},
             NEW es \in {ms, hand[r] \o ms}, Goes(r, place, es, ds, qs)
      PROVE  RunTyped'
  BY <1>0, <1>1, <1>4, GoesTyped
<1>5. ASSUME To(r, "ended", <<>>), streaming' = (streaming /\ ctl # r),
             deliveries' = ds, queue' = qs,
             UNCHANGED <<ctl, aborted, got, tail, blocked>>
      PROVE  RunTyped'
  <2>1. <<>> \in Seq({Own} \cup Message)
    OBVIOUS
  <2> QED BY <1>0, <1>5, <2>1, ToTyped DEF RunTyped
<1> QED BY <1>2, <1>3, <1>4, <1>5 DEF Returned

\* A run under way, if it is not waiting for a preparation it no longer owns, is the
\* current one.
LEMMA AtWork ==
  ASSUME IInv, NEW r \in Run, pc[r] \notin {"free", "ended"},
         r \notin aborted \/ pc[r] \notin Polls \/ step[r] # "prepare"
  PROVE  ctl = r
BY DEF IInv, SupersededIsLeaving, Preparing

LEMMA PollsAre ==
  \A p \in Polls : /\ p \notin {"free", "ended", "turn", "model"}
                   /\ Polled[p] \in Queue /\ p \in Place
BY DEF Polls, Polled, Queue, Place

\* A batch is not empty, and the queue is the batch and the rest.
LEMMA BatchIs ==
  ASSUME TypeOK, NEW q \in Queue, queue[q] # <<>>
  PROVE  /\ Batch(q) \in Seq(Message) \ {<<>>} /\ Rest(q) \in Seq(Message)
         /\ Batch(q) \o Rest(q) = queue[q]
<1>0. queue[q] \in Seq(Message) /\ Len(queue[q]) \in Nat /\ Len(queue[q]) # 0
  BY DEF TypeOK
<1>1. CASE mode[q] = "all"
  BY <1>0, <1>1, ConcatEmptySeq DEF Batch, Rest
<1>2. CASE mode[q] # "all"
  <2>1. Batch(q) = SubSeq(queue[q], 1, 1) /\ Rest(q) = SubSeq(queue[q], 2, Len(queue[q]))
    BY <1>0, <1>2, TailIsSubSeq DEF Batch, Rest
  <2>2. SubSeq(queue[q], 1, 1) \o SubSeq(queue[q], 2, Len(queue[q]))
          = SubSeq(queue[q], 1, Len(queue[q]))
    <3>1. /\ 1 \in 1..(Len(queue[q]) + 1) /\ 1 \in 0..Len(queue[q])
          /\ Len(queue[q]) \in 1..Len(queue[q])
          /\ 1 + 1 = 2 /\ 1 - 1 = 0
      BY <1>0
    <3> QED BY <1>0, <3>1, ConcatAdjacentSubSeq
  <2>3. SubSeq(queue[q], 1, Len(queue[q])) = queue[q]
    BY <1>0, SubSeqFull
  <2>4. SubSeq(queue[q], 1, 1) \in Seq(Message) /\ Len(SubSeq(queue[q], 1, 1)) = 1
        /\ SubSeq(queue[q], 2, Len(queue[q])) \in Seq(Message)
    BY <1>0
  <2>5. SubSeq(queue[q], 1, 1) # <<>>
    BY <2>4
  <2> QED BY <2>1, <2>2, <2>3, <2>4, <2>5
<1> QED BY <1>1, <1>2

LEMMA ClaimIs ==
  ASSUME ClaimTyped, NEW q \in Queue, claim[q] # None
  PROVE  /\ claim[q].run \in Run /\ claim[q].controller \in Run
         /\ claim[q].messages \in Seq(Message) \ {<<>>}
BY DEF ClaimTyped, Claims

\* The steps of a poll keep the types
LEMMA PollTyped ==
  ASSUME TypeOK, IInv, OwnLeads, NEW r \in Run,
         StartPoll(r) \/ HooksEnd(r) \/ HooksThrow(r) \/ PrepareEnds(r) \/ PrepareFails(r)
  PROVE  TypeOK'
<1>0. /\ RunTyped /\ ClaimTyped /\ RestTyped /\ queue \in Lists /\ deliveries \in Records
      /\ <<>> \in Seq(Message)
  BY TypeParts DEF RunTyped
<1>1. CASE StartPoll(r)
  <2>1. ClaimTyped' /\ RestTyped'
    BY <1>0, <1>1 DEF StartPoll, ClaimTyped, RestTyped, agentVars
  <2>2. CASE Returned(r, <<>>, deliveries, queue)
    BY <1>0, <2>1, <2>2, ReturnedTyped, TypePartsNext
  <2>3. CASE step' = [step EXCEPT ![r] = "hooks"] /\ UNCHANGED <<agentVars, pc, hand, blocked>>
    <3>1. RunTyped'
      BY <1>0, <1>1, <2>3 DEF StartPoll, RunTyped, agentVars
    <3> QED BY <2>1, <3>1, TypePartsNext
  <2> QED BY <1>1, <2>2, <2>3 DEF StartPoll
<1>2. CASE HooksEnd(r)
  <2>0. RestTyped'
    BY <1>0, <1>2 DEF HooksEnd, RestTyped
  <2>1. CASE claim' = claim /\ Returned(r, <<>>, deliveries, queue)
    BY <1>0, <2>0, <2>1, ReturnedTyped, TypePartsNext DEF ClaimTyped
  <2>2. ASSUME NEW q \in Queue, queue[q] # <<>>, Claim(r, q), r \notin aborted PROVE TypeOK'
    <3>1. ctl = r
      BY <1>2, <2>2, AtWork, PollsAre DEF HooksEnd
    <3>2. Batch(q) \in Seq(Message) \ {<<>>} /\ Rest(q) \in Seq(Message)
      BY <2>2, BatchIs
    <3>3. [run |-> r, controller |-> ctl, messages |-> Batch(q)] \in Claims
      BY <3>1, <3>2 DEF Claims
    <3>4. ClaimTyped'
      BY <1>0, <2>2, <3>3 DEF ClaimTyped, Claim
    <3>5. queue' \in Lists
      BY <1>0, <2>2, <3>2 DEF Claim, Lists
    <3>6. RunTyped'
      BY <1>0, <1>2, <2>2, <3>5 DEF HooksEnd, Claim, RunTyped
    <3> QED BY <2>0, <3>4, <3>6, TypePartsNext
  <2> QED BY <1>2, <2>1, <2>2, PollsAre DEF HooksEnd
<1>3. CASE HooksThrow(r)
  <2>1. {HasQueued(queue, claim)} \in SUBSET BOOLEAN
    BY HasQueuedTyped
  <2>2. RunTyped'
    BY <1>0, <1>3, <2>1, ThrewTyped DEF HooksThrow
  <2>3. ClaimTyped' /\ RestTyped'
    BY <1>0, <1>3, QueuesAssumption DEF HooksThrow, Fault, ClaimTyped, RestTyped
  <2> QED BY <2>2, <2>3, TypePartsNext
<1>4. CASE PrepareEnds(r)
  <2> DEFINE q == Polled[pc[r]]
  <2>0. RestTyped' /\ q \in Queue
    BY <1>0, <1>4, PollsAre DEF PrepareEnds, RestTyped
  <2>1. CASE Mine(r, q)
    <3>1. claim[q] # None /\ claim[q].messages \in Seq(Message) /\ claim[q].controller \in Run
      BY <1>0, <2>0, <2>1, ClaimIs DEF Mine
    <3> DEFINE ds == [deliveries EXCEPT ![claim[q].controller][q] = @ \o claim[q].messages]
    <3>2. Returned(r, claim[q].messages, ds, queue) /\ claim' = Unclaim(q)
      BY <1>4, <2>1 DEF PrepareEnds
    <3> HIDE DEF q
    <3>3. ds \in Records
      <4>1. deliveries[claim[q].controller][q] \o claim[q].messages \in Seq(Message)
        BY <1>0, <2>0, <3>1 DEF Records, Lists
      <4> QED BY <1>0, <2>0, <3>1, <4>1 DEF Records, Lists
    <3> HIDE DEF ds
    <3>4. RunTyped'
      BY <1>0, <3>1, <3>2, <3>3, ReturnedTyped
    <3>5. ClaimTyped'
      BY <1>0, <2>0, <3>2 DEF ClaimTyped, Unclaim
    <3> QED BY <2>0, <3>4, <3>5, TypePartsNext
  <2>2. CASE ~Mine(r, q)
    BY <1>0, <1>4, <2>0, <2>2, ReturnedTyped, TypePartsNext DEF PrepareEnds, ClaimTyped
  <2> QED BY <2>1, <2>2
<1>5. CASE PrepareFails(r)
  <2> DEFINE q == Polled[pc[r]]
             qs == IF Mine(r, q) THEN Reclaim(q) ELSE queue
  <2>0. q \in Queue /\ {blocked, TRUE} \in SUBSET BOOLEAN
    BY <1>0, <1>5, PollsAre DEF PrepareFails, RunTyped
  <2>1. /\ Threw(r, deliveries, qs, {blocked, TRUE})
        /\ claim' = IF Mine(r, q) THEN Unclaim(q) ELSE claim
    BY <1>5 DEF PrepareFails
  <2>2. RestTyped'
    BY <1>0, <1>5, QueuesAssumption DEF PrepareFails, Fault, RestTyped
  <2> HIDE DEF q
  <2>3. ClaimTyped'
    BY <1>0, <2>0, <2>1 DEF ClaimTyped, Unclaim
  <2>4. qs \in Lists
    <3>1. CASE Mine(r, q)
      <4>1. claim[q].messages \in Seq(Message) /\ queue[q] \in Seq(Message)
        BY <1>0, <2>0, <3>1, ClaimIs DEF Mine, Lists
      <4>2. claim[q].messages \o queue[q] \in Seq(Message)
        BY <4>1
      <4>3. qs = [queue EXCEPT ![q] = claim[q].messages \o queue[q]]
        BY <3>1 DEF Reclaim
      <4> QED BY <1>0, <2>0, <4>2, <4>3 DEF Lists
    <3>2. CASE ~Mine(r, q)
      BY <1>0, <3>2
    <3> QED BY <3>1, <3>2
  <2> HIDE DEF qs
  <2>5. RunTyped'
    BY <1>0, <2>0, <2>1, <2>4, ThrewTyped
  <2> QED BY <2>2, <2>3, <2>5, TypePartsNext
<1> QED BY <1>1, <1>2, <1>3, <1>4, <1>5

\* and so do those of a turn.
LEMMA TurnTyped ==
  ASSUME TypeOK, IInv, OwnLeads, NEW r \in Run,
         OpenTurn(r) \/ GateStops(r) \/ TurnThrows(r) \/ Answer(r) \/ CallTools(r)
           \/ ModelFails(r) \/ Finish(r)
  PROVE  TypeOK'
<1>0. /\ RunTyped /\ ClaimTyped /\ RestTyped /\ queue \in Lists /\ deliveries \in Records
      /\ <<>> \in Seq({Own} \cup Message)
  BY TypeParts DEF RunTyped
<1>1. ClaimTyped' /\ RestTyped'
  BY <1>0, QueuesAssumption DEF OpenTurn, GateStops, TurnThrows, Answer, CallTools, ModelFails,
                                ModelStep, Finish,
     Fault, ClaimTyped, RestTyped
<1>2. RunTyped'
  <2>0. {"model", "ended", "stop", "midwork"} \subseteq Place
    BY DEF Place, Polls, Polled
  <2>1. Emit(r) => got' \in Seq(Message) /\ tail' \in {"empty", "user", "tool", "assistant"}
    BY <1>0, EmittedTyped DEF Emit, RunTyped
  <2>2. CASE OpenTurn(r) \/ GateStops(r)
    <3>1. deliveries' \in Records
      BY <1>0, <2>2, EmittedTyped DEF OpenTurn, GateStops
    <3>2. PICK place \in Place : To(r, place, <<>>)
      BY <2>0, <2>2 DEF OpenTurn, GateStops
    <3>3. UNCHANGED <<queue, ctl, aborted, blocked>> /\ streaming' \in BOOLEAN
      BY <1>0, <2>2 DEF OpenTurn, GateStops, RunTyped
    <3>4. got' \in Seq(Message) /\ tail' \in {"empty", "user", "tool", "assistant"}
      BY <2>1, <2>2 DEF OpenTurn, GateStops
    <3> QED BY <1>0, <3>1, <3>2, <3>3, <3>4, ToTyped DEF RunTyped
  <2>3. CASE TurnThrows(r)
    <3>1. {blocked} \in SUBSET BOOLEAN
      BY <1>0 DEF RunTyped
    <3> QED BY <1>0, <2>3, <3>1, ThrewTyped DEF TurnThrows
  <2>4. CASE Answer(r) \/ CallTools(r) \/ ModelFails(r)
    <3>1. PICK kind \in {"tool", "assistant"}, place \in Place : ModelStep(r, kind, place)
      BY <2>0, <2>4 DEF Answer, CallTools, ModelFails
    <3>2. streaming' \in BOOLEAN
      BY <1>0, <2>4 DEF Answer, CallTools, ModelFails, RunTyped
    <3>3. To(r, place, <<>>) /\ UNCHANGED <<queue, deliveries, ctl, aborted, got, blocked>>
          /\ tail' \in {kind, tail}
      BY <3>1 DEF ModelStep
    <3> QED BY <1>0, <3>2, <3>3, ToTyped DEF RunTyped
  <2>5. CASE Finish(r)
    <3>1. Finally(r, deliveries, queue) /\ UNCHANGED <<got, tail, blocked>>
      BY <2>5 DEF Finish
    <3> QED BY <1>0, <3>1, FinallyTyped DEF RunTyped
  <2> QED BY <2>2, <2>3, <2>4, <2>5
<1> QED BY <1>1, <1>2, TypePartsNext

\* A queue and its claim, as peek sees them, are messages.
LEMMA PeekTyped ==
  ASSUME RunTyped, ClaimTyped, NEW q \in Queue
  PROVE  Claimed(q) \in Seq(Message) /\ queue[q] \in Seq(Message) /\ Peek(q) \in Seq(Message)
<1>1. Claimed(q) \in Seq(Message) /\ queue[q] \in Seq(Message)
  BY ClaimIs DEF Claimed, RunTyped, Lists
<1> QED BY <1>1 DEF Peek

\* clear and pop keep the types.
LEMMA ChangeTyped ==
  ASSUME TypeOK, NEW Q \in SUBSET Queue, NEW qs \in Lists, Change(Q, qs)
  PROVE  TypeOK'
<1>0. RunTyped /\ ClaimTyped /\ RestTyped
  BY TypeParts
<1>1. queue' \in Lists
  BY <1>0 DEF Change, RunTyped, Lists
<1>2. deliveries' \in Records
  BY <1>0 DEF Change, RunTyped, Records, Lists
<1>3. ClaimTyped'
  BY <1>0 DEF Change, ClaimTyped
<1>4. blocked' \in BOOLEAN
  BY <1>0 DEF Change, RunTyped
<1>5. RunTyped'
  BY <1>0, <1>1, <1>2, <1>4 DEF Change, RunTyped, runVars
<1>6. dropped' \subseteq Message
  <2>1. \A r \in Run, q \in Queue : ToSet(deliveries[r][q]) \subseteq Message
    BY <1>0, SetIs DEF RunTyped, Records, Lists
  <2>2. UNION {ToSet(deliveries[r][q]) : r \in Run, q \in Q} \subseteq Message
    BY <2>1
  <2> QED BY <1>0, <2>2 DEF Change, RestTyped
<1>7. gone' \subseteq Message
  <2>1. \A q \in Queue : ToSet(Peek(q)) \subseteq Message
    BY <1>0, PeekTyped, SetIs
  <2>2. UNION {ToSet(Peek(q)) \ ToSet(qs[q]) : q \in Q} \subseteq Message
    BY <2>1
  <2> QED BY <1>0, <2>2 DEF Change, RestTyped
<1>8. RestTyped'
  BY <1>0, <1>6, <1>7 DEF Change, RestTyped
<1> QED BY <1>3, <1>5, <1>8, TypePartsNext

\* A list without its last.
LEMMA FrontTyped ==
  ASSUME NEW S, NEW s \in Seq(S), s # <<>>
  PROVE  /\ Front(s) \in Seq(S) /\ Len(Front(s)) = Len(s) - 1 /\ Len(s) \in Nat \ {0}
         /\ \A i \in 1..(Len(s) - 1) : Front(s)[i] = s[i]
<1>1. Len(s) \in Nat \ {0} /\ \A i \in 1..(Len(s) - 1) : s[i] \in S
  BY EmptySeq
<1>2. Front(s) = SubSeq(s, 1, Len(s) - 1)
  BY DEF Front
<1>3. /\ SubSeq(s, 1, Len(s) - 1) \in Seq(S)
      /\ Len(SubSeq(s, 1, Len(s) - 1)) = Len(s) - 1
      /\ \A i \in 1..(Len(s) - 1) : SubSeq(s, 1, Len(s) - 1)[i] = s[i]
  <2>1. Len(s) - 1 \in Int /\ 1 \in Int
    BY <1>1
  <2> DEFINE n == Len(s) - 1
             t == SubSeq(s, 1, n)
  <2>2. n \in Nat /\ n \in Int /\ 1 \in Int /\ \A i \in 1..n : s[i] \in S /\ 1 + i - 1 = i
    BY <1>1
  <2> HIDE DEF n
  <2>3. n - 1 + 1 = n /\ (~(1 <= n) => n = 0)
    BY <2>2
  <2>4. /\ t \in Seq(S)
        /\ Len(t) = IF 1 <= n THEN n - 1 + 1 ELSE 0
        /\ \A i \in 1..(n - 1 + 1) : t[i] = s[1 + i - 1]
    BY <2>2, SubSeqProperties
  <2> HIDE DEF t
  <2>5. t \in Seq(S) /\ Len(t) = n /\ \A i \in 1..n : t[i] = s[i]
    BY <2>2, <2>3, <2>4
  <2> QED BY <2>5 DEF t, n
<1> QED BY <1>1, <1>2, <1>3

\* What is left when the last message is taken back.
Popped(q) ==
    IF q = (IF Peek("steering") # <<>> THEN "steering" ELSE "followUp")
    THEN Front(Peek(q)) ELSE Peek(q)

\* Pop withdraws the last of one queue.
LEMMA PopIs ==
  ASSUME TypeOK, Pop
  PROVE  /\ Change(Queue, [q \in Queue |-> Popped(q)]) /\ [q \in Queue |-> Popped(q)] \in Lists
         /\ \A q \in Queue : Popped(q) = Peek(q) \/ (Peek(q) # <<>> /\ Popped(q) = Front(Peek(q)))
<1>1. \A q \in Queue : Popped(q) = Peek(q) \/ (Peek(q) # <<>> /\ Popped(q) = Front(Peek(q)))
  BY DEF Pop, Popped, Queue
<1>2. \A q \in Queue : Popped(q) \in Seq(Message)
  <2>1. \A q \in Queue : Peek(q) \in Seq(Message)
    BY TypeParts, PeekTyped
  <2>2. \A q \in Queue : Peek(q) # <<>> => Front(Peek(q)) \in Seq(Message)
    BY <2>1, FrontTyped
  <2> QED BY <1>1, <2>1, <2>2
<1>3. Change(Queue, [q \in Queue |-> Popped(q)])
  BY DEF Pop, Popped
<1> QED BY <1>1, <1>2, <1>3 DEF Lists

\* A run that begins, and the host, keep the types.
LEMMA BeginTyped ==
  ASSUME TypeOK, NEW r \in Run, Prompt(r) \/ Drain(r)
  PROVE  TypeOK'
<1>0. RunTyped /\ ClaimTyped /\ RestTyped
  BY TypeParts
<1>1. PICK place \in Polls, ms \in {<<>>, <<Own>>} : Begin(r, place, ms) /\ suppressed' \in BOOLEAN
  <2>1. {"initial", "openSteer"} \subseteq Polls
    BY DEF Polls, Polled
  <2> QED BY <1>0, <2>1 DEF Prompt, Drain, RestTyped
<1>2. ms \in Seq({Own} \cup Message) /\ place \in Place
  <2>1. <<>> \in Seq({Own} \cup Message) /\ <<Own>> \in Seq({Own} \cup Message)
    OBVIOUS
  <2> QED BY <2>1, PollsAre
<1>3. To(r, place, ms) /\ ctl' = r /\ streaming' = TRUE
      /\ UNCHANGED <<accepted, queue, mode, claim, deliveries, aborted, got, tail, blocked,
                     gone, dropped, faults>>
  BY <1>1 DEF Begin
<1>4. RunTyped'
  BY <1>0, <1>2, <1>3, ToTyped DEF RunTyped
<1>5. ClaimTyped' /\ RestTyped'
  BY <1>0, <1>1, <1>3 DEF ClaimTyped, RestTyped
<1> QED BY <1>4, <1>5, TypePartsNext

LEMMA HostTyped ==
  ASSUME TypeOK,
         \/ \E q \in Queue : Enqueue(q)
         \/ \E user \in BOOLEAN : Abort(user)
         \/ Pop
         \/ \E Q \in SUBSET Queue : Clear(Q)
         \/ Reset
  PROVE  TypeOK'
<1>0. RunTyped /\ ClaimTyped /\ RestTyped
  BY TypeParts
<1>1. ASSUME NEW q \in Queue, Enqueue(q) PROVE TypeOK'
  <2>1. /\ accepted' \in Seq(Queue)
        /\ Len(accepted') = Len(accepted) + 1 /\ Len(accepted') <= MaxMessage
        /\ Len(accepted') \in Message
    BY <1>0, <1>1, QueuesAssumption DEF Enqueue, RestTyped, Message
  <2>2. queue' \in Lists
    <3>1. Append(queue[q], Len(accepted')) \in Seq(Message)
      BY <1>0, <2>1 DEF RunTyped, Lists
    <3>2. queue' = [queue EXCEPT ![q] = Append(queue[q], Len(accepted'))]
      BY <1>1 DEF Enqueue
    <3> QED BY <1>0, <3>1, <3>2 DEF RunTyped, Lists
  <2>3. RunTyped'
    BY <1>0, <1>1, <2>2 DEF Enqueue, RunTyped, runVars
  <2>4. ClaimTyped' /\ RestTyped'
    BY <1>0, <1>1, <2>1 DEF Enqueue, ClaimTyped, RestTyped
  <2> QED BY <2>3, <2>4, TypePartsNext
<1>2. ASSUME NEW user \in BOOLEAN, Abort(user) PROVE TypeOK'
  <2>1. RunTyped'
    BY <1>0, <1>2 DEF Abort, RunTyped, runVars
  <2>2. ClaimTyped' /\ RestTyped'
    BY <1>0, <1>2, QueuesAssumption DEF Abort, ClaimTyped, RestTyped
  <2> QED BY <2>1, <2>2, TypePartsNext
<1>3. CASE Pop
  BY <1>3, PopIs, ChangeTyped
<1>4. ASSUME NEW Q \in SUBSET Queue, Clear(Q) PROVE TypeOK'
  <2>1. [q \in Queue |-> <<>>] \in Lists
    BY DEF Lists
  <2> QED BY <1>4, <2>1, ChangeTyped DEF Clear
<1>5. CASE Reset
  <2>1. queue' \in Lists /\ deliveries' \in Records
    BY <1>5, EmptyIsTyped DEF Reset, NoDelivery, Records
  <2>2. ctl' \in Run \cup {None} /\ aborted' \subseteq Run
    BY <1>0, <1>5 DEF Reset, RunTyped
  <2>3. got' \in Seq(Message)
    BY <1>5, EmptyIsTyped DEF Reset
  <2>4. RunTyped'
    BY <1>0, <1>5, <2>1, <2>2, <2>3 DEF Reset, RunTyped, runVars
  <2>5. ClaimTyped'
    BY <1>5 DEF Reset, ClaimTyped
  <2>6. gone' \subseteq Message
    BY <1>0, <1>5, QueuesAssumption DEF Reset, RestTyped, Message
  <2>7. RestTyped'
    BY <1>0, <1>5, <2>6 DEF Reset, RestTyped
  <2> QED BY <2>4, <2>5, <2>7, TypePartsNext
<1> QED BY <1>1, <1>2, <1>3, <1>4, <1>5

\* TypeOK holds at first
LEMMA TypeInit == Init => TypeOK
<1> SUFFICES ASSUME Init PROVE TypeOK
  OBVIOUS
<1>1. /\ <<>> \in Seq(Message) /\ <<>> \in Seq(Queue)
      /\ <<>> \in Seq({Own} \cup Message) /\ Len(<<>>) = 0
  OBVIOUS
<1>2. RunTyped
  BY <1>1, EmptyIsTyped DEF Init, RunTyped, Lists, Records, Place
<1>3. ClaimTyped
  BY DEF Init, ClaimTyped
<1>4. RestTyped
  <2>1. /\ accepted = <<>> /\ mode \in [Queue -> BatchModes] /\ suppressed = FALSE
        /\ gone = {} /\ dropped = {} /\ faults = 0
    BY DEF Init
  <2>2. accepted \in Seq(Queue) /\ Len(accepted) <= MaxMessage
    BY <1>1, <2>1, QueuesAssumption
  <2>3. faults \in 0..MaxFault
    BY <2>1, QueuesAssumption
  <2>4. suppressed \in BOOLEAN /\ gone \subseteq Message /\ dropped \subseteq Message
    BY <2>1
  <2> QED BY <2>1, <2>2, <2>3, <2>4, Zenon DEF RestTyped
<1> QED BY <1>2, <1>3, <1>4, TypeParts

\* and every step keeps it, given the invariant of the runs and whose a hand's first is.
LEMMA TypeNext ==
  ASSUME TypeOK, IInv, OwnLeads, [Next]_vars
  PROVE  TypeOK'
<1>1. {{"steering"}, {"followUp"}, Queue} \subseteq SUBSET Queue
  BY DEF Queue
<1>2. ASSUME NEW r \in Run, RunStep(r) \/ Failure(r) \/ Prompt(r) \/ Drain(r) PROVE TypeOK'
  BY <1>2, PollTyped, TurnTyped, BeginTyped DEF RunStep, Failure
<1>3. CASE UNCHANGED vars
  BY <1>3 DEF vars, TypeOK
<1> QED BY <1>1, <1>2, <1>3, HostTyped DEF Next

(***************************************************************************)
(* The line of a queue and the hand of a run, as sequences.                *)
(***************************************************************************)

\* The line of a queue: g in the transcript, o owed to it, of the messages `of' of the
\* queue, of which gn were withdrawn and dr dropped from their records.
InLine(g, o, of, gn, dr) ==
    /\ ToSet(o) \subseteq of \ dr
    /\ (of \cap (ToSet(g) \cup ToSet(o))) \ dr = of \ (gn \cup dr)
    /\ SortedOn(g \o o, of \ dr)

\* The hand h of a run has all it delivers, d, and nothing else of the queue.
InHand(h, d, of, dr) ==
    /\ ToSet(d) \subseteq ToSet(h)
    /\ ToSet(h) \cap of \subseteq dr \cup ToSet(d)
    /\ SortedOn(h, of)

LEMMA EmptySet == ToSet(<<>>) = {}
BY DEF ToSet

LEMMA EmptySorted == \A X : SortedOn(<<>>, X)
BY DEF SortedOn

\* Order on a set is order on a smaller one.
LEMMA SortedLess ==
  ASSUME NEW s, NEW X, NEW Y, X \subseteq Y, SortedOn(s, Y)
  PROVE  SortedOn(s, X)
BY DEF SortedOn

\* A line whose owed messages are d, delivered, and p, queued.
LineParts(g, d, p, of, gn, dr) ==
    /\ ToSet(d) \cup ToSet(p) \subseteq of \ dr
    /\ (of \cap (ToSet(g) \cup ToSet(d) \cup ToSet(p))) \ dr = of \ (gn \cup dr)
    /\ SortedOn(g, of \ dr) /\ SortedOn(d, of \ dr) /\ SortedOn(p, of \ dr)
    /\ \A m \in ToSet(g) \cap (of \ dr), n \in (ToSet(d) \cup ToSet(p)) \cap (of \ dr) : m < n
    /\ \A m \in ToSet(d) \cap (of \ dr), n \in ToSet(p) \cap (of \ dr) : m < n

LEMMA LineIs ==
  ASSUME NEW g \in Seq(Nat), NEW d \in Seq(Nat), NEW p \in Seq(Nat), NEW of, NEW gn, NEW dr
  PROVE  InLine(g, d \o p, of, gn, dr) <=> LineParts(g, d, p, of, gn, dr)
<1>1. d \o p \in Seq(Nat) /\ ToSet(d \o p) = ToSet(d) \cup ToSet(p)
  BY SetConcat
<1>2. SortedOn(d \o p, of \ dr) <=>
        /\ SortedOn(d, of \ dr) /\ SortedOn(p, of \ dr)
        /\ \A m \in ToSet(d) \cap (of \ dr), n \in ToSet(p) \cap (of \ dr) : m < n
  BY SortedConcat
<1>3. SortedOn(g \o (d \o p), of \ dr) <=>
        /\ SortedOn(g, of \ dr) /\ SortedOn(d \o p, of \ dr)
        /\ \A m \in ToSet(g) \cap (of \ dr), n \in ToSet(d \o p) \cap (of \ dr) : m < n
  BY <1>1, SortedConcat
<1> QED BY <1>1, <1>2, <1>3, Zenon DEF InLine, LineParts

\* The hand f joins the transcript, and its delivery is complete.
LEMMA EmitLine ==
  ASSUME NEW g \in Seq(Nat), NEW d \in Seq(Nat), NEW p \in Seq(Nat), NEW f \in Seq(Nat),
         NEW of, NEW gn, NEW dr,
         InLine(g, d \o p, of, gn, dr), SortedOn(f, of),
         ToSet(f) \cap (of \ dr) = ToSet(d) \cap (of \ dr)
  PROVE  InLine(g \o f, p, of, gn, dr)
<1> DEFINE X == of \ dr
           G == ToSet(g)
           D == ToSet(d)
           P == ToSet(p)
           F == ToSet(f)
<1>1. /\ D \cup P \subseteq X
      /\ (of \cap (G \cup D \cup P)) \ dr = of \ (gn \cup dr)
      /\ SortedOn(g, X) /\ SortedOn(d, X) /\ SortedOn(p, X)
      /\ \A m \in G \cap X, n \in (D \cup P) \cap X : m < n
      /\ \A m \in D \cap X, n \in P \cap X : m < n
  <2>1. LineParts(g, d, p, of, gn, dr)
    BY LineIs
  <2> QED BY <2>1 DEF LineParts
<1>2. g \o f \in Seq(Nat) /\ ToSet(g \o f) = G \cup F
  BY SetConcat
<1>3. SortedOn(f, X)
  BY SortedLess
<1>4. F \cap X = D \cap X
  OBVIOUS
<1>5. SortedOn(g \o f, X)
  <2>1. \A m \in G \cap X, n \in F \cap X : m < n
    BY <1>1, <1>4
  <2> QED BY <1>1, <1>3, <2>1, SortedConcat
<1>6. SortedOn((g \o f) \o p, X)
  <2>1. \A m \in ToSet(g \o f) \cap X, n \in P \cap X : m < n
    BY <1>1, <1>2, <1>4
  <2> QED BY <1>1, <1>2, <1>5, <2>1, SortedConcat
<1>7. (of \cap (ToSet(g \o f) \cup P)) \ dr = of \ (gn \cup dr)
  <2> HIDE DEF G, D, P, F
  <2> QED BY <1>1, <1>2, <1>4
<1> QED BY <1>1, <1>6, <1>7 DEF InLine

\* A new message goes to the end of the line.
LEMMA EnqueueLine ==
  ASSUME NEW g \in Seq(Nat), NEW o \in Seq(Nat), NEW of \in SUBSET Nat, NEW gn, NEW dr,
         NEW n \in Nat,
         InLine(g, o, of, gn, dr), n \notin gn \cup dr \cup ToSet(g), \A m \in of : m < n
  PROVE  InLine(g, o \o <<n>>, of \cup {n}, gn, dr)
<1> DEFINE X == of \ dr
           Y == (of \cup {n}) \ dr
<1>1. <<n>> \in Seq(Nat) /\ ToSet(<<n>>) = {n} /\ SortedOn(<<n>>, Y)
  BY DEF ToSet, SortedOn
<1>2. g \o o \in Seq(Nat) /\ ToSet(g \o o) = ToSet(g) \cup ToSet(o)
  BY SetConcat
<1>3. ToSet(o \o <<n>>) = ToSet(o) \cup {n} /\ ToSet(o) \subseteq X /\ n \notin of
  <2>1. ToSet(o \o <<n>>) = ToSet(o) \cup ToSet(<<n>>)
    <3> DEFINE t == <<n>>
    <3>1. t \in Seq(Nat)
      OBVIOUS
    <3> HIDE DEF t
    <3>2. ToSet(o \o t) = ToSet(o) \cup ToSet(t)
      BY <3>1, SetConcat
    <3> QED BY <3>2 DEF t
  <2>2. ~(n < n)
    OBVIOUS
  <2> QED BY <1>1, <2>1, <2>2 DEF InLine
<1>4. SortedOn(g \o o, Y)
  <2>1. n \notin ToSet(g \o o)
    BY <1>2, <1>3
  <2>2. \A i \in 1..Len(g \o o) : (g \o o)[i] # n
    BY <1>2, <2>1, InSet
  <2> QED BY <2>2 DEF InLine, SortedOn
<1>5. SortedOn((g \o o) \o <<n>>, Y)
  <2>1. \A m \in ToSet(g \o o) \cap Y, k \in ToSet(<<n>>) \cap Y : m < k
    BY <1>1, <1>2, <1>3
  <2> QED BY <1>1, <1>2, <1>4, <2>1, SortedConcat
<1>6. (g \o o) \o <<n>> = g \o (o \o <<n>>)
  BY <1>1, ConcatAssociative
<1>7. ((of \cup {n}) \cap (ToSet(g) \cup ToSet(o \o <<n>>))) \ dr = (of \cup {n}) \ (gn \cup dr)
  BY <1>3 DEF InLine
<1> QED BY <1>3, <1>5, <1>6, <1>7 DEF InLine

\* Messages are withdrawn, and the records of a delivery deleted.
LEMMA WithdrawLine ==
  ASSUME NEW g \in Seq(Nat), NEW d \in Seq(Nat), NEW p \in Seq(Nat), NEW l \in Seq(Nat),
         NEW of \in SUBSET Nat, NEW gn, NEW dr, NEW gone_, NEW drop_,
         InLine(g, d \o p, of, gn, dr), ToSet(l) \subseteq ToSet(p),
         \A X : SortedOn(p, X) => SortedOn(l, X),
         (gone_ \cap of) = (gn \cap of) \cup (ToSet(p) \ ToSet(l)),
         (drop_ \cap of) = (dr \cap of) \cup ToSet(d)
  PROVE  InLine(g, l, of, gone_, drop_)
<1> DEFINE X == of \ dr
           Y == of \ drop_
           G == ToSet(g)
           D == ToSet(d)
           P == ToSet(p)
           L == ToSet(l)
<1>1. /\ D \cup P \subseteq X
      /\ (of \cap (G \cup D \cup P)) \ dr = of \ (gn \cup dr)
      /\ SortedOn(g, X) /\ SortedOn(d, X) /\ SortedOn(p, X)
      /\ \A m \in G \cap X, n \in (D \cup P) \cap X : m < n
      /\ \A m \in D \cap X, n \in P \cap X : m < n
  <2>1. LineParts(g, d, p, of, gn, dr)
    BY LineIs
  <2> QED BY <2>1 DEF LineParts
<1>2. /\ L \subseteq P /\ (gone_ \cap of) = (gn \cap of) \cup (P \ L)
      /\ (drop_ \cap of) = (dr \cap of) \cup D
      /\ X = of \ dr /\ Y = of \ drop_ /\ X \subseteq Nat
  OBVIOUS
<1>3. SortedOn(g, Y) /\ SortedOn(l, Y)
  <2>1. Y \subseteq X
    BY <1>2
  <2>2. SortedOn(l, X)
    BY <1>1
  <2> HIDE DEF X, Y
  <2> QED BY <1>1, <2>1, <2>2, SortedLess
<1> HIDE DEF X, Y, G, D, P, L
<1>4. \A m \in X : ~(m < m)
  BY <1>2
<1>5. D \cap P = {} /\ G \cap (D \cup P) \cap X = {}
  BY <1>1, <1>4
<1>6. L \subseteq Y
  BY <1>1, <1>2, <1>5
<1>7. (of \cap (G \cup L)) \ drop_ = of \ (gone_ \cup drop_)
  BY <1>1, <1>2, <1>5
<1>8. SortedOn(g \o l, Y)
  <2>1. \A m \in G \cap Y, n \in L \cap Y : m < n
    BY <1>1, <1>2
  <2> QED BY <1>3, <2>1, SortedConcat DEF G, L
<1> QED BY <1>6, <1>7, <1>8 DEF InLine, Y, G, L

\* A poll adds messages of its queue to the hand.
LEMMA PolledHand ==
  ASSUME NEW h \in Seq(Nat), NEW d \in Seq(Nat), NEW c \in Seq(Nat), NEW of, NEW dr,
         InHand(h, d, of, dr), ToSet(h) \cap of = {}, ToSet(c) \subseteq of, SortedOn(c, of)
  PROVE  InHand(h \o c, d \o c, of, dr)
<1>1. ToSet(h \o c) = ToSet(h) \cup ToSet(c) /\ ToSet(d \o c) = ToSet(d) \cup ToSet(c)
  BY SetConcat
<1>2. SortedOn(h \o c, of)
  BY SortedConcat DEF InHand
<1> QED BY <1>1, <1>2 DEF InHand

\* Messages of the other queue change nothing for this one.
LEMMA OtherHand ==
  ASSUME NEW h \in Seq(Nat), NEW d, NEW c \in Seq(Nat), NEW of, NEW dr,
         InHand(h, d, of, dr), ToSet(c) \cap of = {}
  PROVE  InHand(h \o c, d, of, dr)
<1>1. ToSet(h \o c) = ToSet(h) \cup ToSet(c)
  BY SetConcat
<1>2. SortedOn(c, of)
  BY InSet DEF SortedOn
<1>3. SortedOn(h \o c, of)
  BY <1>2, SortedConcat DEF InHand
<1> QED BY <1>1, <1>3 DEF InHand

LEMMA SortedFromQueues ==
  ASSUME NEW h \in Seq({Own} \cup Message), NEW X, SortedOn(h, X)
  PROVE  SortedOn(FromQueues(h), X)
<1>1. CASE h # <<>> /\ Head(h) = Own
  <2>1. FromQueues(h) = Tail(h) /\ Len(Tail(h)) = Len(h) - 1 /\ Len(h) \in Nat
        /\ \A i \in 1..(Len(h) - 1) : Tail(h)[i] = h[i + 1] /\ i + 1 \in 1..Len(h)
    BY <1>1 DEF FromQueues
  <2> SUFFICES ASSUME NEW i \in 1..(Len(h) - 1), NEW j \in 1..(Len(h) - 1), i < j,
                      Tail(h)[i] \in X, Tail(h)[j] \in X
               PROVE  Tail(h)[i] < Tail(h)[j]
    BY <2>1 DEF SortedOn
  <2>2. i + 1 < j + 1
    BY <2>1
  <2>3. h[i + 1] < h[j + 1]
    BY <2>1, <2>2 DEF SortedOn
  <2> QED BY <2>1, <2>3
<1>2. CASE ~(h # <<>> /\ Head(h) = Own)
  BY <1>2 DEF FromQueues
<1> QED BY <1>1, <1>2

(***************************************************************************)
(* The invariant.  Only the current run has deliveries; what it delivers   *)
(* is in its hand, in order; a hand holds what the place of its run        *)
(* allows; and each queue's line is in order and complete.                 *)
(***************************************************************************)

\* What is delivered of queue q, by the current run.
Delivered(q) == IF ctl = None THEN <<>> ELSE deliveries[ctl][q]

\* A run that is not the current one has no delivery left.
Sparse == \A r \in Run : r # ctl => deliveries[r] = NoDelivery

\* What a hand may hold at a place: nothing at the polls that begin a turn's end, and at
\* the others no message of the queue that is polled.
Placed(place, ms) ==
    /\ place \notin {"initial", "lateFollow", "turn"} => ms = <<>>
    /\ place = "initial" => ms = <<Own>> \/ ToSet(ms) \subseteq Of("followUp")
    /\ place = "lateFollow" => ToSet(ms) \subseteq Of("steering")
    /\ OwnFirst(ms) /\ ToSet(ms) \subseteq {Own} \cup DOMAIN accepted

HandsPlaced == \A r \in Run : Placed(pc[r], hand[r])

\* The current run has what it delivers in hand.
Delivering ==
    ctl # None => \A q \in Queue : InHand(hand[ctl], deliveries[ctl][q], Of(q), dropped)

\* What left the queues was accepted.
Known == gone \cup dropped \cup ToSet(got) \subseteq DOMAIN accepted

\* Each queue's line is in order and complete.
Lined == \A q \in Queue : InLine(got, Owed(q), Of(q), gone, dropped)

\* The invariant.
QInv == TypeOK /\ IInv /\ Sparse /\ HandsPlaced /\ Delivering /\ Known /\ Lined

\* The messages of a queue are accepted ones, and no other queue has them.
LEMMA OfIs ==
  ASSUME TypeOK, NEW q \in Queue
  PROVE  /\ Of(q) \in SUBSET Nat /\ Own \notin Of(q) /\ Of(q) \subseteq DOMAIN accepted
         /\ DOMAIN accepted = 1..Len(accepted) /\ Len(accepted) \in Nat
         /\ \A p \in Queue : p # q => Of(p) \cap Of(q) = {}
<1>1. DOMAIN accepted = 1..Len(accepted) /\ Len(accepted) \in Nat
  BY DEF TypeOK
<1> QED BY <1>1 DEF Of, Own

\* All lists are lists of numbers, in this state
LEMMA ListsAre ==
  ASSUME TypeOK, NEW q \in Queue
  PROVE  /\ got \in Seq(Nat) /\ queue[q] \in Seq(Nat)
         /\ Claimed(q) \in Seq(Nat) /\ Peek(q) \in Seq(Nat) /\ Delivered(q) \in Seq(Nat)
         /\ \A r \in Run : deliveries[r][q] \in Seq(Nat) /\ hand[r] \in Seq(Nat)
<1>0. RunTyped /\ ClaimTyped /\ Message \subseteq Nat /\ {Own} \cup Message \subseteq Nat
  BY TypeParts, QueuesAssumption DEF Message, Own
<1>1. Seq(Message) \subseteq Seq(Nat) /\ Seq({Own} \cup Message) \subseteq Seq(Nat)
  BY <1>0, SeqMonotonic
<1>2. Claimed(q) \in Seq(Message) /\ queue[q] \in Seq(Message) /\ Peek(q) \in Seq(Message)
  BY <1>0, PeekTyped
<1>3. \A r \in Run : deliveries[r][q] \in Seq(Message) /\ hand[r] \in Seq({Own} \cup Message)
  BY <1>0 DEF RunTyped, Records, Lists
<1>4. Delivered(q) \in Seq(Message)
  BY <1>0, <1>3 DEF Delivered, RunTyped
<1> QED BY <1>0, <1>1, <1>2, <1>3, <1>4 DEF RunTyped

LEMMA ThreeLists == \A a, b, c \in Seq(Nat) : (a \o b) \o c = a \o (b \o c)
BY ConcatAssociative

\* What is owed: what is delivered, and what peek sees.
LEMMA OwedIs ==
  ASSUME TypeOK, IInv, NEW q \in Queue
  PROVE  Owed(q) = Delivered(q) \o Peek(q)
<1>1. (IF claim[q] # None /\ claim[q].run = ctl THEN claim[q].messages ELSE <<>>) = Claimed(q)
  BY DEF IInv, ClaimsAreCurrent, Claimed
<1>2. Owed(q) = (Delivered(q) \o Claimed(q)) \o queue[q]
  BY <1>1, Zenon DEF Owed, Delivered
<1>3. (Delivered(q) \o Claimed(q)) \o queue[q] = Delivered(q) \o (Claimed(q) \o queue[q])
  <2>1. Delivered(q) \in Seq(Nat) /\ Claimed(q) \in Seq(Nat) /\ queue[q] \in Seq(Nat)
    BY ListsAre
  <2> QED BY <2>1, ThreeLists, Zenon
<1> QED BY <1>2, <1>3 DEF Peek

\* The same of the next state.
LEMMA ListsAreNext ==
  ASSUME TypeOK', NEW q \in Queue
  PROVE  /\ Claimed(q)' \in Seq(Nat) /\ queue'[q] \in Seq(Nat) /\ Delivered(q)' \in Seq(Nat)
<1>0. Message \subseteq Nat
  BY QueuesAssumption DEF Message
<1>1. Seq(Message) \subseteq Seq(Nat)
  BY <1>0, SeqMonotonic
<1>2. claim'[q] # None => claim'[q].messages \in Seq(Message)
  BY DEF TypeOK, Claims
<1>3. Claimed(q)' \in Seq(Message)
  BY <1>2 DEF Claimed
<1>4. queue'[q] \in Seq(Message)
  BY DEF TypeOK
<1>5. Delivered(q)' \in Seq(Message)
  BY DEF TypeOK, Delivered
<1> QED BY <1>1, <1>3, <1>4, <1>5

LEMMA OwedIsNext ==
  ASSUME TypeOK', IInv', NEW q \in Queue
  PROVE  Owed(q)' = Delivered(q)' \o (Claimed(q)' \o queue'[q])
<1>1. (IF claim[q] # None /\ claim[q].run = ctl THEN claim[q].messages ELSE <<>>)' = Claimed(q)'
  BY DEF IInv, ClaimsAreCurrent, Claimed
<1>2. Owed(q)' = (Delivered(q)' \o Claimed(q)') \o queue'[q]
  BY <1>1, Zenon DEF Owed, Delivered
<1>3. (Delivered(q)' \o Claimed(q)') \o queue'[q] = Delivered(q)' \o (Claimed(q)' \o queue'[q])
  <2>1. Delivered(q)' \in Seq(Nat) /\ Claimed(q)' \in Seq(Nat) /\ queue'[q] \in Seq(Nat)
    BY ListsAreNext
  <2> QED BY <2>1, ThreeLists, Zenon
<1> QED BY <1>2, <1>3

\* A step that moves nothing between the lists keeps the lines.
LEMMA LinedKept ==
  ASSUME Lined, UNCHANGED <<accepted, got, gone, dropped>>,
         \A q \in Queue : Owed(q)' = Owed(q)
  PROVE  Lined' /\ (Known => Known')
<1>1. \A q \in Queue : Of(q)' = Of(q)
  BY DEF Of
<1> QED BY <1>1 DEF Lined, Known

\* A run that moves keeps the hands placed, if its own is.
LEMMA ToPlaced ==
  ASSUME TypeOK, HandsPlaced, NEW r \in Run, NEW place, NEW ms, To(r, place, ms), Placed(place, ms),
         accepted' = accepted
  PROVE  HandsPlaced'
<1>1. \A p, s : Placed(p, s)' <=> Placed(p, s)
  BY DEF Placed, Of
<1>2. \A s \in Run : Placed(pc'[s], hand'[s])
  BY DEF TypeOK, HandsPlaced, To
<1> QED BY <1>1, <1>2 DEF HandsPlaced

LEMMA EmptyPlaced == \A place : Placed(place, <<>>)
BY EmptySet DEF Placed, OwnFirst

LEMMA PeekIs ==
  ASSUME TypeOK, NEW q \in Queue
  PROVE  /\ claim[q] = None => Peek(q) = queue[q]
         /\ queue[q] = <<>> => Peek(q) = Claimed(q)
<1>1. Claimed(q) \in Seq(Nat) /\ queue[q] \in Seq(Nat)
  BY ListsAre
<1>2. claim[q] = None => Claimed(q) = <<>>
  BY DEF Claimed
<1>3. /\ Claimed(q) = <<>> => Claimed(q) \o queue[q] = queue[q]
      /\ queue[q] = <<>> => Claimed(q) \o queue[q] = Claimed(q)
  BY <1>1, ConcatEmptySeq
<1> QED BY <1>2, <1>3 DEF Peek

\* An empty hand delivers nothing.
LEMMA NothingDelivered ==
  ASSUME QInv, ctl # None, hand[ctl] = <<>>, NEW q \in Queue
  PROVE  deliveries[ctl][q] = <<>>
<1>1. ToSet(deliveries[ctl][q]) = {} /\ deliveries[ctl][q] \in Seq(Nat)
  BY EmptySet, ListsAre DEF QInv, Delivering, InHand, TypeOK
<1> QED BY <1>1, InSet, EmptySeq

\* What the emission of the messages in hand leaves.
LEMMA EmitsAll ==
  ASSUME QInv, NEW r \in Run, ctl = r
  PROVE  Emitted(r, deliveries) = [s \in Run |-> NoDelivery]
<1> DEFINE h == hand[r]
<1>0. TypeOK /\ IInv /\ h \in Seq(Nat) /\ None \notin Run
  BY ListsAre, QueuesAssumption DEF QInv, Queue
<1>1. ASSUME NEW s \in Run, NEW q \in Queue PROVE Follows(deliveries[s][q], h)
  <2>1. CASE s # r
    <3>1. deliveries[s][q] = <<>>
      BY <2>1 DEF QInv, Sparse, NoDelivery
    <3> QED BY <3>1 DEF Follows
  <2>2. CASE s = r
    <3> DEFINE d == deliveries[r][q]
    <3>0. d \in Seq(Nat) /\ Delivered(q) = d
      BY <1>0, ListsAre DEF Delivered
    <3>1. InHand(h, d, Of(q), dropped) /\ InLine(got, Owed(q), Of(q), gone, dropped)
      BY <1>0 DEF QInv, Delivering, Lined
    <3>2. LineParts(got, d, Peek(q), Of(q), gone, dropped)
      BY <1>0, <3>0, <3>1, ListsAre, OwedIs, LineIs
    <3>3. ToSet(d) \subseteq Of(q) \ dropped /\ SortedOn(d, Of(q) \ dropped)
      BY <3>2 DEF LineParts
    <3>4. ToSet(d) \subseteq ToSet(h) /\ SortedOn(h, Of(q))
      BY <3>1 DEF InHand
    <3> HIDE DEF d, h
    <3>5. \A i \in 1..Len(d) : d[i] \in ToSet(d)
      BY <3>0, InSet
    <3>6. \A i, j \in 1..Len(d) : i < j => d[i] < d[j]
      BY <3>3, <3>5 DEF SortedOn
    <3>7. \A i \in 1..Len(d) : \E j \in 1..Len(h) : h[j] = d[i]
      BY <1>0, <3>4, <3>5, SetIs
    <3>8. \A i, j \in 1..Len(h) : \A m, n \in 1..Len(d) :
               i < j /\ h[i] = d[m] /\ h[j] = d[n] => h[i] < h[j]
      BY <3>3, <3>4, <3>5 DEF SortedOn
    <3>9. Follows(d, h)
      BY <3>6, <3>7, <3>8 DEF Follows
    <3> QED BY <2>2, <3>9 DEF d
  <2> QED BY <2>1, <2>2
<1>2. ASSUME NEW s \in Run, NEW q \in Queue
      PROVE  SubSeq(deliveries[s][q], Advance(deliveries[s][q], h) + 1, Len(deliveries[s][q]))
               = <<>>
  <2>1. deliveries[s][q] \in Seq(Nat)
    BY <1>0, ListsAre
  <2>2. Advance(deliveries[s][q], h) = Len(deliveries[s][q])
    BY <1>0, <1>1, <2>1, AdvancesToEnd
  <2>3. \A n \in Nat : SubSeq(deliveries[s][q], n + 1, n) = <<>>
    BY <2>1, SubSeqEmpty
  <2> QED BY <2>1, <2>2, <2>3
<1>3. AppendMessages(deliveries, h) = [s \in Run |-> NoDelivery]
  BY <1>2 DEF AppendMessages, NoDelivery
<1> QED BY <1>3 DEF Emitted

\* The hand's messages reach the transcript in their places.
LEMMA EmitLined ==
  ASSUME QInv, NEW r \in Run, ctl = r, NEW q \in Queue
  PROVE  /\ InLine(got \o FromQueues(hand[r]), Peek(q), Of(q), gone, dropped)
         /\ ToSet(got \o FromQueues(hand[r])) \subseteq DOMAIN accepted
<1> DEFINE h == hand[r]
           d == deliveries[r][q]
           f == FromQueues(h)
<1>0. /\ TypeOK /\ IInv /\ None \notin Run /\ got \in Seq(Nat) /\ d \in Seq(Nat)
      /\ Delivered(q) = d /\ Peek(q) \in Seq(Nat) /\ Own \notin Of(q)
  BY ListsAre, OfIs, QueuesAssumption DEF QInv, Delivered
<1>1. h \in Seq({Own} \cup Message) /\ Placed(pc[r], h)
  BY DEF QInv, TypeOK, HandsPlaced
<1>2. f \in Seq(Message) /\ ToSet(f) = ToSet(h) \ {Own}
  BY <1>1, FromQueuesIs DEF Placed
<1>3. f \in Seq(Nat)
  <2>1. Message \subseteq Nat
    BY QueuesAssumption DEF Message
  <2> QED BY <1>2, <2>1, SeqMonotonic
<1>4. InHand(h, d, Of(q), dropped) /\ InLine(got, d \o Peek(q), Of(q), gone, dropped)
  BY <1>0, OwedIs DEF QInv, Delivering, Lined
<1>5. SortedOn(f, Of(q))
  BY <1>1, <1>4, SortedFromQueues DEF InHand
<1>6. ToSet(f) \cap (Of(q) \ dropped) = ToSet(d) \cap (Of(q) \ dropped)
  BY <1>0, <1>2, <1>4 DEF InHand
<1>7. InLine(got \o f, Peek(q), Of(q), gone, dropped)
  <2> HIDE DEF f, d
  <2> QED BY <1>0, <1>3, <1>4, <1>5, <1>6, EmitLine
<1>8. ToSet(got \o f) = ToSet(got) \cup ToSet(f)
  BY <1>0, <1>3, SetConcat
<1>9. ToSet(h) \subseteq {Own} \cup DOMAIN accepted /\ ToSet(got) \subseteq DOMAIN accepted
  BY <1>1 DEF QInv, Known, Placed
<1> QED BY <1>2, <1>7, <1>8, <1>9

(***************************************************************************)
(* The steps of the current run keep it.                                   *)
(***************************************************************************)
LEMMA NobodyOwes ==
  ASSUME QInv, TypeOK', IInv', ctl' = None, NEW q \in Queue
  PROVE  Claimed(q)' = <<>> /\ Owed(q)' = queue'[q]
<1>1. claim'[q] = None
  BY QueuesAssumption DEF IInv, ClaimsAreCurrent
<1>2. Claimed(q)' = <<>> /\ Delivered(q)' = <<>>
  BY <1>1 DEF Claimed, Delivered
<1>3. <<>> \o queue'[q] = queue'[q]
  <2>1. queue'[q] \in Seq(Nat)
    BY ListsAreNext
  <2> QED BY <2>1, ConcatEmptySeq
<1> QED BY <1>2, <1>3, OwedIsNext

\* A run's end puts back what it did not deliver.
LEMMA FinallyKeeps ==
  ASSUME QInv, TypeOK', IInv', NEW r \in Run, ctl = r, NEW ds \in Records, NEW qs \in Lists,
         Finally(r, ds, qs), \A s \in Run : s # r => ds[s] = NoDelivery, accepted' = accepted
  PROVE  /\ Sparse' /\ HandsPlaced' /\ Delivering'
         /\ \A q \in Queue : Claimed(q)' = <<>> /\ Owed(q)' = ds[r][q] \o qs[q]
<1>1. ctl' = None /\ deliveries' = [ds EXCEPT ![r] = NoDelivery] /\ To(r, "free", <<>>)
      /\ queue' = [q \in Queue |-> ds[r][q] \o qs[q]]
  BY DEF Finally, Others, Restored
<1>2. Sparse'
  BY <1>1 DEF Sparse, Records
<1>3. HandsPlaced'
  BY <1>1, ToPlaced, EmptyPlaced DEF QInv
<1>4. Delivering'
  BY <1>1 DEF Delivering
<1> QED BY <1>1, <1>2, <1>3, <1>4, NobodyOwes

\* A run whose poll, gate or hook throws keeps the invariant.
LEMMA ThrewKeeps ==
  ASSUME QInv, TypeOK', IInv', NEW r \in Run, ctl = r, NEW ds \in Records, NEW qs \in Lists,
         NEW block,
         Threw(r, ds, qs, block), \A s \in Run : s # r => ds[s] = NoDelivery,
         UNCHANGED <<accepted, gone, dropped>>,
         \A q \in Queue : ds[r][q] \o (Claimed(q)' \o qs[q]) = Owed(q),
         pc[r] \notin Opening => ds = deliveries /\ \A q \in Queue : Claimed(q)' \o qs[q] = Peek(q)
  PROVE  QInv'
<1>0. /\ deliveries \in Records /\ TypeOK /\ Lined /\ Known
      /\ \A q \in Queue : qs[q] \in Seq(Message) /\ ds[r][q] \in Seq(Message)
  BY TypeParts DEF QInv, RunTyped, Lists, Records
<1>a. \A q \in Queue : <<>> \o qs[q] = qs[q]
  BY <1>0, ConcatEmptySeq
<1>1. CASE Finally(r, ds, qs) /\ got' = got
  <2>1. /\ Sparse' /\ HandsPlaced' /\ Delivering'
        /\ \A q \in Queue : Claimed(q)' = <<>> /\ Owed(q)' = ds[r][q] \o qs[q]
    BY <1>1, FinallyKeeps
  <2>2. \A q \in Queue : Owed(q)' = Owed(q)
    BY <1>a, <2>1
  <2>3. Lined' /\ Known'
    BY <1>0, <1>1, <2>2, LinedKept
  <2> QED BY <2>1, <2>3 DEF QInv
<1>2. CASE pc[r] \in {"initial", "turn"}
  <2>0. ds = deliveries /\ pc[r] \notin Opening /\ \A q \in Queue : Claimed(q)' \o qs[q] = Peek(q)
    BY <1>2 DEF Opening
  <2> DEFINE es == [s \in Run |-> NoDelivery]
  <2>1. Finally(r, es, qs) /\ got' = got \o FromQueues(hand[r])
    BY <1>2, <2>0, EmitsAll DEF Threw
  <2>2. es \in Records /\ es[r] = NoDelivery
    BY EmptyIsTyped DEF Records
  <2>3. /\ Sparse' /\ HandsPlaced' /\ Delivering'
        /\ \A q \in Queue : Claimed(q)' = <<>> /\ Owed(q)' = es[r][q] \o qs[q]
    BY <2>1, <2>2, FinallyKeeps
  <2>4. \A q \in Queue : Owed(q)' = Peek(q)
    BY <1>a, <2>0, <2>2, <2>3 DEF NoDelivery
  <2>5. \A q \in Queue : Of(q)' = Of(q)
    BY DEF Of
  <2>6. Lined'
    BY <2>1, <2>4, <2>5, EmitLined DEF Lined
  <2>7. Known'
    <3>1. ToSet(got') \subseteq DOMAIN accepted
      BY <2>1, EmitLined DEF Queue
    <3> QED BY <1>0, <3>1 DEF Known
  <2> QED BY <2>3, <2>6, <2>7 DEF QInv
<1> QED BY <1>1, <1>2 DEF Threw

\* A poll of the current run goes on with the messages ms in hand.
LEMMA GoesKeeps ==
  ASSUME QInv, TypeOK', IInv', NEW r \in Run, ctl = r, NEW ds \in Records, NEW qs \in Lists,
         NEW place, NEW h, To(r, place, h), Placed(place, h),
         deliveries' = ds, queue' = qs, UNCHANGED <<accepted, gone, dropped, ctl, got>>,
         \A s \in Run : s # r => ds[s] = NoDelivery,
         \A q \in Queue : ds[r][q] \o (Claimed(q)' \o qs[q]) = Owed(q),
         \A q \in Queue : InHand(h, ds[r][q], Of(q), dropped)
  PROVE  QInv'
<1>0. TypeOK /\ Lined /\ Known /\ None \notin Run
  BY QueuesAssumption DEF QInv
<1>1. Sparse'
  BY DEF Sparse
<1>2. HandsPlaced'
  BY ToPlaced DEF QInv
<1>3. \A q \in Queue : Of(q)' = Of(q)
  BY DEF Of
<1>4. hand'[r] = h
  BY <1>0 DEF To, TypeOK
<1>5. Delivering'
  BY <1>0, <1>3, <1>4 DEF Delivering
<1>6. \A q \in Queue : Delivered(q)' = ds[r][q]
  BY <1>0 DEF Delivered
<1>7. \A q \in Queue : Owed(q)' = Owed(q)
  BY <1>6, OwedIsNext
<1>8. Lined' /\ Known'
  BY <1>0, <1>7, LinedKept
<1> QED BY <1>1, <1>2, <1>5, <1>8 DEF QInv

\* A hand has nothing of the queue its run polls.
LEMMA HandAtPoll ==
  ASSUME QInv, NEW r \in Run, pc[r] \in Polls
  PROVE  /\ ToSet(hand[r]) \cap Of(Polled[pc[r]]) = {}
         /\ pc[r] \in {"openSteer", "openFollow", "stop", "lateSteer", "midwork"} => hand[r] = <<>>
<1>1. Placed(pc[r], hand[r]) /\ TypeOK
  BY DEF QInv, HandsPlaced
<1>2. CASE pc[r] \in {"openSteer", "openFollow", "stop", "lateSteer", "midwork"}
  <2>1. hand[r] = <<>>
    BY <1>1, <1>2 DEF Placed
  <2> QED BY <2>1, EmptySet
<1>3. CASE pc[r] = "initial"
  <2>0. Polled[pc[r]] = "steering" /\ {"steering", "followUp"} = Queue
    BY <1>3 DEF Polled, Queue
  <2>1. Own \notin Of("steering") /\ Of("followUp") \cap Of("steering") = {}
    BY <1>1, <2>0, OfIs
  <2>2. ToSet(<<Own>>) = {Own}
    BY DEF ToSet
  <2>3. hand[r] = <<Own>> \/ ToSet(hand[r]) \subseteq Of("followUp")
    BY <1>1, <1>3 DEF Placed
  <2> QED BY <1>3, <2>0, <2>1, <2>2, <2>3
<1>4. CASE pc[r] = "lateFollow"
  <2>0. Polled[pc[r]] = "followUp" /\ {"steering", "followUp"} = Queue
    BY <1>4 DEF Polled, Queue
  <2>1. Of("followUp") \cap Of("steering") = {}
    BY <1>1, <2>0, OfIs
  <2>2. ToSet(hand[r]) \subseteq Of("steering")
    BY <1>1, <1>4 DEF Placed
  <2> QED BY <1>4, <2>0, <2>1, <2>2
<1> QED BY <1>2, <1>3, <1>4 DEF Polls, Polled

\* Nor anything that was not accepted, with what the poll returns.
LEMMA HandGrows ==
  ASSUME QInv, NEW r \in Run, pc[r] \in Polls, NEW ms \in Seq(Message),
         ToSet(ms) \subseteq Of(Polled[pc[r]])
  PROVE  /\ OwnFirst(hand[r] \o ms) /\ ToSet(hand[r] \o ms) \subseteq {Own} \cup DOMAIN accepted
         /\ hand[r] = <<>> => hand[r] \o ms = ms
<1> DEFINE h == hand[r]
           M == {Own} \cup Message
<1>0. /\ TypeOK /\ Placed(pc[r], h) /\ Polled[pc[r]] \in Queue
      /\ h \in Seq(M) /\ ms \in Seq(M)
  BY SeqMonotonic, PollsAre DEF QInv, HandsPlaced, TypeOK
<1>1. ToSet(ms) \subseteq DOMAIN accepted /\ Own \notin ToSet(ms)
  BY <1>0, OfIs
<1>2. OwnFirst(h) /\ ToSet(h) \subseteq {Own} \cup DOMAIN accepted
  BY <1>0 DEF Placed
<1> HIDE DEF h, M
<1>3. ToSet(h \o ms) \subseteq {Own} \cup DOMAIN accepted
  BY <1>0, <1>1, <1>2, SetConcat
<1>4. OwnFirst(h \o ms)
  <2>1. \A i \in 1..Len(ms) : ms[i] # Own
    <3>1. \A i \in 1..Len(ms) : ms[i] \in ToSet(ms)
      BY InSet
    <3> QED BY <1>1, <3>1
  <2>2. /\ Len(h) \in Nat /\ \A i \in 1..Len(h) : (h \o ms)[i] = h[i]
        /\ \A i \in 1..Len(ms) : (h \o ms)[Len(h) + i] = ms[i]
        /\ \A k \in 1..Len(h \o ms) : k \in 1..Len(h) \/ \E i \in 1..Len(ms) : k = Len(h) + i
    <3>1. h \in Seq(M) /\ ms \in Seq(M)
      BY <1>0
    <3> QED BY <3>1, ConcatIs
  <2>3. ASSUME NEW k \in 1..Len(h \o ms), (h \o ms)[k] = Own PROVE k = 1
    <3>1. CASE k \in 1..Len(h)
      BY <1>2, <2>2, <2>3, <3>1 DEF OwnFirst
    <3>2. ASSUME NEW i \in 1..Len(ms), k = Len(h) + i PROVE FALSE
      BY <2>1, <2>2, <2>3, <3>2
    <3> QED BY <2>2, <3>1, <3>2
  <2> QED BY <2>3 DEF OwnFirst
<1>5. h = <<>> => h \o ms = ms
  BY <1>0, ConcatEmptySeq
<1> QED BY <1>3, <1>4, <1>5 DEF h

\* A poll of the current run returns the messages ms.
LEMMA ReturnedKeeps ==
  ASSUME QInv, TypeOK', IInv', NEW r \in Run, ctl = r, pc[r] \in Polls,
         NEW ds \in Records, NEW qs \in Lists, NEW ms \in Seq(Message), Returned(r, ms, ds, qs),
         UNCHANGED <<accepted, gone, dropped>>,
         \A s \in Run : s # r => ds[s] = NoDelivery,
         \A q \in Queue : ds[r][q] \o (Claimed(q)' \o qs[q]) = Owed(q),
         ToSet(ms) \subseteq Of(Polled[pc[r]]),
         \A q \in Queue : InHand(hand[r] \o ms, ds[r][q], Of(q), dropped)
  PROVE  QInv'
<1> DEFINE all == hand[r] \o ms
<1>1. /\ OwnFirst(all) /\ ToSet(all) \subseteq {Own} \cup DOMAIN accepted
      /\ hand[r] = <<>> => all = ms
  BY HandGrows
<1>2. pc[r] \in {"openSteer", "openFollow", "stop", "lateSteer", "midwork"} => hand[r] = <<>>
  BY HandAtPoll
<1>3. CASE pc[r] = "openSteer" /\ Goes(r, IF ms = <<>> THEN "openFollow" ELSE "turn", ms, ds, qs)
  <2>a. all = ms /\ Placed("turn", ms)
    BY <1>1, <1>2, <1>3 DEF Placed
  <2> DEFINE place == IF ms = <<>> THEN "openFollow" ELSE "turn"
  <2>b. Placed(place, ms)
    BY <2>a, EmptyPlaced
  <2>1. Goes(r, place, ms, ds, qs) /\ Placed(place, all) /\ all = ms
    BY <1>3, <2>a, <2>b
  <2> HIDE DEF all, place
  <2>2. \A q \in Queue : InHand(ms, ds[r][q], Of(q), dropped)
    BY <2>1 DEF all
  <2> QED BY <2>1, <2>2, GoesKeeps DEF Goes
<1>4. CASE pc[r] = "openFollow" /\ ms # <<>> /\ Goes(r, "initial", ms, ds, qs)
  <2>1. Placed("initial", ms) /\ all = ms
    <3>1. Polled[pc[r]] = "followUp"
      BY <1>4 DEF Polled
    <3>2. all = ms
      BY <1>1, <1>2, <1>4
    <3>3. ToSet(ms) \subseteq Of("followUp")
      BY <3>1
    <3> QED BY <1>1, <3>2, <3>3 DEF Placed
  <2>2. \A q \in Queue : InHand(ms, ds[r][q], Of(q), dropped)
    BY <2>1
  <2> QED BY <1>4, <2>1, <2>2, GoesKeeps DEF Goes
<1>5. CASE pc[r] = "openFollow" /\ ms = <<>> /\ Threw(r, ds, qs, {})
  BY <1>5, ThrewKeeps DEF Opening
<1>6. CASE pc[r] \in {"initial", "midwork", "lateFollow"} /\ Goes(r, "turn", all, ds, qs)
  <2>1. Placed("turn", all)
    BY <1>1 DEF Placed
  <2> QED BY <1>6, <2>1, GoesKeeps DEF Goes
<1>7. CASE pc[r] = "stop" /\ Goes(r, IF ms = <<>> THEN "lateSteer" ELSE "turn", ms, ds, qs)
  <2>a. all = ms /\ Placed("turn", ms)
    BY <1>1, <1>2, <1>7 DEF Placed
  <2> DEFINE place == IF ms = <<>> THEN "lateSteer" ELSE "turn"
  <2>b. Placed(place, ms)
    BY <2>a, EmptyPlaced
  <2>1. Goes(r, place, ms, ds, qs) /\ Placed(place, all) /\ all = ms
    BY <1>7, <2>a, <2>b
  <2> HIDE DEF all, place
  <2>2. \A q \in Queue : InHand(ms, ds[r][q], Of(q), dropped)
    BY <2>1 DEF all
  <2> QED BY <2>1, <2>2, GoesKeeps DEF Goes
<1>8. CASE pc[r] = "lateSteer" /\ Goes(r, "lateFollow", ms, ds, qs)
  <2>1. Placed("lateFollow", ms) /\ all = ms
    <3>1. Polled[pc[r]] = "steering"
      BY <1>8 DEF Polled
    <3>2. all = ms
      BY <1>1, <1>2, <1>8
    <3>3. ToSet(ms) \subseteq Of("steering")
      BY <3>1
    <3> QED BY <1>1, <3>2, <3>3 DEF Placed
  <2>2. \A q \in Queue : InHand(ms, ds[r][q], Of(q), dropped)
    BY <2>1
  <2> QED BY <1>8, <2>1, <2>2, GoesKeeps DEF Goes
<1>9. CASE /\ pc[r] = "lateFollow" /\ all = <<>> /\ To(r, "ended", <<>>)
           /\ deliveries' = ds /\ queue' = qs /\ UNCHANGED <<ctl, got>>
  <2>1. \A q \in Queue : InHand(<<>>, ds[r][q], Of(q), dropped)
    BY <1>9
  <2> QED BY <1>9, <2>1, EmptyPlaced, GoesKeeps
<1> QED BY <1>3, <1>4, <1>5, <1>6, <1>7, <1>8, <1>9 DEF Returned

\* Nothing the invariant is about changes.
LEMMA StayKeeps ==
  ASSUME QInv, TypeOK', IInv',
         UNCHANGED <<accepted, queue, claim, deliveries, ctl, got, gone, dropped, pc, hand>>
  PROVE  QInv'
<1>1. \A q \in Queue : Of(q)' = Of(q) /\ Owed(q)' = Owed(q)
  BY DEF Of, Owed
<1>2. \A p, s : Placed(p, s)' <=> Placed(p, s)
  BY DEF Placed, Of
<1>3. Sparse' /\ HandsPlaced' /\ Delivering'
  BY <1>1, <1>2 DEF QInv, Sparse, HandsPlaced, Delivering
<1>4. Lined' /\ Known'
  BY <1>1, LinedKept DEF QInv
<1> QED BY <1>3, <1>4 DEF QInv

\* What is owed, in terms of the current run.
LEMMA OwedAt ==
  ASSUME QInv, NEW r \in Run, ctl = r, NEW q \in Queue
  PROVE  /\ deliveries[r][q] \o Peek(q) = Owed(q)
         /\ InHand(hand[r], deliveries[r][q], Of(q), dropped)
         /\ hand[r] \o <<>> = hand[r]
<1>1. r # None /\ TypeOK /\ IInv /\ hand[r] \in Seq(Nat)
  BY ListsAre, QueuesAssumption DEF QInv
<1>2. Delivered(q) = deliveries[r][q]
  BY <1>1 DEF Delivered
<1>3. hand[r] \o <<>> = hand[r]
  BY <1>1, ConcatEmptySeq
<1> QED BY <1>1, <1>2, <1>3, OwedIs DEF QInv, Delivering

\* A poll of the current run returns nothing.
LEMMA EmptyReturnKeeps ==
  ASSUME QInv, TypeOK', IInv', NEW r \in Run, ctl = r, pc[r] \in Polls, claim' = claim,
         Returned(r, <<>>, deliveries, queue), UNCHANGED <<accepted, gone, dropped>>
  PROVE  QInv'
<1>1. deliveries \in Records /\ queue \in Lists /\ <<>> \in Seq(Message)
  BY TypeParts DEF QInv, RunTyped
<1>2. \A s \in Run : s # r => deliveries[s] = NoDelivery
  BY DEF QInv, Sparse
<1>3. \A q \in Queue : deliveries[r][q] \o (Claimed(q)' \o queue[q]) = Owed(q)
  BY OwedAt DEF Claimed, Peek
<1>4. ToSet(<<>>) \subseteq Of(Polled[pc[r]])
  BY EmptySet
<1>5. \A q \in Queue : InHand(hand[r] \o <<>>, deliveries[r][q], Of(q), dropped)
  BY OwedAt
<1> QED BY <1>1, <1>2, <1>3, <1>4, <1>5, ReturnedKeeps

\* A poll of the current run throws.
LEMMA ThrowKeeps ==
  ASSUME QInv, TypeOK', IInv', NEW r \in Run, ctl = r, NEW qs \in Lists, NEW block,
         Threw(r, deliveries, qs, block), UNCHANGED <<accepted, gone, dropped>>,
         \A q \in Queue : Claimed(q)' \o qs[q] = Peek(q)
  PROVE  QInv'
<1>1. deliveries \in Records
  BY TypeParts DEF QInv, RunTyped
<1>2. \A s \in Run : s # r => deliveries[s] = NoDelivery
  BY DEF QInv, Sparse
<1>3. \A q \in Queue : deliveries[r][q] \o (Claimed(q)' \o qs[q]) = Owed(q)
  BY OwedAt
<1> QED BY <1>1, <1>2, <1>3, ThrewKeeps

\* A poll of the current run claims a batch.
LEMMA ClaimKeeps ==
  ASSUME QInv, TypeOK', IInv', NEW r \in Run, ctl = r,
         NEW q \in Queue, claim[q] = None, queue[q] # <<>>,
         Claim(r, q), UNCHANGED <<accepted, gone, dropped>>
  PROVE  QInv'
<1>0. TypeOK /\ IInv /\ queue[q] \in Seq(Nat) /\ UNCHANGED <<deliveries, ctl, got, pc, hand>>
  BY ListsAre DEF QInv, Claim
<1>1. \A p \in Queue : Claimed(p)' \o queue'[p] = Peek(p)
  <2>1. ASSUME NEW p \in Queue, p # q PROVE Claimed(p)' \o queue'[p] = Peek(p)
    BY <1>0, <2>1 DEF Claim, Claimed, Peek, TypeOK
  <2>2. Claimed(q)' = Batch(q) /\ queue'[q] = Rest(q)
    <3> DEFINE b == [run |-> r, controller |-> ctl, messages |-> Batch(q)]
    <3>1. claim \in [Queue -> Claims \cup {None}] /\ queue \in [Queue -> Seq(Message)]
      BY <1>0 DEF TypeOK
    <3>2. claim' = [claim EXCEPT ![q] = b] /\ queue' = [queue EXCEPT ![q] = Rest(q)]
      BY DEF Claim
    <3>3. b.messages = Batch(q)
      OBVIOUS
    <3>4. claim'[q] = b /\ queue'[q] = Rest(q)
      <4> HIDE DEF b
      <4> QED BY <3>1, <3>2
    <3>5. b # None
      <4>1. Batch(q) \in Seq(Message) \ {<<>>}
        BY <1>0, BatchIs
      <4>2. b \in Claims
        BY <4>1 DEF Claims
      <4> QED BY <4>2, QueuesAssumption
    <3> QED BY <3>3, <3>4, <3>5 DEF Claimed
  <2>3. Peek(q) = queue[q]
    BY <1>0, PeekIs
  <2>4. Batch(q) \o Rest(q) = queue[q]
    BY <1>0, BatchIs
  <2> QED BY <2>1, <2>2, <2>3, <2>4
<1>2. \A p \in Queue : Delivered(p)' = Delivered(p)
  BY <1>0 DEF Delivered
<1>3. \A p \in Queue : Owed(p)' = Owed(p)
  BY <1>0, <1>1, <1>2, OwedIs, OwedIsNext
<1>4. Lined' /\ Known'
  BY <1>0, <1>3, LinedKept DEF QInv
<1>5. \A p \in Queue : Of(p)' = Of(p)
  BY DEF Of
<1>6. \A p, s : Placed(p, s)' <=> Placed(p, s)
  BY DEF Placed, Of
<1>7. Sparse' /\ HandsPlaced' /\ Delivering'
  BY <1>0, <1>5, <1>6 DEF QInv, Sparse, HandsPlaced, Delivering
<1> QED BY <1>4, <1>7 DEF QInv

\* A claim becomes a delivery of the current run.
LEMMA DeliverKeeps ==
  ASSUME QInv, TypeOK', IInv', NEW r \in Run, ctl = r, pc[r] \in Polls,
         NEW k \in Queue, k = Polled[pc[r]],
         Mine(r, k), claim' = Unclaim(k),
         Returned(r, claim[k].messages,
                  [deliveries EXCEPT ![claim[k].controller][k] = @ \o claim[k].messages], queue),
         UNCHANGED <<accepted, gone, dropped>>
  PROVE  QInv'
<1> DEFINE c == claim[k].messages
           ds == [deliveries EXCEPT ![r][k] = deliveries[r][k] \o c]
<1>0. /\ TypeOK /\ IInv /\ claim[k] # None /\ claim[k].controller = r /\ Claimed(k) = c
      /\ RunTyped /\ ClaimTyped /\ queue \in Lists /\ deliveries \in Records
      /\ claim \in [Queue -> Claims \cup {None}]
  BY TypeParts DEF QInv, Mine, IInv, ClaimsAreCurrent, Claimed, RunTyped, ClaimTyped
<1>1. /\ c \in Seq(Message) /\ c \in Seq(Nat) /\ queue[k] \in Seq(Nat)
      /\ deliveries[r][k] \in Seq(Message)
      /\ deliveries[r][k] \in Seq(Nat)
  BY <1>0, ClaimIs, ListsAre DEF Records, Lists
<1>2. ds \in Records
  BY <1>0, <1>1 DEF Records, Lists
<1>3. /\ ds[r][k] = deliveries[r][k] \o c
      /\ \A q \in Queue : q # k => ds[r][q] = deliveries[r][q]
      /\ \A s \in Run : s # r => ds[s] = NoDelivery
  <2>1. \A s \in Run : s # r => deliveries[s] = NoDelivery
    BY DEF QInv, Sparse
  <2> QED BY <1>0, <2>1 DEF Records, Lists
<1>4. Returned(r, c, ds, queue)
  BY <1>0
<1>5. \A q \in Queue : q # k => Claimed(q)' = Claimed(q)
  BY <1>0 DEF Claimed, Unclaim
<1>6. Claimed(k)' = <<>>
  BY <1>0 DEF Claimed, Unclaim
<1> HIDE DEF ds, c
<1>7. ASSUME NEW q \in Queue PROVE ds[r][q] \o (Claimed(q)' \o queue[q]) = Owed(q)
  <2>1. CASE q # k
    BY <1>3, <1>5, <2>1, OwedAt DEF Peek
  <2>2. CASE q = k
    <3>1. <<>> \o queue[k] = queue[k]
      BY <1>1, ConcatEmptySeq
    <3>2. (deliveries[r][k] \o c) \o queue[k] = deliveries[r][k] \o (c \o queue[k])
      BY <1>1, ThreeLists, Zenon
    <3>3. deliveries[r][k] \o Peek(k) = Owed(k) /\ Peek(k) = c \o queue[k]
      BY <1>0, OwedAt DEF Peek
    <3>4. ds[r][k] \o (Claimed(k)' \o queue[k]) = (deliveries[r][k] \o c) \o queue[k]
      BY <1>3, <1>6, <3>1
    <3> QED BY <2>2, <3>2, <3>3, <3>4
  <2> QED BY <2>1, <2>2
<1>8. LineParts(got, deliveries[r][k] \o c, queue[k], Of(k), gone, dropped)
  <2>1. InLine(got, Owed(k), Of(k), gone, dropped)
    BY DEF QInv, Lined
  <2>2. Owed(k) = (deliveries[r][k] \o c) \o queue[k]
    <3>1. <<>> \o queue[k] = queue[k]
      BY <1>1, ConcatEmptySeq
    <3> QED BY <1>3, <1>6, <1>7, <3>1
  <2>3. got \in Seq(Nat) /\ deliveries[r][k] \o c \in Seq(Nat)
    BY <1>0, <1>1, ListsAre
  <2> QED BY <1>1, <2>1, <2>2, <2>3, LineIs
<1>9. ToSet(c) \subseteq Of(k) \ dropped /\ SortedOn(c, Of(k))
  <2>1. ToSet(deliveries[r][k] \o c) = ToSet(deliveries[r][k]) \cup ToSet(c)
    <3>1. deliveries[r][k] \in Seq(Nat) /\ c \in Seq(Nat)
      BY <1>1
    <3>2. \A a, b \in Seq(Nat) : ToSet(a \o b) = ToSet(a) \cup ToSet(b)
      BY SetConcat
    <3> QED BY <3>1, <3>2, Zenon
  <2>2. ToSet(c) \subseteq Of(k) \ dropped
    BY <1>8, <2>1 DEF LineParts
  <2>3. SortedOn(c, Of(k) \ dropped)
    BY <1>1, <1>8, SortedConcat DEF LineParts
  <2>4. \A i \in 1..Len(c) : c[i] \in ToSet(c)
    BY <1>1, InSet
  <2> QED BY <2>2, <2>3, <2>4 DEF SortedOn
<1>10. ASSUME NEW q \in Queue PROVE InHand(hand[r] \o c, ds[r][q], Of(q), dropped)
  <2>1. InHand(hand[r], deliveries[r][q], Of(q), dropped) /\ hand[r] \in Seq(Nat)
    BY <1>0, OwedAt, ListsAre
  <2>2. CASE q # k
    <3>1. ToSet(c) \cap Of(q) = {}
      BY <1>0, <1>9, <2>2, OfIs
    <3> QED BY <1>1, <1>3, <2>1, <2>2, <3>1, OtherHand
  <2>3. CASE q = k
    <3>1. ToSet(hand[r]) \cap Of(k) = {}
      BY HandAtPoll
    <3>2. InHand(hand[r] \o c, deliveries[r][k] \o c, Of(k), dropped)
      BY <1>1, <1>9, <2>1, <2>3, <3>1, PolledHand
    <3> QED BY <1>3, <2>3, <3>2
  <2> QED BY <2>2, <2>3
<1> QED BY <1>0, <1>1, <1>2, <1>3, <1>4, <1>7, <1>9, <1>10, ReturnedKeeps

\* Every step of a poll of the current run
LEMMA PollKeeps ==
  ASSUME QInv, TypeOK', IInv', NEW r \in Run, ctl = r,
         StartPoll(r) \/ HooksEnd(r) \/ HooksThrow(r) \/ PrepareEnds(r) \/ PrepareFails(r)
  PROVE  QInv'
<1>0. TypeOK /\ IInv /\ queue \in Lists /\ RunTyped /\ ClaimTyped
  BY TypeParts DEF QInv, RunTyped
<1>a. \A q \in Queue : Claimed(q) \o queue[q] = Peek(q)
  BY DEF Peek
<1>1. CASE StartPoll(r)
  <2>1. CASE claim' = claim /\ Returned(r, <<>>, deliveries, queue)
    BY <1>1, <2>1, EmptyReturnKeeps DEF StartPoll
  <2>2. CASE UNCHANGED <<agentVars, pc, hand, blocked>>
    BY <1>1, <2>2, StayKeeps DEF StartPoll, agentVars
  <2> QED BY <1>1, <2>1, <2>2 DEF StartPoll
<1>2. CASE HooksEnd(r)
  <2>1. CASE claim' = claim /\ Returned(r, <<>>, deliveries, queue)
    BY <1>2, <2>1, EmptyReturnKeeps DEF HooksEnd
  <2>2. ASSUME NEW q \in Queue, claim[q] = None, queue[q] # <<>>, Claim(r, q) PROVE QInv'
    BY <1>2, <2>2, ClaimKeeps DEF HooksEnd
  <2> QED BY <1>2, <2>1, <2>2, PollsAre DEF HooksEnd
<1>3. CASE HooksThrow(r)
  <2>1. \A q \in Queue : Claimed(q)' \o queue[q] = Peek(q)
    BY <1>3, <1>a DEF HooksThrow, Claimed
  <2> QED BY <1>0, <1>3, <2>1, ThrowKeeps DEF HooksThrow
<1>4. CASE PrepareEnds(r)
  <2> DEFINE k == Polled[pc[r]]
  <2>0. k \in Queue /\ pc[r] \in Polls /\ UNCHANGED <<accepted, gone, dropped>>
    BY <1>4, PollsAre DEF PrepareEnds
  <2>1. CASE Mine(r, k)
    <3>1. /\ claim' = Unclaim(k)
          /\ Returned(r, claim[k].messages,
               [deliveries EXCEPT ![claim[k].controller][k] = @ \o claim[k].messages], queue)
      BY <1>4, <2>1 DEF PrepareEnds
    <3> QED BY <2>0, <2>1, <3>1, DeliverKeeps
  <2>2. CASE ~Mine(r, k)
    BY <1>4, <2>0, <2>2, EmptyReturnKeeps DEF PrepareEnds
  <2> QED BY <2>1, <2>2
<1>5. CASE PrepareFails(r)
  <2>k. PICK k \in Queue : k = Polled[pc[r]]
    BY <1>5, PollsAre DEF PrepareFails
  <2> DEFINE qs == IF Mine(r, k) THEN Reclaim(k) ELSE queue
  <2>0. k \in Queue /\ UNCHANGED <<accepted, gone, dropped>>
        /\ Threw(r, deliveries, qs, {blocked, TRUE})
        /\ claim' = IF Mine(r, k) THEN Unclaim(k) ELSE claim
    BY <1>5, <2>k DEF PrepareFails
  <2>1. CASE Mine(r, k)
    <3>1. claim[k] # None /\ claim[k].messages \in Seq(Message) /\ queue[k] \in Seq(Message)
      BY <1>0, <2>0, <2>1, ClaimIs DEF Mine, Lists
    <3>2. claim[k].messages \o queue[k] \in Seq(Message)
      BY <3>1
    <3>3. qs = [queue EXCEPT ![k] = claim[k].messages \o queue[k]] /\ qs \in Lists
      <4>1. qs = [queue EXCEPT ![k] = claim[k].messages \o queue[k]]
        BY <2>1 DEF Reclaim
      <4> HIDE DEF qs
      <4> QED BY <1>0, <2>0, <3>2, <4>1 DEF Lists
    <3>4. ASSUME NEW q \in Queue PROVE Claimed(q)' \o qs[q] = Peek(q)
      <4>1. CASE q # k
        BY <1>0, <2>0, <2>1, <3>3, <4>1 DEF Claimed, Peek, Unclaim, ClaimTyped, Lists
      <4>2. CASE q = k
        <5>1. Claimed(k)' = <<>> /\ qs[k] = Peek(k)
          <6>1. claim'[k] = None
            BY <1>0, <2>0, <2>1 DEF Unclaim, ClaimTyped
          <6>2. Peek(k) = claim[k].messages \o queue[k]
            BY <3>1 DEF Peek, Claimed
          <6> HIDE DEF qs
          <6>3. qs[k] = claim[k].messages \o queue[k]
            BY <1>0, <2>0, <3>3 DEF Lists
          <6> QED BY <6>1, <6>2, <6>3 DEF Claimed
        <5>2. Peek(k) \in Seq(Message)
          BY <1>0, <2>0, PeekTyped
        <5>3. <<>> \o Peek(k) = Peek(k)
          BY <5>2, ConcatEmptySeq
        <5> QED BY <4>2, <5>1, <5>3
      <4> QED BY <4>1, <4>2
    <3> HIDE DEF qs
    <3> QED BY <2>0, <3>3, <3>4, ThrowKeeps
  <2>2. CASE ~Mine(r, k)
    <3>1. qs = queue /\ \A q \in Queue : Claimed(q)' \o qs[q] = Peek(q)
      BY <1>a, <2>0, <2>2 DEF Claimed
    <3> HIDE DEF qs
    <3> QED BY <1>0, <2>0, <3>1, ThrowKeeps
  <2> QED BY <2>1, <2>2
<1> QED BY <1>1, <1>2, <1>3, <1>4, <1>5

\* The turn opens, and its messages reach the transcript.
LEMMA EmitKeeps ==
  ASSUME QInv, TypeOK', IInv', NEW r \in Run, ctl = r, NEW place,
         Emit(r), deliveries' = Emitted(r, deliveries), To(r, place, <<>>),
         UNCHANGED <<accepted, queue, claim, ctl, gone, dropped>>
  PROVE  QInv'
<1>0. TypeOK /\ IInv /\ None \notin Run
  BY QueuesAssumption DEF QInv
<1>1. deliveries' = [s \in Run |-> NoDelivery]
  BY EmitsAll
<1>2. got' = got \o FromQueues(hand[r])
  BY DEF Emit
<1>3. hand'[r] = <<>>
  BY <1>0 DEF To, TypeOK
<1>4. \A q \in Queue : Of(q)' = Of(q)
  BY DEF Of
<1>5. \A q \in Queue : Delivered(q)' = <<>> /\ Claimed(q)' \o queue'[q] = Peek(q)
  BY <1>0, <1>1 DEF Delivered, Claimed, Peek, NoDelivery
<1>6. ASSUME NEW q \in Queue PROVE Owed(q)' = Peek(q)
  <2>1. <<>> \o Peek(q) = Peek(q)
    <3>1. Peek(q) \in Seq(Nat)
      BY <1>0, ListsAre
    <3> QED BY <3>1, ConcatEmptySeq
  <2> QED BY <1>5, <2>1, OwedIsNext
<1>7. Lined'
  BY <1>2, <1>4, <1>6, EmitLined DEF Lined
<1>8. Known'
  <2>1. ToSet(got') \subseteq DOMAIN accepted
    BY <1>2, EmitLined DEF Queue
  <2> QED BY <2>1 DEF QInv, Known
<1>9. Delivering'
  <2>1. \A of, dr : InHand(<<>>, <<>>, of, dr)
    BY EmptySet, EmptySorted DEF InHand
  <2> QED BY <1>1, <1>3, <2>1 DEF Delivering, NoDelivery
<1>10. Sparse' /\ HandsPlaced'
  BY <1>1, ToPlaced, EmptyPlaced DEF QInv, Sparse
<1> QED BY <1>7, <1>8, <1>9, <1>10 DEF QInv

\* and every step of its turns keeps the invariant
LEMMA TurnKeeps ==
  ASSUME QInv, TypeOK', IInv', NEW r \in Run, ctl = r,
         OpenTurn(r) \/ GateStops(r) \/ TurnThrows(r) \/ Answer(r) \/ CallTools(r)
           \/ ModelFails(r) \/ Finish(r)
  PROVE  QInv'
<1>0. /\ TypeOK /\ IInv /\ queue \in Lists /\ deliveries \in Records
      /\ \A s \in Run : s # r => deliveries[s] = NoDelivery
  BY TypeParts DEF QInv, RunTyped, Sparse
<1>a. \A q \in Queue : Claimed(q) \o queue[q] = Peek(q)
  BY DEF Peek
<1>1. CASE OpenTurn(r) \/ GateStops(r)
  <2>1. PICK place : To(r, place, <<>>)
    BY <1>1 DEF OpenTurn, GateStops
  <2> QED BY <1>1, <2>1, EmitKeeps DEF OpenTurn, GateStops
<1>2. CASE TurnThrows(r)
  <2>1. \A q \in Queue : Claimed(q)' \o queue[q] = Peek(q)
    BY <1>2, <1>a DEF TurnThrows, Claimed
  <2> QED BY <1>0, <1>2, <2>1, ThrowKeeps DEF TurnThrows
<1>3. CASE Answer(r) \/ CallTools(r) \/ ModelFails(r)
  <2>1. PICK kind, place : ModelStep(r, kind, place)
    BY <1>3 DEF Answer, CallTools, ModelFails
  <2>2. /\ To(r, place, <<>>)
        /\ UNCHANGED <<accepted, queue, claim, deliveries, ctl, got, gone, dropped>>
        /\ pc[r] = "model"
    BY <2>1 DEF ModelStep
  <2>3. hand[r] = <<>>
    BY <2>2 DEF QInv, HandsPlaced, Placed
  <2>4. \A q \in Queue : deliveries[r][q] \o (Claimed(q)' \o queue[q]) = Owed(q)
    BY <1>a, <2>2, OwedAt DEF Claimed
  <2>5. \A q \in Queue : InHand(<<>>, deliveries[r][q], Of(q), dropped)
    BY <2>3, OwedAt
  <2> QED BY <1>0, <2>2, <2>4, <2>5, EmptyPlaced, GoesKeeps
<1>4. CASE Finish(r)
  <2>1. Finally(r, deliveries, queue) /\ UNCHANGED <<accepted, claim, got, gone, dropped>>
    BY <1>4 DEF Finish
  <2>2. /\ Sparse' /\ HandsPlaced' /\ Delivering'
        /\ \A q \in Queue : Claimed(q)' = <<>> /\ Owed(q)' = deliveries[r][q] \o queue[q]
    BY <1>0, <2>1, FinallyKeeps
  <2>3. \A q \in Queue : Owed(q)' = Owed(q)
    <3>1. \A q \in Queue : Claimed(q) = <<>>
      BY <2>1, <2>2 DEF Claimed
    <3>2. \A q \in Queue : queue[q] = Peek(q)
      <4>1. \A q \in Queue : <<>> \o queue[q] = queue[q]
        BY <1>0, ConcatEmptySeq DEF Lists
      <4> QED BY <3>1, <4>1 DEF Peek
    <3> QED BY <2>2, <3>2, OwedAt
  <2>4. Lined' /\ Known'
    BY <2>1, <2>3, LinedKept DEF QInv
  <2> QED BY <2>2, <2>4 DEF QInv
<1> QED BY <1>1, <1>2, <1>3, <1>4

(***************************************************************************)
(* So do the other runs, a run that begins, the user and the session.      *)
(***************************************************************************)
\* What a step of a run that is not the current one does.
LEMMA SupersededStep ==
  ASSUME TypeOK, IInv, Sparse, NEW r \in Run, RunStep(r) \/ Failure(r), ctl # r
  PROVE  /\ To(r, "free", <<>>)
         /\ UNCHANGED <<queue, claim, deliveries, ctl, streaming, got, tail>>
         /\ UNCHANGED <<accepted, gone, dropped>>
<1>0. /\ queue \in Lists /\ deliveries \in Records /\ deliveries[r] = NoDelivery
  BY TypeParts DEF RunTyped, Sparse
<1>1. UNCHANGED <<claim, ctl, streaming, got, tail>>
  BY OwnStepSpares
<1>2. pc[r] # "free"
  BY DEF RunStep, Failure, StartPoll, HooksEnd, HooksThrow, PrepareEnds, PrepareFails, OpenTurn,
     GateStops, TurnThrows, Answer, CallTools, ModelFails, ModelStep, Finish, Polls, Polled
<1>3. pc[r] = "ended" \/ (r \in aborted /\ pc[r] \in Polls /\ step[r] = "prepare")
  BY <1>2 DEF IInv, SupersededIsLeaving, Preparing
<1>4. PrepareFails(r) \/ Finish(r)
  BY <1>3 DEF RunStep, Failure, StartPoll, HooksEnd, HooksThrow, PrepareEnds, OpenTurn,
     GateStops, TurnThrows, Answer, CallTools, ModelFails, ModelStep, Polls, Polled
<1>5. Finally(r, deliveries, queue) /\ UNCHANGED <<accepted, gone, dropped>>
  <2>1. CASE Finish(r)
    BY <2>1 DEF Finish
  <2>2. CASE PrepareFails(r)
    <3>1. ~Mine(r, Polled[pc[r]])
      BY <2>2, PolledQueues DEF PrepareFails, IInv, ClaimsAreCurrent, Mine
    <3>2. \E block : Threw(r, deliveries, queue, block)
      BY <2>2, <3>1 DEF PrepareFails
    <3> QED BY <2>2, <3>2 DEF PrepareFails, Threw, Emitted
  <2> QED BY <1>4, <2>1, <2>2
<1>6. To(r, "free", <<>>) /\ deliveries' = [deliveries EXCEPT ![r] = NoDelivery]
      /\ queue' = [q \in Queue |-> deliveries[r][q] \o queue[q]]
  BY <1>5 DEF Finally, Others, Restored
<1>7. deliveries' = deliveries
  BY <1>0, <1>6 DEF Records
<1>8. queue' = queue
  <2>1. \A q \in Queue : deliveries[r][q] \o queue[q] = queue[q]
    <3>1. \A q \in Queue : <<>> \o queue[q] = queue[q]
      BY <1>0, ConcatEmptySeq DEF Lists
    <3> QED BY <1>0, <3>1 DEF NoDelivery
  <2> QED BY <1>0, <1>6, <2>1 DEF Lists
<1> QED BY <1>1, <1>5, <1>6, <1>7, <1>8

\* So does a step of a run that is not the current one
LEMMA SupersededKeeps ==
  ASSUME QInv, TypeOK', IInv', NEW r \in Run, RunStep(r) \/ Failure(r), ctl # r
  PROVE  QInv'
<1>0. TypeOK /\ IInv /\ Sparse
  BY DEF QInv
<1>1. /\ To(r, "free", <<>>)
      /\ UNCHANGED <<queue, claim, deliveries, ctl, got, accepted, gone, dropped>>
  BY <1>0, SupersededStep
<1>2. \A q \in Queue : Of(q)' = Of(q) /\ Owed(q)' = Owed(q)
  BY <1>1 DEF Of, Owed
<1>3. HandsPlaced'
  BY <1>1, ToPlaced, EmptyPlaced DEF QInv
<1>4. Lined' /\ Known'
  BY <1>1, <1>2, LinedKept DEF QInv
<1>5. ctl # None => hand'[ctl] = hand[ctl]
  BY <1>0, <1>1 DEF To, TypeOK
<1>6. Sparse' /\ Delivering'
  BY <1>1, <1>2, <1>5 DEF QInv, Sparse, Delivering
<1> QED BY <1>3, <1>4, <1>6 DEF QInv

\* A run takes the agent.
LEMMA BeginKeeps ==
  ASSUME QInv, TypeOK', IInv', NEW r \in Run, Prompt(r) \/ Drain(r)
  PROVE  QInv'
<1>0. TypeOK /\ IInv /\ None \notin Run
  BY QueuesAssumption DEF QInv
<1>1. PICK place \in {"initial", "openSteer"}, ms \in {<<>>, <<Own>>} :
        Begin(r, place, ms) /\ (ms = <<Own>> => place = "initial")
  BY DEF Prompt, Drain
<1>2. /\ To(r, place, ms) /\ ctl' = r /\ pc[r] = "free" /\ ~streaming
      /\ UNCHANGED <<accepted, queue, claim, deliveries, got, gone, dropped>>
  BY <1>1 DEF Begin
<1>3. ctl = None \/ (ctl \in Run /\ pc[ctl] = "ended" /\ ctl # r)
  BY <1>0, <1>2 DEF IInv, Shape, Current
<1>4. \A s \in Run : deliveries[s] = NoDelivery
  <2>1. ASSUME ctl # None PROVE deliveries[ctl] = NoDelivery
    <3>1. hand[ctl] = <<>>
      BY <1>3, <2>1 DEF QInv, HandsPlaced, Placed
    <3>2. \A q \in Queue : deliveries[ctl][q] = <<>>
      BY <2>1, <3>1, NothingDelivered
    <3>3. deliveries[ctl] \in [Queue -> Seq(Message)]
      BY <1>0, <1>3, <2>1 DEF TypeOK
    <3> QED BY <3>2, <3>3 DEF NoDelivery
  <2> QED BY <1>0, <2>1 DEF QInv, Sparse
<1>5. \A q \in Queue : claim[q] = None
  BY <1>0, <1>3 DEF IInv, ClaimsAreCurrent, Preparing, Polls, Polled
<1>6. \A q \in Queue : Of(q)' = Of(q) /\ Owed(q)' = Owed(q)
  <2>1. \A q \in Queue : Of(q)' = Of(q)
    BY <1>2 DEF Of
  <2>2. \A q \in Queue : Owed(q)' = (<<>> \o <<>>) \o queue[q]
    BY <1>0, <1>2, <1>4, <1>5 DEF Owed, NoDelivery
  <2>3. \A q \in Queue : Owed(q) = (<<>> \o <<>>) \o queue[q]
    <3>1. ASSUME NEW q \in Queue PROVE (IF ctl = None THEN <<>> ELSE deliveries[ctl][q]) = <<>>
      BY <1>3, <1>4 DEF NoDelivery
    <3> QED BY <1>5, <3>1 DEF Owed
  <2> QED BY <2>1, <2>2, <2>3
<1>7. Lined' /\ Known'
  BY <1>2, <1>6, LinedKept DEF QInv
<1>8. ToSet(ms) \subseteq {Own} /\ OwnFirst(ms)
  <2>1. ToSet(<<Own>>) = {Own} /\ OwnFirst(<<Own>>) /\ OwnFirst(<<>>)
    BY DEF ToSet, OwnFirst
  <2> QED BY <1>1, <2>1, EmptySet
<1>9. Placed(place, ms)
  BY <1>1, <1>8, EmptyPlaced DEF Placed
<1>10. HandsPlaced'
  BY <1>0, <1>2, <1>9, ToPlaced DEF QInv
<1>11. Sparse'
  BY <1>2, <1>4 DEF Sparse
<1>12. Delivering'
  <2>1. hand'[r] = ms
    BY <1>0, <1>2 DEF To, TypeOK
  <2>2. ASSUME NEW q \in Queue PROVE InHand(ms, <<>>, Of(q), dropped)
    <3>1. Own \notin Of(q)
      BY <1>0, OfIs
    <3>2. \A i \in 1..Len(ms) : ms[i] = Own
      BY <1>1
    <3>3. SortedOn(ms, Of(q))
      BY <3>1, <3>2 DEF SortedOn
    <3> QED BY <1>8, <3>1, <3>3, EmptySet DEF InHand
  <2> QED BY <1>2, <1>4, <1>6, <2>1, <2>2 DEF Delivering, NoDelivery
<1> QED BY <1>7, <1>10, <1>11, <1>12 DEF QInv

\* The host's reset forgets the messages and the transcript.
LEMMA ResetKeeps ==
  ASSUME QInv, TypeOK', IInv', Reset
  PROVE  QInv'
<1>0. TypeOK /\ IInv
  BY DEF QInv
<1>1. /\ ctl' = None /\ got' = <<>> /\ deliveries' = [r \in Run |-> NoDelivery]
      /\ queue' = [q \in Queue |-> <<>>] /\ gone' = DOMAIN accepted /\ dropped' = {}
      /\ UNCHANGED <<accepted, pc, hand>>
  BY DEF Reset, runVars
<1>2. Sparse' /\ Delivering'
  BY <1>1 DEF Sparse, Delivering
<1>3. \A p, s : Placed(p, s)' <=> Placed(p, s)
  BY <1>1 DEF Placed, Of
<1>4. HandsPlaced'
  BY <1>1, <1>3 DEF QInv, HandsPlaced
<1>5. Known'
  BY <1>1, EmptySet DEF Known
<1>6. ASSUME NEW q \in Queue PROVE InLine(<<>>, <<>>, Of(q), DOMAIN accepted, {})
  <2>1. Of(q) \subseteq DOMAIN accepted
    BY <1>0, OfIs
  <2>2. <<>> \o <<>> = <<>>
    OBVIOUS
  <2> QED BY <2>1, <2>2, EmptySet, EmptySorted DEF InLine
<1>7. \A q \in Queue : Of(q)' = Of(q) /\ Owed(q)' = <<>>
  BY <1>1, NobodyOwes DEF Of
<1>8. Lined'
  BY <1>1, <1>6, <1>7 DEF Lined
<1> QED BY <1>2, <1>4, <1>5, <1>8 DEF QInv

LEMMA AppendIs ==
  ASSUME NEW s \in Seq(Nat), NEW n \in Nat
  PROVE  Append(s, n) = s \o <<n>>
BY AppendIsConcat

\* A message that is accepted goes to the end of its line.
LEMMA EnqueueKeeps ==
  ASSUME QInv, TypeOK', IInv', NEW q \in Queue, Enqueue(q)
  PROVE  QInv'
<1>0. /\ TypeOK /\ IInv /\ None \notin Run /\ Known /\ Lined /\ Delivering
      /\ Len(accepted) \in Nat /\ DOMAIN accepted = 1..Len(accepted)
  BY OfIs, QueuesAssumption DEF QInv
<1>n. PICK n \in Nat : n = Len(accepted) + 1
  BY <1>0
<1>1. /\ accepted' = Append(accepted, q) /\ queue' = [queue EXCEPT ![q] = Append(queue[q], n)]
      /\ UNCHANGED <<claim, deliveries, ctl, got, gone, dropped, pc, hand>>
  <2>1. Len(Append(accepted, q)) = n
    BY <1>0, <1>n DEF TypeOK
  <2> QED BY <2>1 DEF Enqueue, runVars
<1>2. /\ DOMAIN accepted' = DOMAIN accepted \cup {n} /\ n \notin DOMAIN accepted
      /\ \A m \in DOMAIN accepted : m < n
      /\ accepted'[n] = q /\ \A m \in DOMAIN accepted : accepted'[m] = accepted[m]
  BY <1>0, <1>n, <1>1 DEF TypeOK
<1>3. Of(q)' = Of(q) \cup {n} /\ \A p \in Queue : p # q => Of(p)' = Of(p)
  BY <1>2 DEF Of
<1>4. \A p \in Queue : Delivered(p)' = Delivered(p) /\ Claimed(p)' = Claimed(p)
  BY <1>1 DEF Delivered, Claimed
<1>5. \A p \in Queue : p # q => Owed(p)' = Owed(p)
  <2>1. \A p \in Queue : p # q => queue'[p] = queue[p]
    BY <1>0, <1>1 DEF TypeOK
  <2> QED BY <1>0, <1>4, <2>1, OwedIs, OwedIsNext DEF Peek
<1>6. Owed(q)' = Owed(q) \o <<n>>
  <2> DEFINE d == Delivered(q)
             c == Claimed(q)
             s == queue[q]
             t == <<n>>
  <2>1. d \in Seq(Nat) /\ c \in Seq(Nat) /\ s \in Seq(Nat) /\ t \in Seq(Nat)
    BY <1>0, ListsAre
  <2>2. queue'[q] = s \o t
    BY <1>0, <1>1, <2>1, AppendIs DEF TypeOK
  <2>3. Owed(q)' = d \o (c \o (s \o t)) /\ Owed(q) = d \o (c \o s)
    BY <1>0, <1>4, <2>2, OwedIs, OwedIsNext DEF Peek
  <2> HIDE DEF d, c, s, t
  <2>4. c \o s \in Seq(Nat) /\ c \o (s \o t) = (c \o s) \o t
    <3>1. c \o s \in Seq(Nat)
      BY <2>1
    <3>2. (c \o s) \o t = c \o (s \o t)
      BY <2>1, ThreeLists, Zenon
    <3> QED BY <3>1, <3>2
  <2>5. d \o ((c \o s) \o t) = (d \o (c \o s)) \o t
    BY <2>1, <2>4, ThreeLists, Zenon
  <2> QED BY <2>3, <2>4, <2>5 DEF t
<1>7. Lined'
  <2>1. \A p \in Queue : p # q => InLine(got, Owed(p)', Of(p)', gone, dropped)
    BY <1>0, <1>3, <1>5 DEF Lined
  <2>2. InLine(got, Owed(q)', Of(q)', gone, dropped)
    <3>1. /\ got \in Seq(Nat) /\ Owed(q) \in Seq(Nat)
          /\ Of(q) \in SUBSET Nat /\ Of(q) \subseteq DOMAIN accepted
      <4>1. Delivered(q) \in Seq(Nat) /\ Peek(q) \in Seq(Nat)
        BY <1>0, ListsAre
      <4>2. Owed(q) = Delivered(q) \o Peek(q)
        BY <1>0, OwedIs
      <4> QED BY <1>0, <4>1, <4>2, ListsAre, OfIs
    <3>2. InLine(got, Owed(q), Of(q), gone, dropped)
      BY <1>0 DEF Lined
    <3>3. n \notin gone \cup dropped \cup ToSet(got)
      BY <1>0, <1>2 DEF Known
    <3>4. InLine(got, Owed(q) \o <<n>>, Of(q) \cup {n}, gone, dropped)
      BY <1>2, <3>1, <3>2, <3>3, EnqueueLine
    <3> QED BY <1>3, <1>6, <3>4
  <2> QED BY <1>1, <2>1, <2>2 DEF Lined
<1>8. Known' /\ Sparse'
  BY <1>0, <1>1, <1>2 DEF QInv, Known, Sparse
<1>9. HandsPlaced'
  <2>1. \A place, ms : Placed(place, ms) => Placed(place, ms)'
    BY <1>2, <1>3 DEF Placed, Queue
  <2> QED BY <1>1, <2>1 DEF QInv, HandsPlaced
<1>10. Delivering'
  <2> SUFFICES ASSUME ctl # None, NEW p \in Queue
               PROVE  InHand(hand[ctl], deliveries[ctl][p], Of(p)', dropped)
    BY <1>1 DEF Delivering
  <2>1. InHand(hand[ctl], deliveries[ctl][p], Of(p), dropped) /\ hand[ctl] \in Seq(Nat)
    BY <1>0, ListsAre DEF Delivering, TypeOK
  <2>2. n \notin ToSet(hand[ctl])
    <3>1. ToSet(hand[ctl]) \subseteq {Own} \cup DOMAIN accepted
      BY <1>0 DEF QInv, HandsPlaced, Placed, TypeOK
    <3> QED BY <1>0, <1>2, <1>n, <3>1 DEF Own
  <2>3. \A i \in 1..Len(hand[ctl]) : hand[ctl][i] # n
    BY <2>1, <2>2, InSet
  <2>4. Of(p)' = Of(p) \/ Of(p)' = Of(p) \cup {n}
    BY <1>3
  <2> QED BY <2>1, <2>2, <2>3, <2>4 DEF InHand, SortedOn
<1> QED BY <1>7, <1>8, <1>9, <1>10 DEF QInv

\* A line knows of its own messages only.
LEMMA LineSame ==
  ASSUME NEW g, NEW o, NEW of, NEW gn, NEW dr, NEW gone_, NEW drop_, InLine(g, o, of, gn, dr),
         gone_ \cap of = gn \cap of, drop_ \cap of = dr \cap of
  PROVE  InLine(g, o, of, gone_, drop_)
<1>1. of \ dr = of \ drop_
  OBVIOUS
<1> QED BY <1>1 DEF InLine

\* What is taken back leaves a part of a queue in its order.
Part(l, p) ==
    l \in Seq(Nat) /\ ToSet(l) \subseteq ToSet(p) /\ \A X : SortedOn(p, X) => SortedOn(l, X)

LEMMA Parts ==
  ASSUME NEW p \in Seq(Nat)
  PROVE  Part(p, p) /\ Part(<<>>, p) /\ (p # <<>> => Part(Front(p), p))
<1>1. Part(p, p) /\ Part(<<>>, p)
  BY EmptySet, EmptySorted DEF Part
<1>2. ASSUME p # <<>> PROVE Part(Front(p), p)
  <2>1. /\ Front(p) \in Seq(Nat) /\ Len(Front(p)) = Len(p) - 1 /\ Len(p) \in Nat \ {0}
        /\ \A i \in 1..(Len(p) - 1) : Front(p)[i] = p[i]
    BY <1>2, FrontTyped
  <2>2. \A i \in 1..(Len(p) - 1) : i \in 1..Len(p)
    BY <2>1
  <2>3. ToSet(Front(p)) \subseteq ToSet(p)
    <3>1. ASSUME NEW x \in ToSet(Front(p)) PROVE x \in ToSet(p)
      <4>1. PICK i \in 1..(Len(p) - 1) : Front(p)[i] = x
        BY <2>1, <3>1, SetIs
      <4> QED BY <2>1, <2>2, <4>1, InSet
    <3> QED BY <3>1
  <2>4. \A X : SortedOn(p, X) => SortedOn(Front(p), X)
    <3> SUFFICES ASSUME NEW X, SortedOn(p, X), NEW i \in 1..(Len(p) - 1), NEW j \in 1..(Len(p) - 1),
                        i < j, Front(p)[i] \in X, Front(p)[j] \in X
                 PROVE  Front(p)[i] < Front(p)[j]
      BY <2>1 DEF SortedOn
    <3>1. p[i] \in X /\ p[j] \in X /\ p[i] = Front(p)[i] /\ p[j] = Front(p)[j]
      BY <2>1
    <3> QED BY <2>2, <3>1 DEF SortedOn
  <2> QED BY <2>1, <2>3, <2>4 DEF Part
<1> QED BY <1>1, <1>2

LEMMA InUnion ==
  ASSUME NEW R, NEW Q, NEW f, NEW r \in R, NEW p \in Q, NEW x \in ToSet(f[r][p])
  PROVE  x \in UNION {ToSet(f[i][k]) : i \in R, k \in Q}
OBVIOUS

\* The effect of a change of the queues Q on the messages of queue q.
LEMMA Withdrawn ==
  ASSUME QInv, NEW Q \in SUBSET Queue, NEW qs \in Lists, Change(Q, qs),
         \A q \in Q : Part(qs[q], Peek(q)), NEW q \in Queue
  PROVE  /\ ToSet(Delivered(q)) \cup ToSet(Peek(q)) \subseteq Of(q)
         /\ gone' \cap Of(q)
              = (gone \cap Of(q)) \cup (IF q \in Q THEN ToSet(Peek(q)) \ ToSet(qs[q]) ELSE {})
         /\ dropped' \cap Of(q)
              = (dropped \cap Of(q)) \cup (IF q \in Q THEN ToSet(Delivered(q)) ELSE {})
<1>0. TypeOK /\ IInv /\ Sparse /\ ctl \in Run \cup {None} /\ None \notin Run
  BY QueuesAssumption DEF QInv, TypeOK
<1>1. ASSUME NEW p \in Queue
      PROVE  ToSet(Delivered(p)) \subseteq Of(p) /\ ToSet(Peek(p)) \subseteq Of(p)
  <2>1. InLine(got, Delivered(p) \o Peek(p), Of(p), gone, dropped)
    BY <1>0, OwedIs DEF QInv, Lined
  <2>2. Delivered(p) \in Seq(Nat) /\ Peek(p) \in Seq(Nat)
    BY <1>0, ListsAre
  <2>3. ToSet(Delivered(p) \o Peek(p)) = ToSet(Delivered(p)) \cup ToSet(Peek(p))
    BY <2>2, SetConcat
  <2> QED BY <2>1, <2>3 DEF InLine
<1>2. \A p \in Queue : p # q => Of(p) \cap Of(q) = {}
  BY <1>0, OfIs
<1>3. ASSUME NEW r \in Run, NEW p \in Queue
      PROVE  ToSet(deliveries[r][p]) = IF r = ctl THEN ToSet(Delivered(p)) ELSE {}
  <2>1. CASE r = ctl
    BY <1>0, <2>1 DEF Delivered
  <2>2. CASE r # ctl
    <3>1. deliveries[r][p] = <<>>
      BY <1>0, <2>2 DEF Sparse, NoDelivery
    <3> QED BY <2>2, <3>1, EmptySet
  <2> QED BY <2>1, <2>2
<1> DEFINE A == UNION {ToSet(deliveries[r][p]) : r \in Run, p \in Q}
           B == UNION {ToSet(Delivered(p)) : p \in Q}
<1>4. A = B
  <2>1. ctl = None => \A p \in Q : ToSet(Delivered(p)) = {}
    BY EmptySet DEF Delivered
  <2>2. ASSUME NEW x \in A PROVE x \in B
    <3>1. PICK r \in Run, p \in Q : x \in ToSet(deliveries[r][p])
      BY <2>2
    <3>2. x \in ToSet(Delivered(p))
      BY <1>3, <3>1
    <3> QED BY <3>2
  <2>3. ASSUME NEW x \in B PROVE x \in A
    <3>1. PICK p \in Q : x \in ToSet(Delivered(p))
      BY <2>3
    <3>2. ctl \in Run
      BY <1>0, <2>1, <3>1
    <3>3. p \in Queue /\ p \in Q
      OBVIOUS
    <3>4. ToSet(deliveries[ctl][p]) = ToSet(Delivered(p))
      BY <1>3, <3>2, <3>3
    <3>5. x \in ToSet(deliveries[ctl][p])
      BY <3>1, <3>4
    <3> QED BY <3>2, <3>5, InUnion
  <2>4. A \subseteq B /\ B \subseteq A
    BY <2>2, <2>3
  <2> HIDE DEF A, B
  <2> QED BY <2>4
<1>5. /\ dropped' = dropped \cup UNION {ToSet(Delivered(p)) : p \in Q}
      /\ gone' = gone \cup UNION {ToSet(Peek(p)) \ ToSet(qs[p]) : p \in Q}
  BY <1>4 DEF Change
<1>6. ToSet(Delivered(q)) \cup ToSet(Peek(q)) \subseteq Of(q)
  BY <1>1
<1>7. gone' \cap Of(q)
        = (gone \cap Of(q)) \cup (IF q \in Q THEN ToSet(Peek(q)) \ ToSet(qs[q]) ELSE {})
  BY <1>1, <1>2, <1>5
<1>8. dropped' \cap Of(q) = (dropped \cap Of(q)) \cup (IF q \in Q THEN ToSet(Delivered(q)) ELSE {})
  BY <1>1, <1>2, <1>5
<1> QED BY <1>6, <1>7, <1>8

\* clear and pop keep the invariant.
LEMMA ChangeKeeps ==
  ASSUME QInv, TypeOK', IInv', NEW Q \in SUBSET Queue, NEW qs \in Lists, Change(Q, qs),
         \A q \in Q : Part(qs[q], Peek(q))
  PROVE  QInv'
<1>0. /\ TypeOK /\ IInv /\ Known /\ Sparse /\ Delivering /\ None \notin Run
      /\ gone \cup dropped \cup ToSet(got) \subseteq DOMAIN accepted
  BY QueuesAssumption DEF QInv, Known
<1>1. /\ queue' = [q \in Queue |-> IF q \in Q THEN qs[q] ELSE queue[q]]
      /\ claim' = [q \in Queue |-> IF q \in Q THEN None ELSE claim[q]]
      /\ deliveries' = [r \in Run |-> [q \in Queue |-> IF q \in Q THEN <<>> ELSE deliveries[r][q]]]
      /\ UNCHANGED <<accepted, ctl, got, pc, hand>>
  BY DEF Change, runVars
<1>2. \A q \in Queue : Of(q)' = Of(q)
  BY <1>1 DEF Of
<1>3. Sparse'
  BY <1>0, <1>1 DEF Sparse, NoDelivery
<1>4. HandsPlaced'
  <2>1. \A p, s : Placed(p, s)' <=> Placed(p, s)
    BY <1>1 DEF Placed, Of
  <2> QED BY <1>1, <2>1 DEF QInv, HandsPlaced
<1>5. ASSUME NEW q \in Queue PROVE InLine(got, Owed(q)', Of(q), gone', dropped')
  <2>1. /\ got \in Seq(Nat) /\ Delivered(q) \in Seq(Nat) /\ Peek(q) \in Seq(Nat)
        /\ Of(q) \in SUBSET Nat
        /\ Owed(q) = Delivered(q) \o Peek(q) /\ InLine(got, Owed(q), Of(q), gone, dropped)
    BY <1>0, ListsAre, OfIs, OwedIs DEF QInv, Lined
  <2>2. CASE q \in Q
    <3>1. Delivered(q)' = <<>> /\ Claimed(q)' = <<>> /\ queue'[q] = qs[q]
      <4>1. ctl \in Run \cup {None}
        BY <1>0 DEF TypeOK
      <4> QED BY <1>1, <2>2, <4>1 DEF Delivered, Claimed
    <3>2. qs[q] \in Seq(Nat) /\ <<>> \o (<<>> \o qs[q]) = qs[q]
      <4>1. qs[q] \in Seq(Nat)
        BY <2>2 DEF Part
      <4> QED BY <4>1, ConcatEmptySeq
    <3>3. Owed(q)' = qs[q]
      BY <3>1, <3>2, OwedIsNext
    <3>4. /\ gone' \cap Of(q) = (gone \cap Of(q)) \cup (ToSet(Peek(q)) \ ToSet(qs[q]))
          /\ dropped' \cap Of(q) = (dropped \cap Of(q)) \cup ToSet(Delivered(q))
      BY <2>2, Withdrawn
    <3>5. ToSet(qs[q]) \subseteq ToSet(Peek(q)) /\ \A X : SortedOn(Peek(q), X) => SortedOn(qs[q], X)
      BY <2>2 DEF Part
    <3>6. InLine(got, qs[q], Of(q), gone', dropped')
      <4>1. InLine(got, Delivered(q) \o Peek(q), Of(q), gone, dropped)
        BY <2>1
      <4> DEFINE g == got
                 d == Delivered(q)
                 p == Peek(q)
                 l == qs[q]
                 of == Of(q)
                 gone_ == gone'
                 drop_ == dropped'
      <4>2. /\ g \in Seq(Nat) /\ d \in Seq(Nat) /\ p \in Seq(Nat) /\ l \in Seq(Nat)
            /\ of \in SUBSET Nat
            /\ InLine(g, d \o p, of, gone, dropped)
            /\ ToSet(l) \subseteq ToSet(p) /\ \A X : SortedOn(p, X) => SortedOn(l, X)
            /\ (gone_ \cap of) = (gone \cap of) \cup (ToSet(p) \ ToSet(l))
            /\ (drop_ \cap of) = (dropped \cap of) \cup ToSet(d)
        BY <2>1, <3>2, <3>4, <3>5, <4>1
      <4> HIDE DEF g, d, p, l, of, gone_, drop_
      <4>3. InLine(g, l, of, gone_, drop_)
        BY <4>2, WithdrawLine, Zenon
      <4> QED BY <4>3 DEF g, l, of, gone_, drop_
    <3> QED BY <3>3, <3>6
  <2>3. CASE q \notin Q
    <3>1. Delivered(q)' = Delivered(q) /\ Claimed(q)' = Claimed(q) /\ queue'[q] = queue[q]
      <4>1. ctl \in Run \cup {None}
        BY <1>0 DEF TypeOK
      <4> QED BY <1>1, <2>3, <4>1 DEF Delivered, Claimed
    <3>2. Owed(q)' = Owed(q)
      BY <2>1, <3>1, OwedIsNext DEF Peek
    <3>3. gone' \cap Of(q) = gone \cap Of(q) /\ dropped' \cap Of(q) = dropped \cap Of(q)
      BY <2>3, Withdrawn
    <3>4. InLine(got, Owed(q), Of(q), gone', dropped')
      BY <2>1, <3>3, LineSame, Zenon
    <3> QED BY <3>2, <3>4
  <2> QED BY <2>2, <2>3
<1>6. Lined'
  BY <1>1, <1>2, <1>5 DEF Lined
<1>7. Delivering'
  <2> SUFFICES ASSUME ctl # None, NEW q \in Queue
               PROVE  InHand(hand[ctl], deliveries'[ctl][q], Of(q), dropped')
    BY <1>1, <1>2 DEF Delivering
  <2>1. InHand(hand[ctl], deliveries[ctl][q], Of(q), dropped) /\ ctl \in Run
    BY <1>0 DEF Delivering, TypeOK
  <2>2. dropped \subseteq dropped'
    BY DEF Change
  <2>3. CASE q \in Q
    <3>1. deliveries'[ctl][q] = <<>>
      BY <1>1, <2>1, <2>3
    <3>2. ToSet(Delivered(q)) \cap Of(q) \subseteq dropped' /\ Delivered(q) = deliveries[ctl][q]
      BY <2>3, Withdrawn DEF Delivered
    <3> QED BY <2>1, <2>2, <3>1, <3>2, EmptySet DEF InHand
  <2>4. CASE q \notin Q
    <3>1. deliveries'[ctl][q] = deliveries[ctl][q]
      BY <1>1, <2>1, <2>4
    <3> QED BY <2>1, <2>2, <3>1 DEF InHand
  <2> QED BY <2>3, <2>4
<1>8. Known'
  <2>1. \A q \in Queue : /\ Of(q) \subseteq DOMAIN accepted
                         /\ ToSet(Delivered(q)) \cup ToSet(Peek(q)) \subseteq Of(q)
    BY <1>0, OfIs, Withdrawn
  <2>2. \A r \in Run, q \in Queue : ToSet(deliveries[r][q]) \subseteq DOMAIN accepted
    <3>1. ASSUME NEW r \in Run, NEW q \in Queue
          PROVE  ToSet(deliveries[r][q]) \subseteq DOMAIN accepted
      <4>1. deliveries[r][q] = <<>> \/ deliveries[r][q] = Delivered(q)
        BY <1>0 DEF Sparse, NoDelivery, Delivered
      <4> QED BY <2>1, <4>1, EmptySet
    <3> QED BY <3>1
  <2>3. UNION {ToSet(deliveries[r][q]) : r \in Run, q \in Q} \subseteq DOMAIN accepted
    BY <2>2
  <2>4. UNION {ToSet(Peek(q)) \ ToSet(qs[q]) : q \in Q} \subseteq DOMAIN accepted
    BY <2>1
  <2>5. gone' \cup dropped' \subseteq DOMAIN accepted
    BY <1>0, <2>3, <2>4 DEF Change
  <2> QED BY <1>0, <1>1, <2>5 DEF Known
<1> QED BY <1>3, <1>4, <1>6, <1>7, <1>8 DEF QInv

\* QInv is inductive.
LEMMA QInvInit == Init => QInv
<1> SUFFICES ASSUME Init PROVE QInv
  OBVIOUS
<1>1. TypeOK /\ IInv
  BY TypeInit, IInvInit
<1>2. Sparse /\ Delivering
  BY DEF Init, Sparse, Delivering
<1>3. HandsPlaced
  BY EmptyPlaced DEF Init, HandsPlaced
<1>4. Known
  BY EmptySet DEF Init, Known
<1>5. \A q \in Queue : Owed(q) = <<>> /\ Of(q) = {}
  <2>1. DOMAIN accepted = {}
    BY DEF Init
  <2> QED BY <2>1 DEF Init, Owed, Of
<1>6. Lined
  <2>1. <<>> \o <<>> = <<>>
    OBVIOUS
  <2> QED BY <1>5, <2>1, EmptySet, EmptySorted DEF Init, Lined, InLine
<1> QED BY <1>1, <1>2, <1>3, <1>4, <1>6 DEF QInv

LEMMA QInvNext == QInv /\ [Next]_vars => QInv'
<1> SUFFICES ASSUME QInv, [Next]_vars PROVE QInv'
  OBVIOUS
<1>0. OwnLeads
  BY DEF QInv, HandsPlaced, Placed, OwnLeads
<1>1. TypeOK' /\ IInv'
  BY <1>0, TypeNext, IInvNext DEF QInv
<1>2. TypeOK /\ \A q \in Queue : Peek(q) \in Seq(Nat)
  BY ListsAre DEF QInv
<1>3. ASSUME NEW r \in Run, RunStep(r) \/ Failure(r) PROVE QInv'
  BY <1>1, <1>3, SupersededKeeps, PollKeeps, TurnKeeps DEF RunStep, Failure
<1>4. ASSUME NEW r \in Run, Prompt(r) \/ Drain(r) PROVE QInv'
  BY <1>1, <1>4, BeginKeeps
<1>5. ASSUME NEW q \in Queue, Enqueue(q) PROVE QInv'
  BY <1>1, <1>5, EnqueueKeeps
<1>6. ASSUME NEW user \in BOOLEAN, Abort(user) PROVE QInv'
  BY <1>1, <1>6, StayKeeps DEF Abort, runVars
<1>7. CASE Pop
  <2> DEFINE qs == [q \in Queue |-> Popped(q)]
  <2>1. Change(Queue, qs) /\ qs \in Lists
    BY <1>2, <1>7, PopIs
  <2>2. \A q \in Queue : Part(Popped(q), Peek(q))
    BY <1>2, <1>7, PopIs, Parts
  <2>3. \A q \in Queue : Part(qs[q], Peek(q))
    BY <2>2
  <2> HIDE DEF qs
  <2> QED BY <1>1, <2>1, <2>3, ChangeKeeps
<1>8. ASSUME NEW Q \in SUBSET Queue, Clear(Q) PROVE QInv'
  <2> DEFINE qs == [q \in Queue |-> <<>>]
  <2>1. Change(Q, qs) /\ qs \in Lists
    BY <1>8 DEF Clear, Lists
  <2>2. \A q \in Q : Part(qs[q], Peek(q))
    BY <1>2, Parts
  <2> HIDE DEF qs
  <2> QED BY <1>1, <2>1, <2>2, ChangeKeeps
<1>9. CASE Reset
  BY <1>1, <1>9, ResetKeeps
<1>10. CASE UNCHANGED vars
  BY <1>1, <1>10, StayKeeps DEF vars
<1>11. {{"steering"}, {"followUp"}, Queue} \subseteq SUBSET Queue
  BY DEF Queue
<1> QED BY <1>3, <1>4, <1>5, <1>6, <1>7, <1>8, <1>9, <1>10, <1>11 DEF Next

(***************************************************************************)
(* What follows from the invariant.                                        *)
(***************************************************************************)

\* The lines, in the words of the property.
LEMMA ConservedAt == TypeOK /\ IInv /\ Lined => Conserved
<1> SUFFICES ASSUME TypeOK, IInv, Lined, NEW q \in Queue
             PROVE  /\ ToSet(Owed(q)) \subseteq Of(q)
                    /\ (Of(q) \cap ToSet(Line(q))) \ dropped = Of(q) \ (gone \cup dropped)
                    /\ \A i, j \in DOMAIN Line(q) :
                         /\ i < j
                         /\ {Line(q)[i], Line(q)[j]} \subseteq Of(q) \ dropped
                         => Line(q)[i] < Line(q)[j]
  BY DEF Conserved
<1>1. got \in Seq(Nat) /\ Owed(q) \in Seq(Nat)
  <2>1. Delivered(q) \in Seq(Nat) /\ Peek(q) \in Seq(Nat) /\ got \in Seq(Nat)
    BY ListsAre
  <2>2. Owed(q) = Delivered(q) \o Peek(q)
    BY OwedIs
  <2> QED BY <2>1, <2>2
<1>2. InLine(got, Owed(q), Of(q), gone, dropped)
  BY DEF Lined
<1>3. ToSet(Line(q)) = ToSet(got) \cup ToSet(Owed(q)) /\ Line(q) \in Seq(Nat)
  BY <1>1, SetConcat DEF Line
<1>4. SortedOn(Line(q), Of(q) \ dropped) /\ DOMAIN Line(q) = 1..Len(Line(q))
  BY <1>2, <1>3 DEF InLine, Line
<1> QED BY <1>2, <1>3, <1>4 DEF InLine, SortedOn

\* A step of run s leaves the hands of the others alone.
HandsOff(s) == \A r \in Run \ {s} : hand'[r] = hand[r]

\* A run's step leaves the hands of the others alone.
LEMMA ToHandsOff ==
  ASSUME TypeOK, NEW s \in Run, NEW place, NEW ms, To(s, place, ms)
  PROVE  HandsOff(s)
BY DEF TypeOK, To, HandsOff

LEMMA ThrewHandsOff ==
  ASSUME TypeOK, NEW s \in Run, NEW ds, NEW qs, NEW block, Threw(s, ds, qs, block)
  PROVE  HandsOff(s)
<1>1. To(s, "free", <<>>)
  BY DEF Threw, Finally
<1> QED BY <1>1, ToHandsOff

LEMMA ReturnedHandsOff ==
  ASSUME TypeOK, NEW s \in Run, NEW ms, NEW ds, NEW qs, Returned(s, ms, ds, qs)
  PROVE  HandsOff(s)
<1>1. CASE Threw(s, ds, qs, {})
  BY <1>1, ThrewHandsOff
<1>2. CASE \E place, h : To(s, place, h)
  BY <1>2, ToHandsOff
<1> QED BY <1>1, <1>2 DEF Returned, Goes, Finally

LEMMA StepHandsOff ==
  ASSUME TypeOK, NEW s \in Run, RunStep(s) \/ Failure(s) \/ Prompt(s) \/ Drain(s)
  PROVE  HandsOff(s)
<1>1. CASE \E place, h : To(s, place, h)
  BY <1>1, ToHandsOff
<1>2. CASE UNCHANGED hand
  BY <1>2 DEF HandsOff
<1>3. CASE \E ds, qs, block : Threw(s, ds, qs, block)
  BY <1>3, ThrewHandsOff
<1>4. CASE \E ms, ds, qs : Returned(s, ms, ds, qs)
  BY <1>4, ReturnedHandsOff
<1>5. CASE StartPoll(s) \/ HooksEnd(s) \/ PrepareEnds(s)
  BY <1>2, <1>4, <1>5 DEF StartPoll, HooksEnd, PrepareEnds, Claim
<1>6. CASE HooksThrow(s) \/ PrepareFails(s) \/ TurnThrows(s)
  BY <1>3, <1>6 DEF HooksThrow, PrepareFails, TurnThrows
<1>7. CASE OpenTurn(s) \/ GateStops(s) \/ Answer(s) \/ CallTools(s) \/ ModelFails(s) \/ Finish(s)
  BY <1>1, <1>7 DEF OpenTurn, GateStops, Answer, CallTools, ModelFails, ModelStep, Finish, Finally
<1>8. CASE Prompt(s) \/ Drain(s)
  BY <1>1, <1>8 DEF Prompt, Drain, Begin
<1> QED BY <1>5, <1>6, <1>7, <1>8 DEF RunStep, Failure

\* A step of a run that is not the current one moves it alone.
Silent(r) ==
    pc[r] # "free" /\ ctl # r /\ Moves(r)
      => UNCHANGED <<queue, claim, deliveries, ctl, streaming, got, tail>>

LEMMA NextSilent ==
  ASSUME QInv, [Next]_vars, NEW r \in Run
  PROVE  Silent(r)
<1>0. TypeOK /\ IInv /\ Sparse
  BY DEF QInv
<1>1. ASSUME NEW s \in Run, RunStep(s) \/ Failure(s) \/ Prompt(s) \/ Drain(s), s # r
      PROVE  Silent(r)
  <2>1. RunEffect(s)
    BY <1>0, <1>1, PollEffects, TurnEffects, BeginEffects DEF RunStep, Failure
  <2>2. pc'[r] = pc[r] /\ step'[r] = step[r]
    BY <1>0, <1>1, <2>1, EffectIsLocal
  <2>3. hand'[r] = hand[r]
    BY <1>0, <1>1, StepHandsOff DEF HandsOff
  <2> QED BY <2>2, <2>3 DEF Silent, Moves
<1>2. CASE RunStep(r) \/ Failure(r)
  BY <1>0, <1>2, SupersededStep DEF Silent
<1>3. CASE Prompt(r) \/ Drain(r)
  BY <1>3 DEF Prompt, Drain, Begin, Silent
<1>4. CASE UNCHANGED <<pc, step, hand>>
  BY <1>4 DEF Silent, Moves
<1>5. ASSUME \/ \E q \in Queue : Enqueue(q)
             \/ \E user \in BOOLEAN : Abort(user)
             \/ Pop
             \/ \E Q \in {{"steering"}, {"followUp"}, Queue} : Clear(Q)
             \/ Reset
      PROVE  UNCHANGED <<pc, step, hand>>
  BY <1>5 DEF Enqueue, Abort, Pop, Clear, Change, Reset, runVars
<1>6. CASE UNCHANGED vars
  BY <1>4, <1>6 DEF vars
<1> QED BY <1>1, <1>2, <1>3, <1>4, <1>5, <1>6 DEF Next

\* Every variable keeps its type: a claim holds a batch that is not empty, of a run and
\* the controller it saw, a run waits for hooks or a preparation only at a poll, and no
\* more messages or faults come than the bounds allow.
THEOREM TypeCorrect == Spec => []TypeOK
<1>1. QInv => TypeOK
  BY DEF QInv
<1> QED BY <1>1, QInvInit, QInvNext, PTL DEF Spec

\* No message is lost, doubled or overtaken: whatever batches, aborts, failures,
\* prompts and resets come, the messages of a queue are in the transcript, in a delivery
\* of the current run, in its claim or in the queue, each once and in the order they were
\* accepted, but for those that were withdrawn, and those whose delivery record a change
\* of the queue deleted while a run had yet to emit them (dropped).  (agent.ts: the claim,
\* the records of the deliveries and what #restoreUndeliveredQueuedMessages puts back.)
THEOREM ConservedHolds == Spec => []Conserved
<1>1. QInv => Conserved
  BY ConservedAt DEF QInv
<1> QED BY <1>1, QInvInit, QInvNext, PTL DEF Spec

\* A run that was aborted and replaced ends without touching the queues, the claims, the
\* deliveries, the transcript or the state of its successor, at whatever await it was.
THEOREM SilentHolds == Spec => AbandonedIsSilent
<1>1. QInv /\ [Next]_vars
        => [\A r \in Run : pc[r] # "free" /\ ctl # r /\ Moves(r)
              => UNCHANGED <<queue, claim, deliveries, ctl, streaming, got, tail>>]_vars
  BY NextSilent DEF Silent
<1> QED BY <1>1, QInvInit, QInvNext, PTL DEF Spec, AbandonedIsSilent

=============================================================================
