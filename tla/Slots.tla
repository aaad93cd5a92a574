------------------------------- MODULE Slots -------------------------------
(***************************************************************************)
(* The counting semaphore of packages/coding-agent/src/task/parallel.ts    *)
(* and its two shared users: provider requests, which bracket one LLM      *)
(* stream each (task/provider-concurrency.ts), and subagent spawns         *)
(* (task/index.ts). Every user re-reads the configured limit and resizes   *)
(* the one shared semaphore in place before it acquires; spawns do so      *)
(* again before they release.                                              *)
(*                                                                         *)
(* A step is the code between two awaits: a waiter that is admitted runs   *)
(* on only when the promise it awaits has been resolved, and its signal    *)
(* may abort in between.                                                   *)
(***************************************************************************)
EXTENDS Naturals, Sequences, FiniteSets, SequencesExt

CONSTANTS
  Requests,  \* streams or spawns; each asks again after it is over
  Limits     \* configured limits: 0 (and anything below) is unlimited

ASSUME SlotsAssumption ==
  /\ IsFiniteSet(Requests)
  /\ Limits \subseteq Nat /\ Limits # {}

VARIABLES
  user,     \* "stream" or "spawn": whose semaphore this is
  max,      \* #max, 0 for Infinity
  current,  \* #current
  queue,    \* #queue, one waiter a request
  pc,       \* where each request stands
  aborted   \* requests whose signal is aborted

vars == <<user, max, current, queue, pc, aborted>>

\* #current < #max
Under(n, m) == m = 0 \/ n < m

Queued == {r \in Requests : pc[r] = "queued"}

\* acquire granted a slot to these, and release has not returned it.
Holders == {r \in Requests : pc[r] \in {"admitted", "held"}}

Init ==
  /\ user \in {"stream", "spawn"}
  /\ max \in Limits
  /\ current = 0
  /\ queue = <<>>
  /\ pc = [r \in Requests |-> "idle"]
  /\ aborted = {}

\* How many of w waiters resize admits: its loop stops at the cap.
Room(n, m, w) ==
  IF m = 0 THEN w
  ELSE IF m <= n THEN 0
  ELSE IF m - n < w THEN m - n ELSE w

\* The first k waiters are called: their requests are admitted, unless their
\* acquire has already been rejected.
Admit(k) ==
  [r \in Requests |-> IF pc[r] = "queued" /\ \E n \in 1 .. k : queue[n] = r
                      THEN "admitted" ELSE pc[r]]

\* Mutant: the waiters are called but stay in the queue.
LeftPeeked(k) == queue

Left(k) == SubSeq(queue, k + 1, Len(queue))

(***************************************************************************)
(* acquire, after the resize to the limit m the request is configured with *)
(***************************************************************************)
\* Mutant: a request that must wait goes to the front of the queue.
EnqueueFirst(q, r) == <<r>> \o q

Enqueue(q, r) == Append(q, r)

Acquire(r, m) ==
  LET k == Room(current, m, Len(queue))
      n == current + k
  IN
  /\ pc[r] = "idle"
  /\ max' = m
  /\ IF r \in aborted
     THEN /\ pc' = Admit(k)
          /\ queue' = Left(k) /\ current' = n
     ELSE IF Under(n, m)
     THEN /\ pc' = [Admit(k) EXCEPT ![r] = "admitted"]
          /\ queue' = Left(k) /\ current' = n + 1
     ELSE /\ pc' = [Admit(k) EXCEPT ![r] = "queued"]
          /\ queue' = Enqueue(Left(k), r) /\ current' = n
  /\ UNCHANGED <<user, aborted>>

\* acquire's promise resolved and its caller runs on: the request goes out, or
\* the spawn starts.
Resume(r) ==
  /\ pc[r] = "admitted"
  /\ pc' = [pc EXCEPT ![r] = "held"]
  /\ UNCHANGED <<user, max, current, queue, aborted>>

(***************************************************************************)
(* release: when the stream's result settles, when the request throws, or  *)
(* in a spawn's finally (a spawn job whose signal aborted returns its      *)
(* permit without starting).                                               *)
(***************************************************************************)
\* Mutant: the slot is returned without a look at the queue.
HandOnNobody(n, m, w) == 0

\* Mutant: the slot is handed on whatever the cap has become.
HandOnBlindly(n, m, w) == IF w > 0 THEN 1 ELSE 0

\* The next waiter is admitted only under the (possibly just lowered) cap.
HandOn(n, m, w) == IF Under(n, m) /\ w > 0 THEN 1 ELSE 0

Release(r, m) ==
  LET resized == IF user = "spawn" THEN Room(current, m, Len(queue)) ELSE 0
      n == IF current + resized > 0 THEN current + resized - 1 ELSE 0
      next == HandOn(n, m, Len(queue) - resized)
      k == resized + next
  IN
  /\ pc[r] = "held"
  /\ user = "stream" => m = max
  /\ max' = m
  /\ current' = n + next
  /\ queue' = Left(k)
  /\ pc' = [Admit(k) EXCEPT ![r] = "idle"]
  /\ aborted' = aborted \ {r}
  /\ UNCHANGED user

(***************************************************************************)
(* The caller's signal: a queued waiter is spliced out and its acquire     *)
(* rejects; one that is already admitted keeps its slot and returns it.    *)
(***************************************************************************)
\* onAbort
Splice(r) == \E n \in 1 .. Len(queue) : queue[n] = r /\ queue' = RemoveAt(queue, n)

Abort(r) ==
  /\ r \notin aborted
  /\ aborted' = aborted \cup {r}
  /\ IF pc[r] = "queued"
     THEN Splice(r) /\ pc' = [pc EXCEPT ![r] = "idle"]
     ELSE UNCHANGED <<queue, pc>>
  /\ UNCHANGED <<user, max, current>>

\* The request is over and its next attempt comes with a fresh signal.
Renew(r) ==
  /\ pc[r] = "idle" /\ r \in aborted
  /\ aborted' = aborted \ {r}
  /\ UNCHANGED <<user, max, current, queue, pc>>

Next ==
  \E r \in Requests :
    \/ Resume(r) \/ Abort(r) \/ Renew(r)
    \/ \E m \in Limits : Acquire(r, m) \/ Release(r, m)

(***************************************************************************)
(* The event loop runs every continuation, and every stream or spawn that  *)
(* holds a slot ends.                                                      *)
(***************************************************************************)
Fairness ==
  \A r \in Requests : WF_vars(Resume(r)) /\ WF_vars(\E m \in Limits : Release(r, m))

Spec == Init /\ [][Next]_vars
FairSpec == Spec /\ Fairness

-----------------------------------------------------------------------------
(***************************************************************************)
(* Properties.                                                             *)
(***************************************************************************)
\* Every variable keeps its range, and a request waits at most once.
TypeOK ==
  /\ user \in {"stream", "spawn"}
  /\ max \in Limits /\ current \in Nat
  /\ queue \in Seq(Requests) /\ IsInjective(queue)
  /\ pc \in [Requests -> {"idle", "queued", "admitted", "held"}]
  /\ aborted \subseteq Requests

\* The counter is exact: neither an abort racing an admission nor a resize
\* under load loses a slot or counts one twice (#3464, "permanently shrinking
\* effective concurrency").
SlotsAccounted == current = Cardinality(Holders)

\* The queue holds exactly the requests whose acquire is pending.
WaitersQueued == {queue[n] : n \in 1 .. Len(queue)} = Queued

\* The waiters called before r.
Ahead(r) == {queue[p] : p \in {p \in 1 .. Len(queue) :
                               \E n \in p + 1 .. Len(queue) : queue[n] = r}}

\* Waiters are served in the order they queued: as long as a request waits, nobody
\* joins those ahead of it and only they are admitted, across resizes, aborts and
\* newcomers.
FirstCome ==
  [][\A r \in Requests : pc[r] = "queued" /\ pc'[r] = "queued"
       => Ahead(r)' \subseteq Ahead(r) /\ Holders' \ Holders \subseteq Ahead(r)]_vars

Pool == INSTANCE SlotPool WITH Caps <- Limits, cap <- max, waiting <- Queued,
                               holding <- Holders

\* The limiter keeps the promise of SlotPool: no admission exceeds the cap in
\* force, even one lowered meanwhile or mixed between sessions, and no waiter is
\* left beside a free slot.
KeepsCap == Pool!PoolSpec

\* A waiter is admitted or gives up, however many others arrive.
WaiterServed == \A r \in Requests : pc[r] = "queued" ~> pc[r] # "queued"
=============================================================================
