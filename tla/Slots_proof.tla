---------------------------- MODULE Slots_proof ----------------------------
(***************************************************************************)
(* Proofs about Slots for every set of requests and limits: the counter is *)
(* exact, the limiter implements SlotPool, and waiters are served in the   *)
(* order they queued. IInv adds to the properties that the queue holds     *)
(* exactly the pending requests and that nobody waits beside a free slot,  *)
(* which is what makes a newcomer's fast path fair.                        *)
(***************************************************************************)
EXTENDS Slots, FiniteSetTheorems, SequenceTheorems, TLAPS

NoFreeSlot == queue # <<>> => ~Under(current, max)

IInv == TypeOK /\ SlotsAccounted /\ WaitersQueued /\ NoFreeSlot

\* The requests of the first k waiters.
Called(k) == {queue[n] : n \in 1 .. k}

(***************************************************************************)
(* Arithmetic of the admission loops.                                      *)
(***************************************************************************)
\* resize admits waiters only up to the new cap, and stops short of the last
\* waiter only when the cap is reached.
LEMMA RoomBound ==
  ASSUME NEW n \in Nat, NEW m \in Nat, NEW w \in Nat
  PROVE  /\ Room(n, m, w) \in 0 .. w
         /\ Room(n, m, w) > 0 => m = 0 \/ n + Room(n, m, w) <= m
         /\ Room(n, m, w) < w => ~Under(n + Room(n, m, w), m)
BY DEF Room, Under

\* A releaser hands its slot to one waiter if the cap leaves room for it.
LEMMA HandOnBound ==
  ASSUME NEW n \in Nat, NEW m \in Nat, NEW w \in Nat
  PROVE  /\ HandOn(n, m, w) \in {0, 1} /\ HandOn(n, m, w) <= w
         /\ HandOn(n, m, w) > 0 => m = 0 \/ n + HandOn(n, m, w) <= m
         /\ HandOn(n, m, w) = 0 /\ w > 0 => ~Under(n, m)
BY DEF HandOn, Under

(***************************************************************************)
(* Calling the first k waiters.                                            *)
(***************************************************************************)
\* The waiters left behind are the rest of the queue, in its order.
LEMMA LeftFacts ==
  ASSUME TypeOK, NEW k \in 0 .. Len(queue)
  PROVE  /\ Left(k) \in Seq(Requests) /\ Len(Left(k)) = Len(queue) - k
         /\ \A n \in 1 .. Len(queue) - k : Left(k)[n] = queue[n + k]
         /\ IsInjective(Left(k))
<1>1. Len(queue) \in Nat /\ \A i \in k + 1 .. Len(queue) : queue[i] \in Requests
  BY DEF TypeOK
<1>2. /\ Left(k) \in Seq(Requests) /\ Len(Left(k)) = Len(queue) - k
      /\ \A n \in 1 .. Len(queue) - k : Left(k)[n] = queue[n + k]
  <2> HIDE DEF Left
  <2>1. /\ Left(k) \in Seq(Requests)
        /\ Len(Left(k)) = IF k + 1 <= Len(queue) THEN Len(queue) - (k + 1) + 1 ELSE 0
        /\ \A i \in 1 .. Len(queue) - (k + 1) + 1 : Left(k)[i] = queue[(k + 1) + i - 1]
    BY <1>1, SubSeqProperties, k + 1 \in Int, Len(queue) \in Int DEF Left
  <2> QED BY <2>1, <1>1
<1>3. \A a, b \in 1 .. Len(queue) - k : Left(k)[a] = Left(k)[b] => a = b
  <2> TAKE a, b \in 1 .. Len(queue) - k
  <2> HAVE Left(k)[a] = Left(k)[b]
  <2>1. queue[a + k] = queue[b + k]
    BY <1>2
  <2>2. a + k \in DOMAIN queue /\ b + k \in DOMAIN queue
    BY <1>1 DEF TypeOK
  <2> QED BY <2>1, <2>2 DEF TypeOK, IsInjective
<1>4. DOMAIN Left(k) = 1 .. Len(queue) - k
  BY <1>2, <1>1
<1> QED BY <1>2, <1>3, <1>4 DEF IsInjective

\* As many requests are called as waiters, all of them pending; those left in
\* the queue are the other pending ones.
LEMMA CalledFacts ==
  ASSUME TypeOK, WaitersQueued, NEW k \in 0 .. Len(queue)
  PROVE  /\ Called(k) \subseteq Queued
         /\ IsFiniteSet(Called(k)) /\ Cardinality(Called(k)) = k
         /\ {Left(k)[n] : n \in 1 .. Len(Left(k))} = Queued \ Called(k)
<1>0. Len(queue) \in Nat /\ DOMAIN queue = 1 .. Len(queue)
  BY DEF TypeOK
<1>1. Called(k) \subseteq Queued
  BY <1>0 DEF Called, WaitersQueued
<1>2. IsFiniteSet(Called(k)) /\ Cardinality(Called(k)) = k
  <2> DEFINE f == [n \in 1 .. k |-> queue[n]]
  <2>1. f \in Bijection(1 .. k, Called(k))
    BY <1>0 DEF Bijection, Injection, Surjection, IsInjective, Called, TypeOK
  <2>2. ExistsBijection(1 .. k, Called(k))
    BY <2>1 DEF ExistsBijection
  <2>3. IsFiniteSet(1 .. k) /\ Cardinality(1 .. k) = k
    <3>1. k \in Nat
      BY <1>0
    <3>2. /\ IsFiniteSet(1 .. k)
          /\ Cardinality(1 .. k) = IF 1 > k THEN 0 ELSE k - 1 + 1
      BY <3>1, FS_Interval
    <3> QED BY <3>1, <3>2
  <2> QED BY <2>2, <2>3, FS_Bijection
<1>3. {Left(k)[n] : n \in 1 .. Len(Left(k))} = {queue[n] : n \in k + 1 .. Len(queue)}
  <2>1. \A n \in 1 .. Len(queue) - k : n + k \in k + 1 .. Len(queue)
    BY <1>0
  <2>2. \A n \in k + 1 .. Len(queue) : n - k \in 1 .. Len(queue) - k /\ (n - k) + k = n
    BY <1>0
  <2>3. Len(Left(k)) = Len(queue) - k
    BY LeftFacts
  <2>4. \A n \in 1 .. Len(queue) - k : Left(k)[n] = queue[n + k]
    BY LeftFacts
  <2> HIDE DEF Left
  <2>5. \A n \in 1 .. Len(queue) - k : \E p \in k + 1 .. Len(queue) : Left(k)[n] = queue[p]
    BY <2>1, <2>4
  <2>6. \A p \in k + 1 .. Len(queue) : \E n \in 1 .. Len(queue) - k : queue[p] = Left(k)[n]
    <3> TAKE p \in k + 1 .. Len(queue)
    <3>1. Left(k)[p - k] = queue[(p - k) + k]
      BY <2>2, <2>4
    <3> QED BY <3>1, <2>2
  <2>7. {Left(k)[n] : n \in 1 .. Len(queue) - k} = {queue[n] : n \in k + 1 .. Len(queue)}
    <3> DEFINE A == {Left(k)[n] : n \in 1 .. Len(queue) - k}
               B == {queue[n] : n \in k + 1 .. Len(queue)}
    <3>1. \A x \in A : x \in B
      BY <2>5
    <3>2. \A x \in B : x \in A
      BY <2>6
    <3> QED BY <3>1, <3>2
  <2> QED BY <2>3, <2>7
<1>4. {queue[n] : n \in k + 1 .. Len(queue)} = Queued \ Called(k)
  <2>1. \A a \in 1 .. k, b \in k + 1 .. Len(queue) : queue[a] # queue[b]
    <3> TAKE a \in 1 .. k, b \in k + 1 .. Len(queue)
    <3>1. a \in DOMAIN queue /\ b \in DOMAIN queue /\ a # b
      BY <1>0
    <3> QED BY <3>1 DEF TypeOK, IsInjective
  <2>2. \A n \in 1 .. Len(queue) : n \in 1 .. k \/ n \in k + 1 .. Len(queue)
    BY <1>0
  <2> QED BY <2>1, <2>2, <1>0 DEF Called, WaitersQueued
<1> QED BY <1>1, <1>2, <1>3, <1>4

\* Who is pending and who holds a slot once the first k waiters were called.
LEMMA AdmitFacts ==
  ASSUME TypeOK, WaitersQueued, SlotsAccounted, NEW k \in 0 .. Len(queue)
  PROVE  /\ Admit(k) \in [Requests -> {"idle", "queued", "admitted", "held"}]
         /\ {r \in Requests : Admit(k)[r] = "queued"} = Queued \ Called(k)
         /\ {r \in Requests : Admit(k)[r] \in {"admitted", "held"}} = Holders \cup Called(k)
         /\ IsFiniteSet(Holders \cup Called(k))
         /\ Cardinality(Holders \cup Called(k)) = current + k
<1>1. \A r \in Requests : Admit(k)[r] = IF r \in Called(k) THEN "admitted" ELSE pc[r]
  <2>1. \A r \in Requests : (\E n \in 1 .. k : queue[n] = r) <=> r \in Called(k)
    BY DEF Called
  <2> QED BY <2>1, CalledFacts DEF Admit, Queued
<1>2. /\ Admit(k) \in [Requests -> {"idle", "queued", "admitted", "held"}]
      /\ {r \in Requests : Admit(k)[r] = "queued"} = Queued \ Called(k)
      /\ {r \in Requests : Admit(k)[r] \in {"admitted", "held"}} = Holders \cup Called(k)
  <2>1. Admit(k) \in [Requests -> {"idle", "queued", "admitted", "held"}]
    BY DEF Admit, TypeOK
  <2> HIDE DEF Admit
  <2> QED BY <1>1, <2>1, CalledFacts DEF Queued, Holders, TypeOK
<1>3. Holders \cap Called(k) = {}
  BY CalledFacts DEF Holders, Queued
<1>4. IsFiniteSet(Holders)
  BY FS_Subset, SlotsAssumption DEF Holders
<1>5. /\ IsFiniteSet(Holders \cup Called(k))
      /\ Cardinality(Holders \cup Called(k))
           = Cardinality(Holders) + Cardinality(Called(k)) - Cardinality({})
  <2>1. IsFiniteSet(Called(k))
    BY CalledFacts
  <2>2. /\ IsFiniteSet(Holders \cup Called(k))
        /\ Cardinality(Holders \cup Called(k))
             = Cardinality(Holders) + Cardinality(Called(k)) - Cardinality(Holders \cap Called(k))
    BY <2>1, <1>4, FS_Union
  <2> QED BY <2>2, <1>3
<1> QED BY <1>2, <1>5, CalledFacts, FS_EmptySet DEF SlotsAccounted, TypeOK

\* What is left when the waiter at p is spliced out.
LEMMA RemoveAtIs ==
  ASSUME NEW q \in Seq(Requests), NEW p \in 1 .. Len(q)
  PROVE  /\ RemoveAt(q, p) \in Seq(Requests) /\ Len(RemoveAt(q, p)) = Len(q) - 1
         /\ \A j \in 1 .. Len(q) - 1 : RemoveAt(q, p)[j] = IF j < p THEN q[j] ELSE q[j + 1]
<1> DEFINE front == SubSeq(q, 1, p - 1)
           back == SubSeq(q, p + 1, Len(q))
<1>0. Len(q) \in Nat /\ p \in Nat /\ \A i \in 1 .. Len(q) : q[i] \in Requests
  OBVIOUS
<1>1. /\ front \in Seq(Requests) /\ Len(front) = p - 1
      /\ \A i \in 1 .. p - 1 : front[i] = q[i]
  BY <1>0
<1>2. /\ back \in Seq(Requests) /\ Len(back) = Len(q) - p
      /\ \A i \in 1 .. Len(q) - p : back[i] = q[i + p]
  BY <1>0
<1> HIDE DEF front, back
<1>3. /\ front \o back \in Seq(Requests) /\ Len(front \o back) = Len(front) + Len(back)
      /\ \A i \in 1 .. Len(front) + Len(back) :
           (front \o back)[i] = IF i <= Len(front) THEN front[i] ELSE back[i - Len(front)]
  BY <1>1, <1>2, ConcatProperties
<1>4. RemoveAt(q, p) = front \o back
  BY DEF RemoveAt, front, back
<1>5. \A j \in 1 .. Len(q) - 1 : (front \o back)[j] = IF j < p THEN q[j] ELSE q[j + 1]
  <2> TAKE j \in 1 .. Len(q) - 1
  <2>1. CASE j < p
    BY <2>1, <1>0, <1>1, <1>2, <1>3
  <2>2. CASE ~(j < p)
    <3>1. (front \o back)[j] = back[j - (p - 1)]
      BY <2>2, <1>0, <1>1, <1>2, <1>3
    <3>2. back[j - (p - 1)] = q[(j - (p - 1)) + p] /\ (j - (p - 1)) + p = j + 1
      BY <2>2, <1>0, <1>2
    <3> QED BY <3>1, <3>2, <2>2
  <2> QED BY <2>1, <2>2
<1>6. Len(front \o back) = Len(q) - 1
  BY <1>0, <1>1, <1>2, <1>3
<1> HIDE DEF RemoveAt
<1> QED BY <1>3, <1>4, <1>5, <1>6

(***************************************************************************)
(* One step.                                                               *)
(***************************************************************************)
\* acquire keeps IInv. The resize it begins with, and its own fast path, admit
\* within the limit m it brings along; with nobody admitted, nothing is claimed of
\* holders beyond it.
LEMMA AcquireKeeps ==
  ASSUME IInv, NEW r \in Requests, NEW m \in Limits, Acquire(r, m)
  PROVE  /\ IInv'
         /\ r \notin Queued \cup Holders
         /\ max' = m
         /\ Holders' # Holders => m = 0 \/ current' <= m
         /\ Holders \subseteq Holders'
         /\ \/ Holders' \subseteq Holders \cup Queued /\ Queued' = Queued \ Holders'
            \/ /\ Holders' \subseteq Holders \cup (Queued \cup {r})
               /\ Queued' = (Queued \cup {r}) \ Holders'
<1> DEFINE k == Room(current, m, Len(queue))
<1>0. current \in Nat /\ m \in Nat /\ Len(queue) \in Nat /\ pc[r] = "idle"
  BY SlotsAssumption DEF IInv, TypeOK, Acquire
<1>1. /\ k \in 0 .. Len(queue)
      /\ k > 0 => m = 0 \/ current + k <= m
      /\ k < Len(queue) => ~Under(current + k, m)
  BY <1>0, RoomBound
<1> HIDE DEF k
<1>2. /\ Left(k) \in Seq(Requests) /\ Len(Left(k)) = Len(queue) - k
      /\ IsInjective(Left(k))
  BY <1>1, LeftFacts DEF IInv
<1>3. {Left(k)[n] : n \in 1 .. Len(Left(k))} = Queued \ Called(k)
  BY <1>1, CalledFacts DEF IInv
<1>4. /\ Admit(k) \in [Requests -> {"idle", "queued", "admitted", "held"}]
      /\ {x \in Requests : Admit(k)[x] = "queued"} = Queued \ Called(k)
      /\ {x \in Requests : Admit(k)[x] \in {"admitted", "held"}} = Holders \cup Called(k)
      /\ IsFiniteSet(Holders \cup Called(k))
      /\ Cardinality(Holders \cup Called(k)) = current + k
  BY <1>1, AdmitFacts DEF IInv
<1>5. r \notin Queued /\ r \notin Holders \cup Called(k)
  BY <1>0, <1>1, CalledFacts DEF IInv, Queued, Holders
<1>6. Left(k) # <<>> => ~Under(current + k, m)
  BY <1>0, <1>1, <1>2
<1>10. Called(k) \subseteq Queued /\ Queued \cap Holders = {}
  BY <1>1, CalledFacts DEF IInv, Queued, Holders
<1>11. Called(k) # {} => m = 0 \/ current + k <= m
  BY <1>0, <1>1 DEF Called
<1> HIDE DEF Left, Admit
<1>7. CASE r \in aborted
  <2>1. /\ max' = m /\ pc' = Admit(k) /\ queue' = Left(k) /\ current' = current + k
        /\ user' = user /\ aborted' = aborted
    BY <1>7 DEF Acquire, k
  <2>2. Queued' = Queued \ Called(k) /\ Holders' = Holders \cup Called(k)
    BY <2>1, <1>4 DEF Queued, Holders
  <2>3. TypeOK'
    BY <2>1, <1>0, <1>1, <1>2, <1>4 DEF IInv, TypeOK
  <2>4. IInv'
    BY <2>1, <2>2, <2>3, <1>3, <1>4, <1>6 DEF IInv, SlotsAccounted, WaitersQueued, NoFreeSlot
  <2> QED BY <2>1, <2>2, <2>4, <1>5, <1>10, <1>11
<1>8. CASE r \notin aborted /\ Under(current + k, m)
  <2>1. /\ max' = m /\ pc' = [Admit(k) EXCEPT ![r] = "admitted"] /\ queue' = Left(k)
        /\ current' = current + k + 1 /\ user' = user /\ aborted' = aborted
    BY <1>8 DEF Acquire, k
  <2>2. Queued' = Queued \ Called(k)
    BY <2>1, <1>4, <1>5 DEF Queued
  <2>3. Holders' = (Holders \cup Called(k)) \cup {r}
    BY <2>1, <1>4 DEF Holders
  <2>4. Cardinality(Holders') = current'
    BY <2>1, <2>3, <1>4, <1>5, <1>0, FS_AddElement
  <2>5. TypeOK'
    BY <2>1, <1>0, <1>1, <1>2, <1>4 DEF IInv, TypeOK
  <2>6. IInv'
    BY <2>1, <2>2, <2>4, <2>5, <1>3, <1>6, <1>8
       DEF IInv, SlotsAccounted, WaitersQueued, NoFreeSlot
  <2>7. m = 0 \/ current' <= m
    BY <2>1, <1>0, <1>1, <1>8 DEF Under
  <2> QED BY <2>1, <2>2, <2>3, <2>6, <2>7, <1>5, <1>10
<1>9. CASE r \notin aborted /\ ~Under(current + k, m)
  <2>1. /\ max' = m /\ pc' = [Admit(k) EXCEPT ![r] = "queued"]
        /\ queue' = Append(Left(k), r)
        /\ current' = current + k /\ user' = user /\ aborted' = aborted
    BY <1>9 DEF Acquire, Enqueue, k
  <2>2. Queued' = (Queued \ Called(k)) \cup {r}
    BY <2>1, <1>4 DEF Queued
  <2>3. Holders' = Holders \cup Called(k)
    BY <2>1, <1>4, <1>5 DEF Holders
  <2>4. /\ queue' \in Seq(Requests) /\ Len(queue') = Len(Left(k)) + 1
        /\ \A i \in 1 .. Len(Left(k)) : queue'[i] = Left(k)[i]
        /\ queue'[Len(Left(k)) + 1] = r
    BY <2>1, <1>2, AppendProperties
  <2>5. \A i \in 1 .. Len(Left(k)) : Left(k)[i] # r
    BY <1>3, <1>5
  <2>6. Len(Left(k)) \in Nat /\ DOMAIN queue' = 1 .. Len(Left(k)) + 1
        /\ DOMAIN Left(k) = 1 .. Len(Left(k))
    BY <2>4, <1>2
  <2>7. IsInjective(queue')
    <3>1. \A a, b \in 1 .. Len(Left(k)) + 1 : queue'[a] = queue'[b] => a = b
      <4> TAKE a, b \in 1 .. Len(Left(k)) + 1
      <4> HAVE queue'[a] = queue'[b]
      <4>1. CASE a \in 1 .. Len(Left(k)) /\ b \in 1 .. Len(Left(k))
        BY <4>1, <2>4, <2>6, <1>2 DEF IsInjective
      <4>2. CASE a = Len(Left(k)) + 1 \/ b = Len(Left(k)) + 1
        BY <4>2, <2>4, <2>5, <2>6
      <4> QED BY <4>1, <4>2, <2>6
    <3> QED BY <3>1, <2>6 DEF IsInjective
  <2>8. WaitersQueued'
    <3>1. {queue'[n] : n \in 1 .. Len(queue')}
            = {Left(k)[n] : n \in 1 .. Len(Left(k))} \cup {r}
      BY <2>4, <2>6
    <3> QED BY <3>1, <2>2, <1>3 DEF WaitersQueued
  <2>9. TypeOK'
    BY <2>1, <2>4, <2>7, <1>0, <1>1, <1>4 DEF IInv, TypeOK
  <2>10. IInv'
    BY <2>1, <2>3, <2>8, <2>9, <1>4, <1>9 DEF IInv, SlotsAccounted, NoFreeSlot
  <2> QED BY <2>1, <2>2, <2>3, <2>10, <1>5, <1>10, <1>11
<1> QED BY <1>7, <1>8, <1>9

\* How many waiters a release calls, and what the counter becomes.
LEMMA ReleaseFacts ==
  ASSUME IInv, NEW r \in Requests, NEW m \in Limits, Release(r, m)
  PROVE  \E k \in 0 .. Len(queue) :
           /\ current' = current + k - 1 /\ current' \in Nat
           /\ max' = m /\ user' = user /\ aborted' = aborted \ {r}
           /\ queue' = Left(k)
           /\ pc' = [Admit(k) EXCEPT ![r] = "idle"]
           /\ k < Len(queue) => ~Under(current', m)
           /\ k > 0 => m = 0 \/ current' <= m
<1> DEFINE resized == IF user = "spawn" THEN Room(current, m, Len(queue)) ELSE 0
           next == HandOn(current + resized - 1, m, Len(queue) - resized)
<1>0. /\ current \in Nat /\ m \in Nat /\ max \in Nat /\ Len(queue) \in Nat
      /\ user = "stream" => m = max
  BY SlotsAssumption DEF IInv, TypeOK, Release
<1>1. current > 0
  <2>1. r \in Holders /\ IsFiniteSet(Holders)
    BY FS_Subset, SlotsAssumption DEF Release, Holders
  <2>2. Cardinality(Holders) # 0
    BY <2>1, FS_EmptySet
  <2> QED BY <2>2, <1>0 DEF IInv, SlotsAccounted
<1>2. /\ Room(current, m, Len(queue)) \in 0 .. Len(queue)
      /\ Room(current, m, Len(queue)) > 0
           => m = 0 \/ current + Room(current, m, Len(queue)) <= m
      /\ Room(current, m, Len(queue)) < Len(queue)
           => ~Under(current + Room(current, m, Len(queue)), m)
  BY <1>0, RoomBound
<1>3. resized \in 0 .. Len(queue)
  BY <1>0, <1>2
<1>4. resized > 0 => m = 0 \/ current + resized <= m
  BY <1>2
<1>5. resized < Len(queue) => ~Under(current + resized, m)
  <2>1. CASE user = "spawn"
    BY <2>1, <1>2
  <2>2. CASE user # "spawn"
    <3>1. user = "stream" /\ resized = 0
      BY <2>2 DEF IInv, TypeOK
    <3>2. Len(queue) > 0 => queue # <<>>
      OBVIOUS
    <3> QED BY <3>1, <3>2, <1>0 DEF IInv, NoFreeSlot
  <2> QED BY <2>1, <2>2
<1> HIDE DEF resized
<1>6. current + resized - 1 \in Nat /\ Len(queue) - resized \in Nat
  BY <1>0, <1>1, <1>3
<1>7. /\ next \in {0, 1} /\ next <= Len(queue) - resized
      /\ next > 0 => m = 0 \/ current + resized - 1 + next <= m
      /\ next = 0 /\ Len(queue) - resized > 0 => ~Under(current + resized - 1, m)
  BY <1>6, <1>0, HandOnBound
<1> DEFINE k == resized + next
<1>8. /\ max' = m /\ user' = user /\ aborted' = aborted \ {r}
      /\ current' = current + resized - 1 + next
      /\ queue' = Left(k) /\ pc' = [Admit(k) EXCEPT ![r] = "idle"]
  <2>1. current + resized > 0
    BY <1>6, <1>0, <1>1, <1>3
  <2> HIDE DEF Left, Admit, HandOn
  <2> QED BY <2>1 DEF Release, resized
<1> HIDE DEF next
<1>9. k \in 0 .. Len(queue) /\ current' = current + k - 1 /\ current' \in Nat
  BY <1>0, <1>3, <1>6, <1>7, <1>8
<1>10. k < Len(queue) => ~Under(current', m)
  BY <1>0, <1>3, <1>5, <1>6, <1>7, <1>8 DEF Under
<1>11. k > 0 => m = 0 \/ current' <= m
  BY <1>0, <1>3, <1>4, <1>6, <1>7, <1>8
<1> HIDE DEF k
<1> QED BY <1>8, <1>9, <1>10, <1>11

\* release keeps IInv.
LEMMA ReleaseKeeps ==
  ASSUME IInv, NEW r \in Requests, NEW m \in Limits, Release(r, m)
  PROVE  /\ IInv'
         /\ \E k \in 0 .. Len(queue) :
              /\ Queued' = Queued \ Called(k)
              /\ Holders' = (Holders \cup Called(k)) \ {r}
              /\ Called(k) \subseteq Queued
              /\ max' = m
              /\ Called(k) # {} => m = 0 \/ current' <= m
<1>1. PICK k \in 0 .. Len(queue) :
           /\ current' = current + k - 1 /\ current' \in Nat
           /\ max' = m /\ user' = user /\ aborted' = aborted \ {r}
           /\ queue' = Left(k)
           /\ pc' = [Admit(k) EXCEPT ![r] = "idle"]
           /\ k < Len(queue) => ~Under(current', m)
           /\ k > 0 => m = 0 \/ current' <= m
  BY ReleaseFacts
<1>2. /\ Left(k) \in Seq(Requests) /\ Len(Left(k)) = Len(queue) - k
      /\ IsInjective(Left(k))
  BY LeftFacts DEF IInv
<1>3. /\ Called(k) \subseteq Queued
      /\ {Left(k)[n] : n \in 1 .. Len(Left(k))} = Queued \ Called(k)
  BY CalledFacts DEF IInv
<1>4. /\ Admit(k) \in [Requests -> {"idle", "queued", "admitted", "held"}]
      /\ {x \in Requests : Admit(k)[x] = "queued"} = Queued \ Called(k)
      /\ {x \in Requests : Admit(k)[x] \in {"admitted", "held"}} = Holders \cup Called(k)
      /\ IsFiniteSet(Holders \cup Called(k))
      /\ Cardinality(Holders \cup Called(k)) = current + k
  BY AdmitFacts DEF IInv
<1>5. r \in Holders /\ r \notin Queued
  BY DEF Release, Holders, Queued
<1>6. current \in Nat /\ Len(queue) \in Nat
  BY DEF IInv, TypeOK
<1> HIDE DEF Left, Admit
<1>7. Queued' = Queued \ Called(k)
  BY <1>1, <1>4, <1>5 DEF Queued
<1>8. Holders' = (Holders \cup Called(k)) \ {r}
  BY <1>1, <1>4 DEF Holders
<1>9. Cardinality(Holders') = current'
  <2>1. r \in Holders \cup Called(k)
    BY <1>5
  <2>2. Cardinality((Holders \cup Called(k)) \ {r}) = Cardinality(Holders \cup Called(k)) - 1
    BY <2>1, <1>4, FS_RemoveElement
  <2> QED BY <2>2, <1>8, <1>4, <1>1, <1>6
<1>10. TypeOK'
  BY <1>1, <1>2, <1>4 DEF IInv, TypeOK
<1>11. NoFreeSlot'
  BY <1>1, <1>2, <1>6 DEF NoFreeSlot
<1>12. Called(k) # {} => k > 0
  BY DEF Called
<1> QED BY <1>1, <1>2, <1>3, <1>7, <1>8, <1>9, <1>10, <1>11, <1>12
        DEF IInv, SlotsAccounted, WaitersQueued

\* An abort keeps IInv: a pending request leaves the queue, nobody else moves.
LEMMA AbortKeeps ==
  ASSUME IInv, NEW r \in Requests, Abort(r)
  PROVE  /\ IInv' /\ Holders' = Holders /\ max' = max
         /\ Queued' = Queued \ {r}
<1>1. CASE pc[r] # "queued"
  <2>1. UNCHANGED <<user, max, current, queue, pc>> /\ aborted' = aborted \cup {r}
    BY <1>1 DEF Abort
  <2>2. Queued' = Queued /\ Holders' = Holders /\ r \notin Queued
    BY <2>1, <1>1 DEF Queued, Holders
  <2>3. TypeOK'
    BY <2>1 DEF IInv, TypeOK
  <2> QED BY <2>1, <2>2, <2>3
          DEF IInv, SlotsAccounted, WaitersQueued, NoFreeSlot
<1>2. CASE pc[r] = "queued"
  <2>1. PICK p \in 1 .. Len(queue) : queue[p] = r /\ queue' = RemoveAt(queue, p)
    BY <1>2 DEF Abort, Splice
  <2>2. /\ UNCHANGED <<user, max, current>> /\ aborted' = aborted \cup {r}
        /\ pc' = [pc EXCEPT ![r] = "idle"]
    BY <1>2 DEF Abort
  <2>3. Queued' = Queued \ {r} /\ Holders' = Holders
    BY <2>2, <1>2 DEF Queued, Holders, IInv, TypeOK
  <2>4. Len(queue) \in Nat /\ DOMAIN queue = 1 .. Len(queue)
    BY DEF IInv, TypeOK
  <2>5. /\ queue' \in Seq(Requests) /\ Len(queue') = Len(queue) - 1
        /\ \A j \in 1 .. Len(queue) - 1 : queue'[j] = IF j < p THEN queue[j] ELSE queue[j + 1]
    <3>1. queue \in Seq(Requests)
      BY DEF IInv, TypeOK
    <3>2. /\ RemoveAt(queue, p) \in Seq(Requests) /\ Len(RemoveAt(queue, p)) = Len(queue) - 1
          /\ \A j \in 1 .. Len(queue) - 1 :
               RemoveAt(queue, p)[j] = IF j < p THEN queue[j] ELSE queue[j + 1]
      BY <3>1, RemoveAtIs
    <3> HIDE DEF RemoveAt
    <3> QED BY <3>2, <2>1
  <2>6. DOMAIN queue' = 1 .. Len(queue) - 1
    BY <2>4, <2>5
  <2>7. IsInjective(queue')
    <3>1. \A a, b \in 1 .. Len(queue) : queue[a] = queue[b] => a = b
      BY <2>4 DEF IInv, TypeOK, IsInjective
    <3>2. \A a, b \in 1 .. Len(queue) - 1 : queue'[a] = queue'[b] => a = b
      <4> TAKE a, b \in 1 .. Len(queue) - 1
      <4> HAVE queue'[a] = queue'[b]
      <4>1. /\ a \in 1 .. Len(queue) /\ a + 1 \in 1 .. Len(queue)
            /\ b \in 1 .. Len(queue) /\ b + 1 \in 1 .. Len(queue)
        BY <2>4
      <4>2. (IF a < p THEN queue[a] ELSE queue[a + 1]) = (IF b < p THEN queue[b] ELSE queue[b + 1])
        BY <2>5
      <4>3. (IF a < p THEN a ELSE a + 1) = (IF b < p THEN b ELSE b + 1)
        BY <4>1, <4>2, <3>1
      <4> QED BY <4>3, <2>4
    <3> QED BY <3>2, <2>6 DEF IsInjective
  <2>8. WaitersQueued'
    <3>1. \A j \in 1 .. Len(queue) - 1 : \E n \in 1 .. Len(queue) : queue'[j] = queue[n] /\ n # p
      BY <2>1, <2>4, <2>5
    <3>2. \A n \in 1 .. Len(queue) : n # p => \E j \in 1 .. Len(queue) - 1 : queue'[j] = queue[n]
      <4> TAKE n \in 1 .. Len(queue)
      <4> HAVE n # p
      <4>1. CASE n < p
        BY <4>1, <2>1, <2>4, <2>5
      <4>2. CASE n > p
        <5>1. n - 1 \in 1 .. Len(queue) - 1 /\ queue'[n - 1] = queue[(n - 1) + 1]
          BY <4>2, <2>1, <2>4, <2>5
        <5> QED BY <5>1, <2>4
      <4> QED BY <4>1, <4>2, <2>1, <2>4
    <3>3. \A n \in 1 .. Len(queue) : queue[n] = r => n = p
      BY <2>1, <2>4 DEF IInv, TypeOK, IsInjective
    <3>4. {queue[n] : n \in 1 .. Len(queue)} = Queued
      BY DEF IInv, WaitersQueued
    <3>5. \A j \in 1 .. Len(queue') : queue'[j] \in Queued'
      BY <3>1, <3>3, <3>4, <2>3, <2>5
    <3>6. \A x \in Queued' : \E j \in 1 .. Len(queue') : queue'[j] = x
      BY <3>2, <3>4, <2>1, <2>3, <2>5
    <3>7. {queue'[j] : j \in 1 .. Len(queue')} = Queued'
      BY <3>5, <3>6
    <3> QED BY <3>7 DEF WaitersQueued
  <2>9. TypeOK'
    BY <2>2, <2>5, <2>7 DEF IInv, TypeOK
  <2>10. NoFreeSlot'
    BY <2>1, <2>2, <2>4 DEF IInv, NoFreeSlot
  <2> QED BY <2>2, <2>3, <2>8, <2>9, <2>10 DEF IInv, SlotsAccounted
<1> QED BY <1>1, <1>2

\* The remaining steps move nobody in or out of the queue or of a slot.
LEMMA OthersKeep ==
  ASSUME IInv, NEW r \in Requests, Resume(r) \/ Renew(r)
  PROVE  IInv' /\ Holders' = Holders /\ Queued' = Queued /\ max' = max
<1>1. UNCHANGED <<user, max, current, queue>> /\ aborted' \subseteq aborted
  BY DEF Resume, Renew
<1>2. Queued' = Queued /\ Holders' = Holders
  BY DEF Resume, Renew, Queued, Holders, IInv, TypeOK
<1>3. TypeOK'
  BY <1>1 DEF Resume, Renew, IInv, TypeOK
<1> QED BY <1>1, <1>2, <1>3 DEF IInv, SlotsAccounted, WaitersQueued, NoFreeSlot

\* Initially nothing is counted, queued or held.
LEMMA InitIInv == Init => IInv
<1> SUFFICES ASSUME Init PROVE IInv
  OBVIOUS
<1>1. Queued = {} /\ Holders = {}
  BY DEF Init, Queued, Holders
<1>2. queue = <<>> /\ Len(queue) = 0 /\ DOMAIN queue = 1 .. 0
  BY DEF Init
<1>3. TypeOK
  BY <1>2, SlotsAssumption DEF Init, TypeOK, IsInjective
<1>4. SlotsAccounted
  BY <1>1, FS_EmptySet DEF Init, SlotsAccounted
<1> QED BY <1>1, <1>2, <1>3, <1>4 DEF IInv, WaitersQueued, NoFreeSlot

\* IInv is inductive.
LEMMA NextIInv == IInv /\ [Next]_vars => IInv'
<1> SUFFICES ASSUME IInv, [Next]_vars PROVE IInv'
  OBVIOUS
<1>1. CASE UNCHANGED vars
  BY <1>1 DEF vars, IInv, TypeOK, SlotsAccounted, WaitersQueued, NoFreeSlot, Queued, Holders
<1>2. ASSUME NEW r \in Requests, Resume(r) \/ Renew(r) PROVE IInv'
  BY <1>2, OthersKeep
<1>3. ASSUME NEW r \in Requests, Abort(r) PROVE IInv'
  BY <1>3, AbortKeeps
<1>4. ASSUME NEW r \in Requests, NEW m \in Limits, Acquire(r, m) PROVE IInv'
  BY <1>4, AcquireKeeps
<1>5. ASSUME NEW r \in Requests, NEW m \in Limits, Release(r, m) PROVE IInv'
  BY <1>5, ReleaseKeeps
<1> QED BY <1>1, <1>2, <1>3, <1>4, <1>5 DEF Next

\* IInv holds in every reachable state.
THEOREM Invariance == Spec => []IInv
<1> QED BY InitIInv, NextIInv, PTL DEF Spec

\* TypeOK: every variable keeps its range and a request waits at most once.
THEOREM TypeCorrect == Spec => []TypeOK
<1>1. IInv => TypeOK
  BY DEF IInv
<1> QED BY <1>1, Invariance, PTL

\* SlotsAccounted: the counter is the number of holders.
THEOREM AccountingHolds == Spec => []SlotsAccounted
<1>1. IInv => SlotsAccounted
  BY DEF IInv
<1> QED BY <1>1, Invariance, PTL

(***************************************************************************)
(* Refinement: the semaphore implements SlotPool.                          *)
(***************************************************************************)
\* The instance of SlotPool counts with the same operator.
LEMMA PoolCounts == \A S : Pool!Cardinality(S) = Cardinality(S)
BY DEF Pool!Cardinality, Cardinality

\* The counter being exact and nobody waiting beside a free slot, a step that
\* admits within the cap m settles the pool.
LEMMA SettleIf ==
  ASSUME IInv', NEW H, NEW W, NEW m \in Limits, max' = m,
         H \subseteq Holders', Holders' \subseteq H \cup W, Queued' = W \ Holders',
         Holders' # H => m = 0 \/ current' <= m
  PROVE  Pool!Settle(H, W, m)
<1>1. Cardinality(Holders') = current' /\ current' \in Nat /\ m \in Nat
  BY SlotsAssumption DEF IInv, TypeOK, SlotsAccounted
<1>2. Holders' # H => ~Pool!Exceeds(Cardinality(Holders'), m)
  BY <1>1 DEF Pool!Exceeds
<1>3. Queued' # {} => Pool!Full(Cardinality(Holders'), m)
  <2> SUFFICES ASSUME Queued' # {} PROVE Pool!Full(Cardinality(Holders'), m)
    OBVIOUS
  <2>1. Len(queue') # 0
    BY DEF IInv, WaitersQueued
  <2>2. queue' # <<>>
    BY <2>1
  <2>3. ~Under(current', m)
    BY <2>2 DEF IInv, NoFreeSlot
  <2> QED BY <2>3, <1>1 DEF Under, Pool!Full
<1> QED BY <1>2, <1>3, PoolCounts DEF Pool!Settle

\* Every step of the semaphore is a step of SlotPool or leaves the pool alone.
LEMMA NextPool == IInv /\ [Next]_vars => [Pool!PoolNext]_Pool!poolVars
<1> SUFFICES ASSUME IInv, [Next]_vars PROVE [Pool!PoolNext]_Pool!poolVars
  OBVIOUS
<1>0. IInv'
  BY NextIInv
<1>1. CASE UNCHANGED vars
  BY <1>1 DEF vars, Queued, Holders, Pool!poolVars
<1>2. ASSUME NEW r \in Requests, Resume(r) \/ Renew(r) PROVE UNCHANGED Pool!poolVars
  BY <1>2, OthersKeep DEF Pool!poolVars
<1>3. ASSUME NEW r \in Requests, Abort(r) PROVE [Pool!PoolNext]_Pool!poolVars
  <2>1. Holders' = Holders /\ max' = max /\ Queued' = Queued \ {r}
    BY <1>3, AbortKeeps
  <2>2. CASE r \notin Queued
    BY <2>1, <2>2 DEF Pool!poolVars
  <2>3. CASE r \in Queued
    <3>1. max \in Limits /\ Holders \cap Queued = {}
      BY DEF IInv, TypeOK, Holders, Queued
    <3>2. Pool!Settle(Holders, Queued \ {r}, max)
      BY <2>1, <3>1, <1>0, SettleIf
    <3>3. Pool!Withdraw(r)
      BY <2>3, <3>2 DEF Pool!Withdraw
    <3> QED BY <3>3 DEF Pool!PoolNext
  <2> QED BY <2>2, <2>3
<1>4. ASSUME NEW r \in Requests, NEW m \in Limits, Acquire(r, m) PROVE Pool!PoolNext
  <2>1. Pool!Settle(Holders, Queued, m) \/ Pool!Settle(Holders, Queued \cup {r}, m)
    <3>1. CASE Holders' \subseteq Holders \cup Queued /\ Queued' = Queued \ Holders'
      BY <1>4, <1>0, <3>1, AcquireKeeps, SettleIf
    <3>2. CASE /\ Holders' \subseteq Holders \cup (Queued \cup {r})
               /\ Queued' = (Queued \cup {r}) \ Holders'
      BY <1>4, <1>0, <3>2, AcquireKeeps, SettleIf
    <3> QED BY <1>4, <3>1, <3>2, AcquireKeeps
  <2>2. r \notin Queued \cup Holders
    BY <1>4, AcquireKeeps
  <2>3. Pool!Resize(m) \/ Pool!Arrive(r, m)
    BY <2>1, <2>2 DEF Pool!Resize, Pool!Arrive
  <2> QED BY <2>3 DEF Pool!PoolNext
<1>5. ASSUME NEW r \in Requests, NEW m \in Limits, Release(r, m) PROVE Pool!PoolNext
  <2>1. PICK k \in 0 .. Len(queue) :
          /\ Queued' = Queued \ Called(k)
          /\ Holders' = (Holders \cup Called(k)) \ {r}
          /\ Called(k) \subseteq Queued
          /\ max' = m
          /\ Called(k) # {} => m = 0 \/ current' <= m
    BY <1>5, ReleaseKeeps
  <2>2. r \in Holders /\ r \notin Queued /\ Holders \cap Queued = {}
    BY <1>5 DEF Release, Holders, Queued
  <2>3. Pool!Settle(Holders \ {r}, Queued, m)
    <3>1. /\ Holders \ {r} \subseteq Holders' /\ Holders' \subseteq (Holders \ {r}) \cup Queued
          /\ Queued' = Queued \ Holders'
          /\ Holders' # Holders \ {r} => m = 0 \/ current' <= m
      BY <2>1, <2>2
    <3> QED BY <3>1, <2>1, <1>0, SettleIf
  <2>4. Pool!Leave(r, m)
    BY <2>2, <2>3 DEF Pool!Leave
  <2> QED BY <2>4 DEF Pool!PoolNext
<1> QED BY <1>1, <1>2, <1>3, <1>4, <1>5 DEF Next

\* KeepsCap: no admission exceeds the cap in force and no waiter is left beside a
\* free slot, for every set of requests and limits.
THEOREM CapKept == Spec => KeepsCap
<1>1. Init => Pool!PoolInit
  BY DEF Init, Pool!PoolInit, Queued, Holders
<1> QED BY <1>1, Invariance, NextPool, PTL DEF Spec, KeepsCap, Pool!PoolSpec

(***************************************************************************)
(* First come, first served.                                               *)
(***************************************************************************)
\* x is called before r.
LEMMA AheadIs ==
  ASSUME TypeOK, NEW r, NEW x
  PROVE  x \in Ahead(r) <=> \E p, n \in 1 .. Len(queue) : p < n /\ queue[p] = x /\ queue[n] = r
<1>0. Len(queue) \in Nat
  BY DEF TypeOK
<1>1. ASSUME NEW p \in 1 .. Len(queue)
      PROVE  \A n : n \in p + 1 .. Len(queue) <=> n \in 1 .. Len(queue) /\ p < n
  BY <1>0
<1> QED BY <1>1 DEF Ahead

\* When the waiters that are left keep their order, nobody joins those ahead of r.
LEMMA AheadShrinks ==
  ASSUME TypeOK, TypeOK', NEW r,
         \A p, n \in 1 .. Len(queue') : p < n /\ queue'[n] = r =>
            \E a, b \in 1 .. Len(queue) : a < b /\ queue[a] = queue'[p] /\ queue[b] = r
  PROVE  Ahead(r)' \subseteq Ahead(r)
<1> SUFFICES ASSUME NEW x, x \in Ahead(r)' PROVE x \in Ahead(r)
  OBVIOUS
<1>1. PICK p, n \in 1 .. Len(queue') : p < n /\ queue'[p] = x /\ queue'[n] = r
  <2>1. ASSUME NEW p \in 1 .. Len(queue')
        PROVE  \A n : n \in p + 1 .. Len(queue') <=> n \in 1 .. Len(queue') /\ p < n
    BY Len(queue') \in Nat DEF TypeOK
  <2> QED BY <2>1 DEF Ahead
<1>2. PICK a, b \in 1 .. Len(queue) : a < b /\ queue[a] = x /\ queue[b] = r
  BY <1>1
<1> QED BY <1>2, AheadIs

\* The waiters called before one that is left were ahead of it, and those left
\* behind the called ones keep their order.
LEMMA CallingServesInOrder ==
  ASSUME IInv, NEW k \in 0 .. Len(queue), NEW r \in Queued, r \notin Called(k)
  PROVE  /\ Called(k) \subseteq Ahead(r)
         /\ k < Len(queue)
         /\ \A p, n \in 1 .. Len(Left(k)) : p < n /\ Left(k)[n] = r =>
              \E a, b \in 1 .. Len(queue) : a < b /\ queue[a] = Left(k)[p] /\ queue[b] = r
<1>0. Len(queue) \in Nat
  BY DEF IInv, TypeOK
<1>1. PICK n \in 1 .. Len(queue) : queue[n] = r
  BY DEF IInv, WaitersQueued
<1>2. n > k
  BY <1>0, <1>1 DEF Called
<1>3. Called(k) \subseteq Ahead(r)
  <2> SUFFICES ASSUME NEW p \in 1 .. k PROVE queue[p] \in Ahead(r)
    BY DEF Called
  <2>1. p \in 1 .. Len(queue) /\ p < n
    BY <1>0, <1>2
  <2> QED BY <2>1, <1>1, AheadIs DEF IInv
<1>4. ASSUME NEW a \in 1 .. Len(Left(k)), NEW b \in 1 .. Len(Left(k)), a < b, Left(k)[b] = r
      PROVE  \E c, d \in 1 .. Len(queue) : c < d /\ queue[c] = Left(k)[a] /\ queue[d] = r
  <2>1. /\ Len(Left(k)) = Len(queue) - k
        /\ \A i \in 1 .. Len(queue) - k : Left(k)[i] = queue[i + k]
    BY LeftFacts DEF IInv
  <2> HIDE DEF Left
  <2>2. /\ a + k \in 1 .. Len(queue) /\ b + k \in 1 .. Len(queue) /\ a + k < b + k
        /\ queue[a + k] = Left(k)[a] /\ queue[b + k] = r
    BY <1>0, <1>4, <2>1
  <2> QED BY <2>2
<1> QED BY <1>0, <1>2, <1>3, <1>4

\* What one step owes to r, which waits before and after it.
Ordered(r) == Ahead(r)' \subseteq Ahead(r) /\ Holders' \ Holders \subseteq Ahead(r)

\* acquire calls the first waiters, and its own request goes to the end.
LEMMA AcquireOrdered ==
  ASSUME IInv, IInv', NEW s \in Requests, NEW m \in Limits, Acquire(s, m),
         NEW r \in Requests, pc[r] = "queued", pc'[r] = "queued"
  PROVE  Ordered(r)
<1> DEFINE k == Room(current, m, Len(queue))
<1>0. current \in Nat /\ m \in Nat /\ Len(queue) \in Nat /\ pc[s] = "idle"
  BY SlotsAssumption DEF IInv, TypeOK, Acquire
<1>1. k \in 0 .. Len(queue) /\ (k < Len(queue) => ~Under(current + k, m))
  BY <1>0, RoomBound
<1> HIDE DEF k
<1>2. /\ Left(k) \in Seq(Requests)
      /\ {Left(k)[n] : n \in 1 .. Len(Left(k))} = Queued \ Called(k)
  BY <1>1, LeftFacts, CalledFacts DEF IInv
<1>3. /\ Admit(k) \in [Requests -> {"idle", "queued", "admitted", "held"}]
      /\ {x \in Requests : Admit(k)[x] = "queued"} = Queued \ Called(k)
      /\ {x \in Requests : Admit(k)[x] \in {"admitted", "held"}} = Holders \cup Called(k)
  BY <1>1, AdmitFacts DEF IInv
<1>4. r # s /\ r \in Queued
  BY <1>0 DEF Queued
<1> HIDE DEF Left, Admit
<1>5. /\ \/ pc' = Admit(k) /\ queue' = Left(k)
         \/ Under(current + k, m)
         \/ pc' = [Admit(k) EXCEPT ![s] = "queued"] /\ queue' = Append(Left(k), s)
  BY DEF Acquire, Enqueue, k
<1>6. r \notin Called(k)
  <2>1. pc'[r] = Admit(k)[r]
    BY <1>3, <1>4 DEF Acquire, k
  <2> QED BY <2>1, <1>3
<1>7. /\ Called(k) \subseteq Ahead(r)
      /\ k < Len(queue)
      /\ \A p, n \in 1 .. Len(Left(k)) : p < n /\ Left(k)[n] = r =>
           \E a, b \in 1 .. Len(queue) : a < b /\ queue[a] = Left(k)[p] /\ queue[b] = r
  BY <1>1, <1>4, <1>6, CallingServesInOrder
<1>8. CASE pc' = Admit(k) /\ queue' = Left(k)
  <2>1. Holders' = Holders \cup Called(k)
    BY <1>3, <1>8 DEF Holders
  <2>2. Ahead(r)' \subseteq Ahead(r)
    BY <1>7, <1>8, AheadShrinks DEF IInv
  <2> QED BY <1>7, <2>1, <2>2 DEF Ordered
<1>9. CASE pc' = [Admit(k) EXCEPT ![s] = "queued"] /\ queue' = Append(Left(k), s)
  <2>1. Holders' \subseteq Holders \cup Called(k)
    BY <1>3, <1>9 DEF Holders
  <2>2. /\ Len(queue') = Len(Left(k)) + 1 /\ Len(Left(k)) \in Nat
        /\ \A i \in 1 .. Len(Left(k)) : queue'[i] = Left(k)[i]
        /\ queue'[Len(Left(k)) + 1] = s
    BY <1>9, <1>2, AppendProperties
  <2>3. \A p, n \in 1 .. Len(queue') : p < n /\ queue'[n] = r =>
           \E a, b \in 1 .. Len(queue) : a < b /\ queue[a] = queue'[p] /\ queue[b] = r
    <3> SUFFICES ASSUME NEW p \in 1 .. Len(queue'), NEW n \in 1 .. Len(queue'), p < n, queue'[n] = r
                 PROVE  \E a, b \in 1 .. Len(queue) : a < b /\ queue[a] = queue'[p] /\ queue[b] = r
      OBVIOUS
    <3>1. p \in 1 .. Len(Left(k)) /\ n \in 1 .. Len(Left(k))
      BY <1>4, <2>2
    <3> QED BY <1>7, <2>2, <3>1
  <2>4. Ahead(r)' \subseteq Ahead(r)
    BY <2>3, AheadShrinks DEF IInv
  <2> QED BY <1>7, <2>1, <2>4 DEF Ordered
<1> QED BY <1>1, <1>5, <1>7, <1>8, <1>9

\* release calls the first waiters.
LEMMA ReleaseOrdered ==
  ASSUME IInv, IInv', NEW s \in Requests, NEW m \in Limits, Release(s, m),
         NEW r \in Requests, pc[r] = "queued", pc'[r] = "queued"
  PROVE  Ordered(r)
<1>1. PICK k \in 0 .. Len(queue) : queue' = Left(k) /\ pc' = [Admit(k) EXCEPT ![s] = "idle"]
  BY ReleaseFacts
<1>2. /\ Admit(k) \in [Requests -> {"idle", "queued", "admitted", "held"}]
      /\ {x \in Requests : Admit(k)[x] = "queued"} = Queued \ Called(k)
      /\ {x \in Requests : Admit(k)[x] \in {"admitted", "held"}} = Holders \cup Called(k)
  BY AdmitFacts DEF IInv
<1> HIDE DEF Left, Admit
<1>3. r # s /\ r \in Queued /\ r \notin Called(k)
  BY <1>1, <1>2 DEF Queued
<1>4. Holders' \subseteq Holders \cup Called(k)
  BY <1>1, <1>2 DEF Holders
<1>5. Called(k) \subseteq Ahead(r) /\ Ahead(r)' \subseteq Ahead(r)
  BY <1>1, <1>3, CallingServesInOrder, AheadShrinks DEF IInv
<1> QED BY <1>4, <1>5 DEF Ordered

\* An abort takes its own request out and calls nobody.
LEMMA AbortOrdered ==
  ASSUME IInv, IInv', NEW s \in Requests, Abort(s), NEW r
  PROVE  Ordered(r)
<1>1. Holders' = Holders
  BY AbortKeeps
<1>2. CASE UNCHANGED queue
  BY <1>1, <1>2 DEF Ordered, Ahead
<1>3. CASE Splice(s)
  <2>1. PICK q \in 1 .. Len(queue) : queue' = RemoveAt(queue, q)
    BY <1>3 DEF Splice
  <2>2. queue \in Seq(Requests) /\ Len(queue) \in Nat
    BY DEF IInv, TypeOK
  <2>3. /\ Len(RemoveAt(queue, q)) = Len(queue) - 1
        /\ \A j \in 1 .. Len(queue) - 1 :
             RemoveAt(queue, q)[j] = IF j < q THEN queue[j] ELSE queue[j + 1]
    BY <2>2, RemoveAtIs
  <2> HIDE DEF RemoveAt
  <2> DEFINE old(j) == IF j < q THEN j ELSE j + 1
  <2>4. /\ Len(queue') = Len(queue) - 1
        /\ \A j \in 1 .. Len(queue') : queue'[j] = queue[old(j)] /\ old(j) \in 1 .. Len(queue)
        /\ \A j, l \in 1 .. Len(queue') : j < l => old(j) < old(l)
    BY <2>1, <2>2, <2>3
  <2>5. Ahead(r)' \subseteq Ahead(r)
    <3> HIDE DEF old
    <3> QED BY <2>4, AheadShrinks DEF IInv
  <2> QED BY <1>1, <2>5 DEF Ordered
<1> QED BY <1>2, <1>3 DEF Abort

\* FirstCome: while a request waits, only those ahead of it are admitted and nobody
\* joins them, for any number of requests and whatever limits they bring.
THEOREM FirstComeHolds == Spec => FirstCome
<1>1. IInv /\ [Next]_vars
      => [\A r \in Requests : pc[r] = "queued" /\ pc'[r] = "queued"
            => Ahead(r)' \subseteq Ahead(r) /\ Holders' \ Holders \subseteq Ahead(r)]_vars
  <2> SUFFICES ASSUME IInv, [Next]_vars, ~UNCHANGED vars,
                      NEW r \in Requests, pc[r] = "queued", pc'[r] = "queued"
               PROVE  Ordered(r)
    BY DEF Ordered
  <2>1. IInv'
    BY NextIInv
  <2>2. ASSUME NEW s \in Requests, Resume(s) \/ Renew(s) PROVE Ordered(r)
    <3>1. Holders' = Holders /\ queue' = queue
      BY <2>2, OthersKeep DEF Resume, Renew
    <3> QED BY <3>1 DEF Ordered, Ahead
  <2> QED BY <2>1, <2>2, AcquireOrdered, ReleaseOrdered, AbortOrdered DEF Next
<1> QED BY <1>1, Invariance, PTL DEF Spec, FirstCome
=============================================================================
