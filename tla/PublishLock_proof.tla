-------------------------- MODULE PublishLock_proof --------------------------
(***************************************************************************)
(* Proofs about PublishLock for every set of processes, any share of them  *)
(* on a previous binary, and any number of crashes and failures.  Gated    *)
(* and NoticesTheft carry the mutual exclusions; that current processes    *)
(* rob nobody also needs what a stealer may believe of the file it read.   *)
(***************************************************************************)
EXTENDS PublishLock, TLAPS

\* A current process that is past the gate owns it.
Gated == \A p \in Current : pc[p] \notin {"idle", "gate"} => gate = p

\* A process inside has its lock file at the path, until somebody removes it.
NoticesTheft == ~robbed => \A p \in Process : pc[p] = "in" => Mine(p)

\* The file of a live current process is blank only while it is about to be
\* recorded.
BlankIsFresh ==
    name # None /\ name.owner \in Current /\ ~name.dead /\ ~name.recorded
      => pc[name.owner] = "record"

\* A stealer goes on only with a file it found blank or dead.
SeenStale ==
    \A p \in Current : pc[p] \in {"stat", "reread"} => seen[p] \in {Blank} \cup (Process \X {TRUE})

\* A current process that may remove the file at the path finds there none of
\* another live current process.
NobodysElse ==
    \A p \in Current :
        pc[p] \in {"record", "verify", "in", "unlink"} /\ name # None
          => name.owner \notin Current \ {p} \/ name.dead

(***************************************************************************)
(* Types.                                                                  *)
(***************************************************************************)
LEMMA TypeInit == Init => TypeOK
<1> SUFFICES ASSUME Init PROVE TypeOK
  OBVIOUS
<1>1. gate \in Process \cup {None} /\ name \in LockFiles \cup {None}
  BY DEF Init
<1>2. pc \in [Process -> Steps]
  BY DEF Init, Steps
<1>3. second \in [Process -> BOOLEAN] /\ up \in [Process -> BOOLEAN] /\ robbed \in BOOLEAN
  BY DEF Init
<1>4. seen \in [Process -> {Blank} \cup (Process \X BOOLEAN)]
  BY DEF Init
<1>5. faults \in 0..MaxFaults
  BY LockAssumption DEF Init
<1> QED BY <1>1, <1>2, <1>3, <1>4, <1>5 DEF TypeOK

\* Removing the file keeps the history Boolean.
LEMMA RemoveTyped ==
  ASSUME NEW p \in Process, RemoveName(p)
  PROVE  name' = None /\ robbed' \in BOOLEAN
BY DEF RemoveName

LEMMA TypeStep ==
  ASSUME TypeOK, NEW p \in Process, Step(p)
  PROVE  TypeOK'
<1> USE LockAssumption DEF TypeOK, Steps, Goto
<1>1. CASE TakeGate(p) \/ GateTimesOut(p)
  BY <1>1 DEF TakeGate, GateTimesOut
<1>2. CASE Create(p)
  <2>1. name' \in LockFiles \cup {None}
    <3>1. [owner |-> p, recorded |-> FALSE, old |-> FALSE, dead |-> FALSE] \in LockFiles
      BY DEF LockFiles
    <3> QED BY <1>2, <3>1 DEF Create
  <2>2. pc' \in [Process -> Steps]
    BY <1>2 DEF Create
  <2> QED BY <1>2, <2>1, <2>2 DEF Create
<1>3. CASE Record(p)
  BY <1>3 DEF Record, Mine, LockFiles
<1>4. CASE RecordFails(p) \/ UnlockFails(p)
  BY <1>4, RemoveTyped DEF RecordFails, UnlockFails, FreeGate
<1>5. CASE Verify(p)
  <2>1. CASE Mine(p)
    BY <1>5, <2>1 DEF Verify
  <2>2. CASE ~Mine(p)
    BY <1>5, <2>2 DEF Verify
  <2> QED BY <2>1, <2>2
<1>6. CASE ReadLock(p)
  <2>1. name # None => Content(name) \in {Blank} \cup (Process \X BOOLEAN)
    BY DEF Content, LockFiles
  <2>2. pc' \in [Process -> Steps]
    BY <1>6 DEF ReadLock, Again
  <2>3. second' \in [Process -> BOOLEAN]
    BY <1>6 DEF ReadLock, Again
  <2>4. seen' \in [Process -> {Blank} \cup (Process \X BOOLEAN)]
    BY <1>6, <2>1 DEF ReadLock
  <2> QED BY <1>6, <2>2, <2>3, <2>4 DEF ReadLock
<1>7. CASE StatLock(p) \/ RereadLock(p)
  BY <1>7 DEF StatLock, RereadLock, Again
<1>8. CASE UnlinkStale(p) \/ Unlock(p)
  BY <1>8, RemoveTyped DEF UnlinkStale, Unlock, Again
<1>9. CASE Poll(p) \/ GiveUp(p) \/ ReleaseGate(p)
  BY <1>9 DEF Poll, GiveUp, ReleaseGate, FreeGate
<1> QED BY <1>1, <1>2, <1>3, <1>4, <1>5, <1>6, <1>7, <1>8, <1>9 DEF Step

LEMMA TypeNext == TypeOK /\ [Next]_vars => TypeOK'
<1> SUFFICES ASSUME TypeOK, [Next]_vars PROVE TypeOK'
  OBVIOUS
<1> USE LockAssumption
<1>1. ASSUME NEW p \in Process, Begin(p) PROVE TypeOK'
  BY <1>1 DEF Begin, Goto, TypeOK, Steps
<1>2. ASSUME NEW p \in Process, Crash(p) PROVE TypeOK'
  BY <1>2 DEF Crash, Goto, FreeGate, Mine, TypeOK, Steps, LockFiles
<1>3. ASSUME NEW p \in Process, Restart(p) PROVE TypeOK'
  BY <1>3 DEF Restart, TypeOK
<1>4. CASE Age
  BY <1>4 DEF Age, TypeOK, LockFiles
<1>5. CASE UNCHANGED vars
  BY <1>5 DEF vars, TypeOK
<1> QED BY <1>1, <1>2, <1>3, <1>4, <1>5, TypeStep DEF Next

\* TypeOK: every variable keeps its range, the seen text is that of some lock
\* file, and no more faults happen than are counted.
THEOREM TypeCorrect == Spec => []TypeOK
BY TypeInit, TypeNext, PTL DEF Spec

(***************************************************************************)
(* The gate, and mutual exclusion.                                         *)
(***************************************************************************)
\* A step of p leaves the other processes where they are, and takes the gate
\* only when it is free, gives it up only when it is its own.
LEMMA StepIsLocal ==
  ASSUME TypeOK, NEW p \in Process, Begin(p) \/ Step(p) \/ Crash(p),
         NEW q \in Process, q # p
  PROVE  /\ pc'[q] = pc[q]
         /\ gate = q => gate' = q
<1> USE LockAssumption DEF TypeOK, Goto, FreeGate, Again
<1>1. CASE Begin(p) \/ Crash(p)
  BY <1>1 DEF Begin, Crash
<1>2. CASE TakeGate(p) \/ GateTimesOut(p) \/ Create(p) \/ Record(p) \/ RecordFails(p)
  BY <1>2 DEF TakeGate, GateTimesOut, Create, Record, RecordFails
<1>3. CASE Verify(p)
  BY <1>3 DEF Verify
<1>4. CASE ReadLock(p)
  BY <1>4 DEF ReadLock
<1>5. CASE StatLock(p) \/ RereadLock(p) \/ UnlinkStale(p)
  BY <1>5 DEF StatLock, RereadLock, UnlinkStale
<1>6. CASE Poll(p) \/ GiveUp(p) \/ Unlock(p) \/ UnlockFails(p) \/ ReleaseGate(p)
  BY <1>6 DEF Poll, GiveUp, Unlock, UnlockFails, ReleaseGate
<1> QED BY <1>1, <1>2, <1>3, <1>4, <1>5, <1>6 DEF Step

\* A current process that takes a step either goes back to the start, or still
\* or newly owns the gate.
LEMMA StepGated ==
  ASSUME TypeOK, NEW p \in Process, Begin(p) \/ Step(p) \/ Crash(p),
         p \in Current, pc[p] \notin {"idle", "gate"} => gate = p
  PROVE  pc'[p] \notin {"idle", "gate"} => gate' = p
<1> USE LockAssumption DEF TypeOK, Goto, FreeGate, Again
<1>1. CASE Begin(p) \/ Crash(p)
  BY <1>1 DEF Begin, Crash
<1>2. CASE TakeGate(p) \/ GateTimesOut(p) \/ Create(p) \/ Record(p) \/ RecordFails(p)
  BY <1>2 DEF TakeGate, GateTimesOut, Create, Record, RecordFails
<1>3. CASE Verify(p)
  BY <1>3 DEF Verify
<1>4. CASE ReadLock(p)
  BY <1>4 DEF ReadLock
<1>5. CASE StatLock(p) \/ RereadLock(p) \/ UnlinkStale(p)
  BY <1>5 DEF StatLock, RereadLock, UnlinkStale
<1>6. CASE Poll(p) \/ GiveUp(p) \/ Unlock(p) \/ UnlockFails(p) \/ ReleaseGate(p)
  BY <1>6 DEF Poll, GiveUp, Unlock, UnlockFails, ReleaseGate
<1> QED BY <1>1, <1>2, <1>3, <1>4, <1>5, <1>6 DEF Step

LEMMA GatedNext == TypeOK /\ Gated /\ [Next]_vars => Gated'
<1> SUFFICES ASSUME TypeOK, Gated, [Next]_vars,
                    NEW q \in Current, pc'[q] \notin {"idle", "gate"}
             PROVE  gate' = q
  BY DEF Gated
<1>1. ASSUME NEW p \in Process, Begin(p) \/ Step(p) \/ Crash(p)
      PROVE  gate' = q
  <2>1. CASE p = q
    BY <1>1, <2>1, StepGated DEF Gated
  <2>2. CASE p # q
    BY <1>1, <2>2, StepIsLocal, LockAssumption DEF Gated
  <2> QED BY <2>1, <2>2
<1>2. ASSUME NEW p \in Process, Restart(p) PROVE gate' = q
  BY <1>2 DEF Restart, Gated
<1>3. CASE Age \/ UNCHANGED vars
  BY <1>3 DEF Age, vars, Gated
<1> QED BY <1>1, <1>2, <1>3 DEF Next

LEMMA GatedExcludes == TypeOK /\ Gated => CurrentExclusive
BY DEF Gated, CurrentExclusive, InRegion

LEMMA Gates == Spec => [](TypeOK /\ Gated)
<1>1. Init => Gated
  BY LockAssumption DEF Init, Gated
<1> QED BY <1>1, TypeInit, TypeNext, GatedNext, PTL DEF Spec

\* CurrentExclusive: two terminals on the current binary are never both inside
\* the region, however many previous-binary peers there are.
THEOREM CurrentExclusionHolds == Spec => []CurrentExclusive
BY Gates, GatedExcludes, PTL

(***************************************************************************)
(* A lock file that is removed under a process inside is the only way to   *)
(* share the region.                                                       *)
(***************************************************************************)
\* The history only grows.
LEMMA RobbedStays == TypeOK /\ [Next]_vars /\ ~robbed' => ~robbed
<1> SUFFICES ASSUME TypeOK, [Next]_vars, robbed PROVE robbed'
  BY DEF TypeOK
<1>1. ASSUME NEW p \in Process, RemoveName(p) PROVE robbed'
  BY <1>1 DEF RemoveName
<1>2. ASSUME NEW p \in Process, Step(p) PROVE robbed'
  BY <1>1, <1>2 DEF Step, TakeGate, GateTimesOut, Create, Record, RecordFails, Verify,
     ReadLock, StatLock, RereadLock, UnlinkStale, Poll, GiveUp, Unlock, UnlockFails,
     ReleaseGate
<1>3. ASSUME NEW p \in Process, Begin(p) \/ Crash(p) \/ Restart(p) PROVE robbed'
  BY <1>3 DEF Begin, Crash, Restart
<1>4. CASE Age \/ UNCHANGED vars
  BY <1>4 DEF Age, vars
<1> QED BY <1>2, <1>3, <1>4 DEF Next

\* A process enters only after it saw its own lock file at the path.
LEMMA EntersVerified ==
  ASSUME TypeOK, NEW p \in Process, Begin(p) \/ Step(p) \/ Crash(p), pc'[p] = "in"
  PROVE  Mine(p) /\ name' = name
<1> USE DEF TypeOK, Goto, Again
<1>1. CASE Begin(p) \/ Crash(p)
  BY <1>1 DEF Begin, Crash
<1>2. CASE TakeGate(p) \/ GateTimesOut(p) \/ Create(p) \/ Record(p) \/ RecordFails(p)
  BY <1>2 DEF TakeGate, GateTimesOut, Create, Record, RecordFails
<1>3. CASE Verify(p)
  BY <1>3 DEF Verify
<1>4. CASE ReadLock(p)
  BY <1>4 DEF ReadLock
<1>5. CASE StatLock(p) \/ RereadLock(p) \/ UnlinkStale(p)
  BY <1>5 DEF StatLock, RereadLock, UnlinkStale
<1>6. CASE Poll(p) \/ GiveUp(p) \/ Unlock(p) \/ UnlockFails(p) \/ ReleaseGate(p)
  BY <1>6 DEF Poll, GiveUp, Unlock, UnlockFails, ReleaseGate
<1> QED BY <1>1, <1>2, <1>3, <1>4, <1>5, <1>6 DEF Step

\* What p does to the lock file of q while q is inside is robbery.
LEMMA SparesOrRobs ==
  ASSUME TypeOK, NEW p \in Process, Begin(p) \/ Step(p) \/ Crash(p),
         NEW q \in Process, q # p, Mine(q), pc[q] = "in", ~robbed'
  PROVE  name' = name
<1>1. ~Mine(p)
  BY DEF Mine
<1>2. ~RemoveName(p)
  BY DEF RemoveName, Mine
<1>3. CASE Begin(p) \/ Crash(p)
  BY <1>1, <1>3 DEF Begin, Crash
<1>4. CASE Step(p)
  BY <1>1, <1>2, <1>4 DEF Step, TakeGate, GateTimesOut, Create, Record, RecordFails, Verify,
     ReadLock, StatLock, RereadLock, UnlinkStale, Poll, GiveUp, Unlock, UnlockFails,
     ReleaseGate, Mine
<1> QED BY <1>3, <1>4

\* A lock file that grows old stays its owner's.
LEMMA AgeKeeps ==
  ASSUME TypeOK, Age, NEW p \in Process
  PROVE  /\ Mine(p) => Mine(p)'
         /\ name # None /\ name' # None => /\ name'.owner = name.owner /\ name'.dead = name.dead
                                           /\ name'.recorded = name.recorded
<1>1. name \in LockFiles /\ name' = [name EXCEPT !.old = TRUE]
  BY DEF Age, TypeOK
<1>2. name' \in LockFiles /\ name'.owner = name.owner /\ name'.dead = name.dead
      /\ name'.recorded = name.recorded
  BY <1>1 DEF LockFiles
<1> QED BY <1>2, NoLockFile DEF Mine

LEMMA TheftNext == TypeOK /\ NoticesTheft /\ [Next]_vars => NoticesTheft'
<1> SUFFICES ASSUME TypeOK, NoticesTheft, [Next]_vars, ~robbed',
                    NEW q \in Process, pc'[q] = "in"
             PROVE  Mine(q)'
  BY DEF NoticesTheft
<1>0. ~robbed
  BY RobbedStays
<1>1. ASSUME NEW p \in Process, Begin(p) \/ Step(p) \/ Crash(p)
      PROVE  Mine(q)'
  <2>1. CASE p = q
    BY <1>1, <2>1, EntersVerified DEF Mine
  <2>2. CASE p # q
    <3>1. pc[q] = "in"
      BY <1>1, <2>2, StepIsLocal
    <3>2. Mine(q)
      BY <1>0, <3>1 DEF NoticesTheft
    <3>3. name' = name
      BY <1>1, <2>2, <3>1, <3>2, SparesOrRobs
    <3> QED BY <3>2, <3>3 DEF Mine
  <2> QED BY <2>1, <2>2
<1>2. ASSUME NEW p \in Process, Restart(p) PROVE Mine(q)'
  BY <1>0, <1>2 DEF Restart, NoticesTheft, Mine
<1>3. CASE Age
  <2>1. pc[q] = "in"
    BY <1>3 DEF Age
  <2> QED BY <1>0, <1>3, <2>1, AgeKeeps DEF NoticesTheft
<1>4. CASE UNCHANGED vars
  BY <1>0, <1>4 DEF vars, NoticesTheft, Mine
<1> QED BY <1>1, <1>2, <1>3, <1>4 DEF Next

\* Exclusive: with any mix of binaries, two processes are inside together only
\* after the lock file of one was removed while it was inside.
THEOREM ExclusionHolds == Spec => []Exclusive
<1>1. Init => NoticesTheft
  BY DEF Init, NoticesTheft
<1>2. NoticesTheft => Exclusive
  BY DEF NoticesTheft, Exclusive, InRegion, Mine
<1> QED BY <1>1, <1>2, TypeInit, TypeNext, TheftNext, PTL DEF Spec

(***************************************************************************)
(* Current processes remove no lock file of another live current one.      *)
(***************************************************************************)
\* The changes a process makes to the file at the path: a new file of its own,
\* its own record, its own death, or its removal from one of three places.
LEMMA NameChanges ==
  ASSUME TypeOK, NEW p \in Process, Begin(p) \/ Step(p) \/ Crash(p)
  PROVE  \/ name' = name
         \/ /\ Create(p) /\ name = None /\ pc'[p] = "record"
            /\ name' \in LockFiles /\ name'.owner = p
         \/ /\ Record(p) /\ Mine(p)
            /\ name' \in LockFiles /\ name'.owner = p /\ name'.recorded
         \/ /\ Crash(p) /\ Mine(p)
            /\ name' \in LockFiles /\ name'.owner = p /\ name'.dead
         \/ name' = None /\ pc[p] \in {"record", "unlink", "in"} /\ pc'[p] # pc[p]
<1> USE DEF TypeOK, Goto
<1>1. CASE Begin(p)
  BY <1>1 DEF Begin
<1>2. CASE Create(p)
  <2> DEFINE new == [owner |-> p, recorded |-> FALSE, old |-> FALSE, dead |-> FALSE]
  <2>1. new \in LockFiles /\ new.owner = p
    BY DEF LockFiles
  <2>2. CASE name = None
    <3>1. name' = new /\ pc'[p] = "record"
      BY <1>2, <2>2 DEF Create
    <3> QED BY <1>2, <2>1, <2>2, <3>1
  <2> QED BY <1>2, <2>2 DEF Create
<1>3. CASE Record(p)
  <2>1. CASE Mine(p)
    <3>1. name \in LockFiles /\ name' = [name EXCEPT !.recorded = TRUE]
      BY <1>3, <2>1 DEF Record, Mine
    <3>2. name' \in LockFiles /\ name'.owner = name.owner /\ name'.recorded
      BY <3>1 DEF LockFiles
    <3> QED BY <1>3, <2>1, <3>2 DEF Mine
  <2> QED BY <1>3, <2>1 DEF Record
<1>4. CASE Crash(p)
  <2>1. CASE Mine(p)
    <3>1. name \in LockFiles /\ name' = [name EXCEPT !.dead = TRUE]
      BY <1>4, <2>1 DEF Crash, Mine
    <3>2. name' \in LockFiles /\ name'.owner = name.owner /\ name'.dead
      BY <3>1 DEF LockFiles
    <3> QED BY <1>4, <2>1, <3>2 DEF Mine
  <2> QED BY <1>4, <2>1 DEF Crash
<1>5. CASE RecordFails(p) \/ UnlinkStale(p) \/ Unlock(p)
  BY <1>5 DEF RecordFails, UnlinkStale, Unlock, RemoveName, Again
<1>6. CASE TakeGate(p) \/ GateTimesOut(p) \/ Verify(p) \/ ReadLock(p) \/ StatLock(p)
             \/ RereadLock(p)
  BY <1>6 DEF TakeGate, GateTimesOut, Verify, ReadLock, StatLock, RereadLock
<1>7. CASE Poll(p) \/ GiveUp(p) \/ UnlockFails(p) \/ ReleaseGate(p)
  BY <1>7 DEF Poll, GiveUp, UnlockFails, ReleaseGate
<1> QED BY <1>1, <1>2, <1>3, <1>4, <1>5, <1>6, <1>7 DEF Step

\* A process leaves the record step by recording, failing or dying only.
LEMMA LeavesRecord ==
  ASSUME TypeOK, NEW p \in Process, Begin(p) \/ Step(p) \/ Crash(p), pc[p] = "record"
  PROVE  Record(p) \/ RecordFails(p) \/ Crash(p)
BY DEF Begin, Step, TakeGate, GateTimesOut, Create, Verify, ReadLock, StatLock, RereadLock,
   UnlinkStale, Poll, GiveUp, Unlock, UnlockFails, ReleaseGate

LEMMA BlankNext == TypeOK /\ BlankIsFresh /\ [Next]_vars => BlankIsFresh'
<1> SUFFICES ASSUME TypeOK, BlankIsFresh, [Next]_vars,
                    name' # None, name'.owner \in Current, ~name'.dead, ~name'.recorded
             PROVE  pc'[name'.owner] = "record"
  BY DEF BlankIsFresh
<1>1. ASSUME NEW p \in Process, Begin(p) \/ Step(p) \/ Crash(p)
      PROVE  pc'[name'.owner] = "record"
  <2>1. CASE name' = name
    <3>1. pc[name.owner] = "record"
      BY <2>1 DEF BlankIsFresh
    <3>2. CASE name.owner = p
      <4>1. Mine(p)
        BY <2>1, <3>2 DEF Mine
      <4>2. Record(p) \/ RecordFails(p) \/ Crash(p)
        BY <1>1, <3>1, <3>2, LeavesRecord
      <4>3. name \in LockFiles
        BY <2>1 DEF TypeOK
      <4>4. ~Record(p)
        BY <2>1, <4>1, <4>3 DEF Record, LockFiles
      <4>5. ~Crash(p)
        BY <2>1, <4>1, <4>3 DEF Crash, LockFiles
      <4>6. ~RecordFails(p)
        BY <2>1 DEF RecordFails, RemoveName
      <4> QED BY <4>2, <4>4, <4>5, <4>6
    <3>3. CASE name.owner # p
      <4>1. name.owner \in Process
        BY <2>1, LockAssumption
      <4> QED BY <1>1, <2>1, <3>1, <3>3, <4>1, StepIsLocal
    <3> QED BY <3>2, <3>3
  <2>2. CASE name' # name
    BY <1>1, <2>2, NameChanges
  <2> QED BY <2>1, <2>2
<1>2. ASSUME NEW p \in Process, Restart(p) PROVE pc'[name'.owner] = "record"
  BY <1>2 DEF Restart, BlankIsFresh
<1>3. CASE Age
  <2>1. name # None /\ pc' = pc
    BY <1>3 DEF Age
  <2>2. name'.owner = name.owner /\ name'.dead = name.dead /\ name'.recorded = name.recorded
    BY <1>3, <2>1, AgeKeeps, LockAssumption DEF TypeOK
  <2> QED BY <2>1, <2>2 DEF BlankIsFresh
<1>4. CASE UNCHANGED vars
  BY <1>4 DEF vars, BlankIsFresh
<1> QED BY <1>1, <1>2, <1>3, <1>4 DEF Next

LEMMA SeenNext == TypeOK /\ SeenStale /\ [Next]_vars => SeenStale'
<1> SUFFICES ASSUME TypeOK, SeenStale, [Next]_vars,
                    NEW q \in Current, pc'[q] \in {"stat", "reread"}
             PROVE  seen'[q] \in {Blank} \cup (Process \X {TRUE})
  BY DEF SeenStale
<1> DEFINE stale == seen'[q] \in {Blank} \cup (Process \X {TRUE})
<1> USE LockAssumption
<1>1. ASSUME NEW p \in Process, p # q, Begin(p) \/ Step(p) \/ Crash(p)
      PROVE  stale
  <2>1. pc'[q] = pc[q]
    BY <1>1, StepIsLocal
  <2>2. seen'[q] = seen[q]
    BY <1>1 DEF TypeOK, Begin, Crash, Step, TakeGate, GateTimesOut, Create, Record,
       RecordFails, Verify, ReadLock, StatLock, RereadLock, UnlinkStale, Poll, GiveUp,
       Unlock, UnlockFails, ReleaseGate
  <2> QED BY <2>1, <2>2 DEF SeenStale
<1>2. CASE Begin(q) \/ Crash(q)
  BY <1>2 DEF Begin, Crash, Goto, TypeOK
<1>3. CASE ReadLock(q)
  <2>1. name # None /\ (name.recorded => name.dead) /\ seen'[q] = Content(name)
    BY <1>3 DEF ReadLock, Again, Goto, TypeOK
  <2>2. name.owner \in Process /\ name.dead \in BOOLEAN
    BY <2>1 DEF TypeOK, LockFiles
  <2>3. CASE name.recorded
    <3>1. name.dead = TRUE
      BY <2>1, <2>2, <2>3
    <3>2. Content(name) = <<name.owner, name.dead>>
      BY <2>3 DEF Content
    <3>3. <<name.owner, name.dead>> \in Process \X {TRUE}
      BY <2>2, <3>1
    <3> QED BY <2>1, <3>2, <3>3, Zenon
  <2>4. CASE ~name.recorded
    BY <2>1, <2>4 DEF Content
  <2> QED BY <2>3, <2>4
<1>4. CASE StatLock(q)
  BY <1>4 DEF StatLock, SeenStale
<1>5. CASE RereadLock(q)
  BY <1>5 DEF RereadLock, TypeOK
<1>6. CASE Step(q) /\ ~ReadLock(q) /\ ~StatLock(q) /\ ~RereadLock(q)
  <2>1. pc'[q] \notin {"stat", "reread"}
    <3>1. CASE Verify(q)
      BY <3>1 DEF Verify, Goto, TypeOK
    <3>2. CASE ~Verify(q)
      BY <1>6, <3>2 DEF Step, TakeGate, GateTimesOut, Create, Record, RecordFails,
         UnlinkStale, Poll, GiveUp, Unlock, UnlockFails, ReleaseGate, Goto, Again, TypeOK
    <3> QED BY <3>1, <3>2
  <2> QED BY <2>1
<1>7. ASSUME NEW p \in Process, Restart(p) PROVE stale
  BY <1>7 DEF Restart, SeenStale
<1>8. CASE Age \/ UNCHANGED vars
  BY <1>8 DEF Age, vars, SeenStale
<1> QED BY <1>1, <1>2, <1>3, <1>4, <1>5, <1>6, <1>7, <1>8 DEF Next

\* The steps from which a process may go on to remove the file at the path.
Removing == {"record", "verify", "in", "unlink"}

\* A process comes there by creating its own file, or by judging the one it reads
\* again.
LEMMA StartsRemoving ==
  ASSUME TypeOK, NEW p \in Process, Begin(p) \/ Step(p) \/ Crash(p),
         pc'[p] \in Removing, pc[p] \notin Removing
  PROVE  \/ Create(p) /\ name = None
         \/ RereadLock(p) /\ pc'[p] = "unlink" /\ name # None /\ Content(name) = seen[p]
<1> USE DEF TypeOK, Goto, Again, Removing
<1>1. CASE Begin(p) \/ Crash(p)
  BY <1>1 DEF Begin, Crash
<1>2. CASE TakeGate(p) \/ GateTimesOut(p) \/ Create(p) \/ Record(p) \/ RecordFails(p)
  BY <1>2 DEF TakeGate, GateTimesOut, Create, Record, RecordFails
<1>3. CASE Verify(p)
  BY <1>3 DEF Verify
<1>4. CASE ReadLock(p)
  BY <1>4 DEF ReadLock
<1>5. CASE StatLock(p) \/ RereadLock(p) \/ UnlinkStale(p)
  BY <1>5 DEF StatLock, RereadLock, UnlinkStale
<1>6. CASE Poll(p) \/ GiveUp(p) \/ Unlock(p) \/ UnlockFails(p) \/ ReleaseGate(p)
  BY <1>6 DEF Poll, GiveUp, Unlock, UnlockFails, ReleaseGate
<1> QED BY <1>1, <1>2, <1>3, <1>4, <1>5, <1>6 DEF Step

\* A current stealer that judged a file twice has not judged the file of another
\* live current process: a recorded one is not what it saw, a blank one would
\* mean that its maker owns the gate.
LEMMA JudgesStale ==
  ASSUME TypeOK, Gated, BlankIsFresh, SeenStale,
         NEW p \in Current, pc[p] = "reread", name # None, Content(name) = seen[p],
         name.owner \in Current \ {p}
  PROVE  name.dead
<1> SUFFICES ASSUME ~name.dead PROVE FALSE
  OBVIOUS
<1>1. seen[p] \in {Blank} \cup (Process \X {TRUE})
  BY DEF SeenStale
<1>2. name.owner \in Process /\ name.dead \in BOOLEAN
  BY DEF TypeOK, LockFiles
<1>3. CASE name.recorded
  <2>1. <<name.owner, name.dead>> = seen[p]
    BY <1>3 DEF Content
  <2>2. <<name.owner, name.dead>> # Blank
    BY DEF Blank
  <2>3. <<name.owner, name.dead>> \in Process \X {TRUE}
    BY <1>1, <2>1, <2>2, Zenon
  <2>4. name.dead = TRUE
    BY <2>3
  <2> QED BY <2>4
<1>4. CASE ~name.recorded
  <2>1. pc[name.owner] = "record"
    BY <1>4 DEF BlankIsFresh
  <2> QED BY <2>1 DEF Gated
<1> QED BY <1>3, <1>4

LEMMA ElseNext ==
  TypeOK /\ Gated /\ BlankIsFresh /\ SeenStale /\ NobodysElse /\ [Next]_vars => NobodysElse'
<1> SUFFICES ASSUME TypeOK, Gated, BlankIsFresh, SeenStale, NobodysElse, [Next]_vars,
                    NEW p \in Current, pc'[p] \in Removing, name' # None,
                    name'.owner \in Current \ {p}
             PROVE  name'.dead
  BY DEF NobodysElse, Removing
<1> USE LockAssumption
<1>1. CASE Begin(p) \/ Step(p) \/ Crash(p)
  <2>1. name' = name
    BY <1>1, NameChanges
  <2>2. CASE pc[p] \in Removing
    BY <2>1, <2>2 DEF NobodysElse, Removing
  <2>3. CASE pc[p] \notin Removing
    <3>1. RereadLock(p) /\ name # None /\ Content(name) = seen[p]
      BY <1>1, <2>1, <2>3, StartsRemoving
    <3>2. pc[p] = "reread"
      BY <3>1 DEF RereadLock
    <3> QED BY <2>1, <3>1, <3>2, JudgesStale
  <2> QED BY <2>2, <2>3
<1>2. ASSUME NEW a \in Process, a # p, Begin(a) \/ Step(a) \/ Crash(a)
      PROVE  name'.dead
  <2>1. pc[p] \in Removing
    BY <1>2, StepIsLocal
  <2>2. gate = p
    BY <2>1 DEF Gated, Removing
  <2>3. ~Create(a) \/ name' = name \/ name'.owner \notin Current
    <3> SUFFICES ASSUME Create(a), name' # name PROVE name'.owner \notin Current
      OBVIOUS
    <3>1. name'.owner = a /\ pc[a] = "create"
      BY DEF Create
    <3> QED BY <1>2, <2>2, <3>1 DEF Gated
  <2>4. ~(Record(a) /\ Mine(a) /\ name'.owner = a)
    BY <2>1 DEF NobodysElse, Removing, Mine
  <2>5. CASE name' = name
    BY <2>1, <2>5 DEF NobodysElse, Removing
  <2>6. CASE name' # name
    BY <1>2, <2>3, <2>4, <2>6, NameChanges
  <2> QED BY <2>5, <2>6
<1>3. ASSUME NEW a \in Process, Restart(a) PROVE name'.dead
  BY <1>3 DEF Restart, NobodysElse, Removing
<1>4. CASE Age
  <2>1. name # None /\ pc' = pc
    BY <1>4 DEF Age
  <2>2. name'.owner = name.owner /\ name'.dead = name.dead
    BY <1>4, <2>1, AgeKeeps
  <2> QED BY <2>1, <2>2 DEF NobodysElse, Removing
<1>5. CASE UNCHANGED vars
  BY <1>5 DEF vars, NobodysElse, Removing
<1> QED BY <1>1, <1>2, <1>3, <1>4, <1>5 DEF Next

\* What a step of the lock may take for granted.
Judged == TypeOK /\ Gated /\ BlankIsFresh /\ SeenStale /\ NobodysElse

LEMMA JudgedInit == Init => Judged
<1>1. Init => Gated /\ BlankIsFresh /\ SeenStale /\ NobodysElse
  BY LockAssumption DEF Init, Gated, BlankIsFresh, SeenStale, NobodysElse
<1> QED BY <1>1, TypeInit DEF Judged

LEMMA JudgedNext == Judged /\ [Next]_vars => Judged'
BY TypeNext, GatedNext, BlankNext, SeenNext, ElseNext DEF Judged

\* Who removes the file moves, from a step at which NobodysElse speaks of it.
LEMMA RemovesOwn ==
  ASSUME Judged, [Next]_vars, NEW p \in Current,
         name # None, name' = None, name.owner \in Current \ {p}, ~name.dead
  PROVE  pc'[p] = pc[p]
<1> USE LockAssumption DEF Judged
<1>1. CASE Begin(p) \/ Step(p) \/ Crash(p)
  <2>1. pc[p] \in {"record", "unlink", "in"}
    BY <1>1, NameChanges, NoLockFile
  <2> QED BY <2>1 DEF NobodysElse
<1>2. ASSUME NEW a \in Process, a # p, Begin(a) \/ Step(a) \/ Crash(a)
      PROVE  pc'[p] = pc[p]
  BY <1>2, StepIsLocal
<1>3. ASSUME NEW a \in Process, Restart(a) PROVE pc'[p] = pc[p]
  BY <1>3 DEF Restart
<1>4. CASE Age \/ UNCHANGED vars
  BY <1>4 DEF Age, vars
<1> QED BY <1>1, <1>2, <1>3, <1>4 DEF Next

\* CurrentNeverRobbed: no current process removes the lock file of another live
\* current one, however long that one was descheduled after it created the file.
THEOREM NeverRobbedHolds == Spec => CurrentNeverRobbed
<1>1. Judged /\ [Next]_vars
      => [\A p \in Current :
             /\ name # None /\ name' = None
             /\ name.owner \in Current \ {p} /\ ~name.dead
             => pc'[p] = pc[p]]_vars
  BY RemovesOwn
<1> QED BY <1>1, JudgedInit, JudgedNext, PTL DEF Spec, CurrentNeverRobbed

(***************************************************************************)
(* The lock of the current processes is a RegionLock.                      *)
(***************************************************************************)
\* The process the region is mapped to.
Holder == IF Inside = {} THEN None ELSE CHOOSE p \in Inside : TRUE

LEMMA HolderIs ==
  ASSUME CurrentExclusive, NEW p \in Current, pc[p] = "in"
  PROVE  Holder = p
BY DEF CurrentExclusive, InRegion, Inside, Holder

LEMMA HolderNone ==
  ASSUME \A p \in Current : pc[p] # "in"
  PROVE  Holder = None
BY DEF InRegion, Inside, Holder

\* A step enters the free region, leaves it, or does not touch it.
LEMMA RegionStep ==
  ASSUME TypeOK, CurrentExclusive, CurrentExclusive', [Next]_vars
  PROVE  \/ Holder' = Holder
         \/ \E p \in Current : Holder = None /\ Holder' = p
         \/ \E p \in Current : Holder = p /\ Holder' = None
<1> USE LockAssumption
<1>1. ASSUME NEW a \in Process, Begin(a) \/ Step(a) \/ Crash(a)
      PROVE  \/ Holder' = Holder
             \/ \E p \in Current : Holder = None /\ Holder' = p
             \/ \E p \in Current : Holder = p /\ Holder' = None
  <2>1. \A q \in Current : q # a => pc'[q] = pc[q]
    BY <1>1, StepIsLocal
  <2>2. CASE \E q \in Current : q # a /\ pc[q] = "in"
    BY <2>1, <2>2, HolderIs DEF CurrentExclusive, InRegion, Inside, Holder
  <2>3. CASE ~\E q \in Current : q # a /\ pc[q] = "in"
    <3>1. \A q \in Current : pc[q] = "in" => q = a
      BY <2>3
    <3>2. \A q \in Current : pc'[q] = "in" => q = a
      BY <2>1, <2>3
    <3>3. Inside \in {{}, {a}} /\ Inside' \in {{}, {a}}
      BY <3>1, <3>2 DEF Inside, InRegion
    <3>4. a \in Inside \/ a \in Inside' => a \in Current
      BY DEF Inside
    <3> QED BY <3>3, <3>4 DEF Holder
  <2> QED BY <2>2, <2>3
<1>2. ASSUME NEW a \in Process, Restart(a) PROVE Holder' = Holder
  BY <1>2 DEF Restart, Holder, Inside, InRegion
<1>3. CASE Age \/ UNCHANGED vars
  BY <1>3 DEF Age, vars, Holder, Inside, InRegion
<1> QED BY <1>1, <1>2, <1>3 DEF Next

\* ImplementsRegionLock: the gate and the lock file together are a lock that one
\* current process holds at a time, and that a death inside gives up.
THEOREM RegionImplemented == Spec => ImplementsRegionLock
<1>1. Init => Region!Init
  BY HolderNone, LockAssumption DEF Init, Region!Init, Holder
<1>2. TypeOK /\ Gated /\ (TypeOK /\ Gated)' /\ [Next]_vars
      => [Region!Next]_(IF Inside = {} THEN None ELSE CHOOSE p \in Inside : TRUE)
  <2> SUFFICES ASSUME TypeOK, Gated, TypeOK', Gated', [Next]_vars
               PROVE  [Region!Next]_(IF Inside = {} THEN None ELSE CHOOSE p \in Inside : TRUE)
    OBVIOUS
  <2>1. CurrentExclusive
    BY GatedExcludes
  <2>2. CurrentExclusive'
    BY DEF Gated, CurrentExclusive, InRegion
  <2>3. CASE Holder' = Holder
    BY <2>3 DEF Holder
  <2>4. CASE \E p \in Current : Holder = None /\ Holder' = p
    BY <2>4 DEF Holder, Region!Next, Region!Enter, Region!Free
  <2>5. CASE \E p \in Current : Holder = p /\ Holder' = None
    BY <2>5 DEF Holder, Region!Next, Region!Leave
  <2> QED BY <2>1, <2>2, <2>3, <2>4, <2>5, RegionStep
<1> QED BY <1>1, <1>2, Gates, PTL DEF Spec, ImplementsRegionLock, Region!Spec
==============================================================================
