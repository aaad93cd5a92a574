------------------------- MODULE AgentLifecycle_proof -------------------------
(***************************************************************************)
(* Proofs about AgentLifecycle for any number of messages, generations and *)
(* sessions.  The argument goes in four parts:                             *)
(*   - every variable keeps its type (TypeCorrect);                        *)
(*   - what each action does to the slots that matter, said once: the      *)
(*     ...Does lemmas;                                                     *)
(*   - the conjuncts of IInv, each kept by every step that parks no        *)
(*     revival by the timer of a replaced adoption (Tame): a section each; *)
(*   - the theorems that follow from IInv, for a state or for a step, as   *)
(*     long as no timer did so (strayed).                                  *)
(***************************************************************************)
EXTENDS AgentLifecycle, TLAPS

(***************************************************************************)
(* The records of the manager keep their shape.                            *)
(***************************************************************************)
LEMMA NoneIsNoSession == None \notin Session /\ None \notin Ref
BY LifecycleAssumption DEF Session, Ref

LEMMA StatusShape ==
  ASSUME NEW a \in Adoptions \cup {None}, NEW r, NEW st
  PROVE  /\ OnStatus(a, r, st) \in Adoptions \cup {None}
         /\ OnRemoved(a, r) \in Adoptions \cup {None}
         /\ OnStatus(a, r, st) = None <=> a = None
         /\ a # None => /\ OnStatus(a, r, st).ref = a.ref
                        /\ OnStatus(a, r, st).revive = a.revive
                        /\ OnStatus(a, r, st).owned = a.owned
<1>1. CASE a = None
  BY <1>1 DEF OnStatus, OnRemoved, Adopts
<1>2. CASE a \in Adoptions
  <2> DEFINE b == [a EXCEPT !.timer = (st = "idle")]
  <2>1. a # None
    BY <1>2, NoneInFlight
  <2>2. b \in Adoptions /\ b.ref = a.ref /\ b.revive = a.revive /\ b.owned = a.owned
    BY <1>2 DEF Adoptions
  <2>3. b # None
    BY <2>2, NoneInFlight
  <2> HIDE DEF b
  <2>4. OnStatus(a, r, st) \in {a, b}
    BY DEF OnStatus, b
  <2>5. OnRemoved(a, r) \in {a, None}
    BY DEF OnRemoved
  <2> QED BY <1>2, <2>1, <2>2, <2>3, <2>4, <2>5
<1> QED BY <1>1, <1>2

LEMMA SetStatusShape ==
  ASSUME TypeOK, NEW r \in Ref, NEW st \in {"running", "idle", "parked", "aborted"},
         SetStatus(r, st)
  PROVE  /\ status' \in [Ref -> {"none", "running", "idle", "parked", "aborted"}]
         /\ adopted' \in Adoptions \cup {None}
<1>1. adopted \in Adoptions \cup {None}
  BY DEF TypeOK
<1>2. OnStatus(adopted, r, st) \in Adoptions \cup {None}
  BY <1>1, StatusShape
<1>3. adopted' \in {adopted, OnStatus(adopted, r, st)}
  BY DEF SetStatus
<1>4. status' \in {status, [status EXCEPT ![r] = st]}
  BY DEF SetStatus
<1>5. status' \in [Ref -> {"none", "running", "idle", "parked", "aborted"}]
  BY <1>4 DEF TypeOK
<1> QED BY <1>1, <1>2, <1>3, <1>5

LEMMA UnregisterShape ==
  ASSUME TypeOK, NEW r, Unregister(r)
  PROVE  /\ reg' \in Refs
         /\ adopted' \in Adoptions \cup {None}
<1>1. adopted \in Adoptions \cup {None}
  BY DEF TypeOK
<1>2. OnRemoved(adopted, r) \in Adoptions \cup {None}
  BY <1>1 DEF OnRemoved
<1> QED BY <1>1, <1>2 DEF TypeOK, Unregister, Refs

LEMMA DisposeShape ==
  ASSUME TypeOK, NEW s, Dispose(s)
  PROVE  life' \in [Session -> {"none", "live", "disposing", "gone"}]
BY DEF TypeOK, Dispose

LEMMA ParkShape ==
  ASSUME NEW p \in Parks
  PROVE  /\ p # None
         /\ [p EXCEPT !.step = "dispose"] \in Parks
         /\ [p EXCEPT !.cancelled = TRUE] \in Parks
BY NoneInFlight DEF Parks

LEMMA ReleaseShape ==
  ASSUME NEW p \in Releases, NEW st \in {"park", "persist", "dispose", "cleanup"},
         NEW s \in Session \cup {None}
  PROVE  /\ p # None
         /\ [p EXCEPT !.step = st] \in Releases
         /\ [p EXCEPT !.step = st, !.sess = s] \in Releases
BY NoneInFlight DEF Releases

LEMMA NewOnes ==
  /\ Session # Born => NewSession \in Session /\ life[NewSession] = "none"
  /\ Ref # Known => NewRef \in Ref /\ status[NewRef] = "none"
<1>1. Session # Born => \E s \in Session : life[s] = "none"
  BY DEF Born
<1>2. Ref # Known => \E r \in Ref : status[r] = "none"
  BY DEF Known
<1> QED BY <1>1, <1>2 DEF NewSession, NewRef

LEMMA ResolveShape ==
  ASSUME TypeOK, NEW m \in Message, Resolve(m)
  PROVE  /\ park' = park /\ orphans' = orphans /\ disposed' = disposed /\ rel' = rel
         /\ rev' \in [Ref -> Revivals \cup {None}]
         /\ revivals' \in Refs
         /\ pc' \in [Message -> {"new", "keep", "park", "revive", "got", "delivered",
                           "buffered", "failed"}]
         /\ arg' \in [Message -> Ref \cup Session \cup {None}]
<1>1. Attached \in Sessions
  BY DEF TypeOK, Attached, Refs, Sessions
<1>2. reg \in Ref \cup {None}
  BY DEF TypeOK, Refs
<1>3. [step |-> IF Warm(reg) THEN "build" ELSE "factory", cold |-> ~Warm(reg), sess |-> None]
         \in Revivals
  BY DEF Revivals
<1> QED BY <1>1, <1>2, <1>3 DEF TypeOK, Resolve, Got, Await, Fail, Sessions, Refs

LEMMA RevivalFailsShape ==
  ASSUME TypeOK, NEW r \in Ref, RevivalFails(r) \/ RevivalOver(r)
  PROVE  /\ rev' \in [Ref -> Revivals \cup {None}]
         /\ revivals' \in Refs
         /\ RevivalFails(r) =>
              /\ pc' \in [Message -> {"new", "keep", "park", "revive", "got", "delivered",
                           "buffered", "failed"}]
              /\ arg' \in [Message -> Ref \cup Session \cup {None}]
BY DEF TypeOK, RevivalFails, RevivalOver, Refs

LEMMA RevivalShape ==
  ASSUME NEW p \in Revivals
  PROVE  /\ p # None
         /\ p.step = "factory" => [p EXCEPT !.step = "build"] \in Revivals
         /\ \A s \in Session : [p EXCEPT !.step = "claimed", !.sess = s] \in Revivals
BY NoneInFlight DEF Revivals

LEMMA ReleaseStartShape ==
  ASSUME TypeOK, NEW x \in Releaser, NEW r \in Ref, NEW kill \in BOOLEAN, Release(x, r, kill)
  PROVE  /\ adopted' \in Adoptions \cup {None}
         /\ park' \in Parks \cup {None}
         /\ rel' \in [Releaser -> Releases \cup {None}]
<1>1. adopted' \in Adoptions \cup {None}
  BY DEF TypeOK, Release
<1>2. park' \in Parks \cup {None}
  BY ParkShape DEF TypeOK, Release
<1>3. (adopted # None /\ adopted.ref = r /\ adopted.owned) \in BOOLEAN
  BY DEF TypeOK, Adoptions
<1>4. [ref |-> r, kill |-> kill, owned |-> adopted # None /\ adopted.ref = r /\ adopted.owned,
        sess |-> None, step |-> "park"] \in Releases
  BY <1>3 DEF Releases
<1>5. rel' \in [Releaser -> Releases \cup {None}]
  BY <1>4 DEF TypeOK, Release
<1> QED BY <1>1, <1>2, <1>5

\* A release moves to its next step.
LEMMA RelMoves ==
  ASSUME TypeOK, NEW x \in Releaser, rel[x] # None,
         NEW st \in {"park", "persist", "dispose", "cleanup"}, NEW s \in Session \cup {None}
  PROVE  /\ [rel EXCEPT ![x].step = st] \in [Releaser -> Releases \cup {None}]
         /\ [rel EXCEPT ![x].step = st, ![x].sess = s] \in [Releaser -> Releases \cup {None}]
<1>1. rel[x] \in Releases
  BY DEF TypeOK
<1>2. /\ [rel[x] EXCEPT !.step = st] \in Releases
      /\ [rel[x] EXCEPT !.step = st, !.sess = s] \in Releases
  BY <1>1, ReleaseShape
<1>3. [rel EXCEPT ![x].step = st, ![x].sess = s] = [rel EXCEPT ![x] = [rel[x] EXCEPT !.step = st, !.sess = s]]
  BY DEF TypeOK
<1>4. [rel EXCEPT ![x].step = st] = [rel EXCEPT ![x] = [rel[x] EXCEPT !.step = st]]
  OBVIOUS
<1> QED BY <1>2, <1>3, <1>4 DEF TypeOK

LEMMA ParkingShape ==
  ASSUME TypeOK
  PROVE  Parking \in Parks \cup {None}
<1>1. CASE park = None /\ adopted # None /\ reg = adopted.ref /\ Attached # None
  <2>1. reg \in Ref /\ Attached \in Session
    BY <1>1 DEF Attached, TypeOK, Refs, Sessions
  <2>2. [ref |-> reg, sess |-> Attached, step |-> "yield", cancelled |-> FALSE] \in Parks
    BY <2>1 DEF Parks
  <2> QED BY <1>1, <2>2 DEF Parking
<1>2. CASE ~(park = None /\ adopted # None /\ reg = adopted.ref /\ Attached # None)
  BY <1>2 DEF Parking, TypeOK
<1> QED BY <1>1, <1>2

LEMMA TypeInit == Init => TypeOK
<1> SUFFICES ASSUME Init PROVE TypeOK
  OBVIOUS
<1>1. /\ synced \in [Session -> BOOLEAN]
      /\ disposed \in BOOLEAN
  BY DEF Init
<1>2. /\ reg \in Refs /\ att \in [Ref -> Sessions] /\ own \in [Session -> Refs]
      /\ revivals \in Refs /\ con \in Refs /\ probe \in Refs
      /\ arg \in [Message -> Ref \cup Session \cup {None}]
  BY DEF Init, Refs, Sessions
<1> QED BY <1>1, <1>2 DEF Init, TypeOK

LEMMA TypeStep == TypeOK /\ [Next]_vars => TypeOK'
<1> SUFFICES ASSUME TypeOK, [Next]_vars PROVE TypeOK'
  OBVIOUS
<1> USE DEF registry, sessions, manager, callers, senders, history
<1>0. reg \in Ref \cup {None} /\ Attached \in Session \cup {None}
  BY DEF TypeOK, Attached, Refs, Sessions
<1>1. CASE ParkCommits
  <2> DEFINE stop == \/ park.cancelled \/ reg # park.ref \/ Attached # park.sess
                     \/ adopted = None \/ adopted.ref # park.ref
  <2>1. CASE stop
    BY <1>1, <2>1 DEF ParkCommits, TypeOK
  <2>2. CASE ~stop
    <3>1. park' \in Parks \cup {None} /\ Dispose(park.sess)
      BY <1>1, <2>2, ParkShape DEF ParkCommits, TypeOK
    <3>2. /\ att' \in [Ref -> Sessions]
          /\ status' \in [Ref -> {"none", "running", "idle", "parked", "aborted"}]
      BY <1>1, <2>2 DEF ParkCommits, TypeOK, Sessions
    <3> QED BY <1>1, <3>1, <3>2, DisposeShape DEF ParkCommits, TypeOK
  <2> QED BY <2>1, <2>2
<1>2. ASSUME NEW m \in Message, Injects(m) PROVE TypeOK'
  BY <1>2 DEF Injects, Deliver, TypeOK
<1>3. ASSUME NEW m \in Message, Kept(m) PROVE TypeOK'
  <2>1. CASE Attached # None
    <3>1. adopted # None => [adopted EXCEPT !.timer = TRUE] \in Adoptions
      BY DEF TypeOK, Adoptions
    <3> QED BY <1>3, <1>0, <2>1, <3>1 DEF Kept, Got, TypeOK
  <2>2. CASE Attached = None
    BY <1>3, <2>2, ResolveShape DEF Kept, TypeOK
  <2> QED BY <2>1, <2>2
<1>4. ASSUME NEW m \in Message, Parked(m) PROVE TypeOK'
  BY <1>4, ResolveShape DEF Parked, TypeOK
<1>5. ASSUME NEW x \in Releaser, ReleaseGoesOn(x) PROVE TypeOK'
  <2> DEFINE r == rel[x].ref
             s == IF reg = r THEN att[r] ELSE None
  <2>1. rel[x] \in Releases /\ r \in Ref /\ s \in Session \cup {None}
    BY <1>5 DEF ReleaseGoesOn, TypeOK, Releases, Sessions
  <2> HIDE DEF s
  <2>2. rel' \in [Releaser -> Releases \cup {None}]
    <3>1. CASE rel[x].kill
      <4>1. rel' = [rel EXCEPT ![x].step = "persist", ![x].sess = s]
        BY <1>5, <3>1 DEF ReleaseGoesOn, s
      <4> QED BY <1>5, <2>1, <4>1, RelMoves DEF ReleaseGoesOn
    <3>2. CASE ~rel[x].kill
      <4>1. PICK st \in {"cleanup", "dispose"} : rel' = [rel EXCEPT ![x].step = st, ![x].sess = s]
        <5>1. CASE s = None \/ life[s] = "gone"
          BY <1>5, <3>2, <5>1 DEF ReleaseGoesOn, s
        <5>2. CASE ~(s = None \/ life[s] = "gone")
          BY <1>5, <3>2, <5>2 DEF ReleaseGoesOn, s
        <5> QED BY <5>1, <5>2
      <4> QED BY <1>5, <2>1, <4>1, RelMoves DEF ReleaseGoesOn
    <3> QED BY <3>1, <3>2
  <2>3. /\ status' \in [Ref -> {"none", "running", "idle", "parked", "aborted"}]
        /\ adopted' \in Adoptions \cup {None}
    BY <1>5, <2>1, SetStatusShape DEF ReleaseGoesOn, TypeOK
  <2>4. life' \in [Session -> {"none", "live", "disposing", "gone"}]
    BY <1>5, DisposeShape DEF ReleaseGoesOn, TypeOK
  <2>5. att' \in [Ref -> Sessions]
    BY <1>5 DEF ReleaseGoesOn, TypeOK, Sessions
  <2> QED BY <1>5, <2>2, <2>3, <2>4, <2>5 DEF ReleaseGoesOn, TypeOK
<1>6. ASSUME NEW s \in Session, SessionGone(s) PROVE TypeOK'
  <2>1. \A x \in Releaser : rel[x] # None => [rel[x] EXCEPT !.step = "cleanup"] \in Releases
    BY ReleaseShape DEF TypeOK
  <2>2. run # None => [run EXCEPT !.over = TRUE] \in Runs
    BY DEF TypeOK, Runs
  <2>3. rel' \in [Releaser -> Releases \cup {None}]
    BY <1>6, <2>1 DEF SessionGone, TypeOK
  <2>4. reg' \in Refs /\ adopted' \in Adoptions \cup {None}
    BY <1>6, UnregisterShape DEF SessionGone, TypeOK
  <2> QED BY <1>6, <2>2, <2>3, <2>4 DEF SessionGone, TypeOK
<1>7. ASSUME NEW r \in Ref, FactoryReturns(r) PROVE TypeOK'
  <2>1. [ref |-> r, revive |-> TRUE, owned |-> FALSE, timer |-> FALSE] \in Adoptions
    BY DEF Adoptions
  <2>2. rev[r] \in Revivals
    BY <1>7 DEF FactoryReturns, At, TypeOK
  <2>3. [rev EXCEPT ![r].step = "build"] \in [Ref -> Revivals \cup {None}]
    <3>1. rev[r].step = "factory"
      BY <1>7 DEF FactoryReturns, At
    <3> QED BY <2>2, <3>1, RevivalShape DEF TypeOK
  <2>4. adopted' \in Adoptions \cup {None} /\ untimed' \subseteq Ref /\ orphans' \in Nat
    <3>1. adopted # None => adopted.ref \in Ref
      BY DEF TypeOK, Adoptions
    <3>2. PICK found \in BOOLEAN :
             IF found /\ ~disposed
               THEN /\ adopted' = [ref |-> r, revive |-> TRUE, owned |-> FALSE, timer |-> FALSE]
                    /\ untimed' = untimed \cup
                         IF adopted # None /\ adopted.ref = reg /\ reg # r
                           THEN {reg} ELSE {}
                    /\ orphans' = IF adopted # None /\ adopted.timer
                                    THEN orphans + 1 ELSE orphans
               ELSE UNCHANGED <<adopted, orphans, untimed>>
      BY <1>7 DEF FactoryReturns
    <3>3. adopted' \in Adoptions \cup {None}
      BY <2>1, <3>2 DEF TypeOK
    <3>4. untimed' \subseteq Ref
      BY <3>1, <3>2 DEF TypeOK
    <3>5. orphans' \in Nat
      BY <3>2 DEF TypeOK
    <3> QED BY <3>3, <3>4, <3>5
  <2>5. \/ RevivalFails(r)
        \/ rev' = [rev EXCEPT ![r].step = "build"] /\ UNCHANGED <<revivals, senders>>
    BY <1>7 DEF FactoryReturns
  <2>6. /\ rev' \in [Ref -> Revivals \cup {None}]
        /\ revivals' \in Refs
        /\ pc' \in [Message -> {"new", "keep", "park", "revive", "got", "delivered",
                           "buffered", "failed"}]
        /\ arg' \in [Message -> Ref \cup Session \cup {None}]
    BY <2>3, <2>5, RevivalFailsShape DEF TypeOK
  <2> QED BY <1>7, <2>4, <2>6 DEF FactoryReturns, TypeOK
<1>8. ASSUME NEW r \in Ref, BuildEnds(r) PROVE TypeOK'
  <2>1. NewSession \in Session
    BY <1>8, NewOnes DEF BuildEnds
  <2>2. CASE reg = r /\ status[r] = "parked"
    <3>1. rev[r] \in Revivals
      BY <1>8 DEF BuildEnds, At, TypeOK
    <3>2. [rev EXCEPT ![r].step = "claimed", ![r].sess = NewSession] \in [Ref -> Revivals \cup {None}]
      BY <2>1, <3>1, RevivalShape DEF TypeOK
    <3>3. SetStatus(r, "running")
      BY <1>8, <2>2 DEF BuildEnds
    <3>4. /\ status' \in [Ref -> {"none", "running", "idle", "parked", "aborted"}]
          /\ adopted' \in Adoptions \cup {None}
      BY <3>3, SetStatusShape
    <3>5. /\ life' \in [Session -> {"none", "live", "disposing", "gone"}]
          /\ own' \in [Session -> Refs]
          /\ att' \in [Ref -> Sessions]
      BY <1>8, <2>1, <2>2 DEF BuildEnds, TypeOK, Sessions, Refs
    <3> QED BY <1>8, <2>2, <3>2, <3>4, <3>5 DEF BuildEnds, TypeOK
  <2>3. CASE ~(reg = r /\ status[r] = "parked")
    BY <1>8, <2>3, RevivalFailsShape DEF BuildEnds, TypeOK, Dropped
  <2> QED BY <2>2, <2>3
<1>9. ASSUME NEW r \in Ref, ReviverThrows(r) PROVE TypeOK'
  <2>1. leaked' \subseteq Session
    BY <1>9, NoneInFlight DEF ReviverThrows, TypeOK, At, Revivals
  <2> QED BY <1>9, <2>1, RevivalFailsShape DEF ReviverThrows, TypeOK, Dropped
<1>10. ASSUME NEW r \in Ref, ReviveEnds(r) PROVE TypeOK'
  <2>1. rev[r].sess \in Session
    BY <1>10 DEF ReviveEnds, At, TypeOK, Revivals
  <2> DEFINE lands == \/ reg = r /\ status[r] = "parked" /\ att[r] = None
                      \/ reg = r /\ status[r] = "running" /\ att[r] = rev[r].sess
  <2>2. CASE disposed \/ ~lands
    BY <1>10, <2>2, RevivalFailsShape, DisposeShape DEF ReviveEnds, TypeOK, Dropped
  <2>3. CASE ~(disposed \/ ~lands)
    <3>1. SetStatus(r, "idle")
      BY <1>10, <2>3 DEF ReviveEnds
    <3>2. /\ status' \in [Ref -> {"none", "running", "idle", "parked", "aborted"}]
          /\ adopted' \in Adoptions \cup {None}
      BY <3>1, SetStatusShape
    <3>3. RevivalOver(r) /\ UNCHANGED life
      BY <1>10, <2>3 DEF ReviveEnds
    <3>4. /\ pc' \in [Message -> {"new", "keep", "park", "revive", "got", "delivered",
                           "buffered", "failed"}]
          /\ arg' \in [Message -> Ref \cup Session \cup {None}]
      BY <1>10, <2>1, <2>3 DEF ReviveEnds, TypeOK
    <3>5. synced' \in [Session -> BOOLEAN]
      BY <1>10 DEF ReviveEnds, TypeOK
    <3>6. att' \in [Ref -> Sessions]
      BY <1>10, <2>1, <2>3 DEF ReviveEnds, TypeOK, Sessions
    <3> QED BY <1>10, <3>2, <3>3, <3>4, <3>5, <3>6, RevivalFailsShape DEF ReviveEnds, TypeOK
  <2> QED BY <2>2, <2>3
<1>11. ASSUME NEW x \in Releaser, TombstonePersisted(x) PROVE TypeOK'
  <2>1. rel' \in [Releaser -> Releases \cup {None}]
    BY <1>11, RelMoves, None \in Session \cup {None} DEF TombstonePersisted
  <2> QED BY <1>11, <2>1, DisposeShape DEF TombstonePersisted, TypeOK
<1>12. ASSUME NEW x \in Releaser, CleanupEnds(x) PROVE TypeOK'
  <2>1. reg' \in Refs /\ adopted' \in Adoptions \cup {None} /\ leaked' \subseteq Session
    BY <1>0, <1>12, UnregisterShape DEF CleanupEnds, TypeOK
  <2> QED BY <1>12, <2>1 DEF CleanupEnds, TypeOK, Refs
<1>13. CASE SpawnAttaches
  <2>1. NewSession \in Session /\ con \in Ref
    BY <1>13, NewOnes DEF SpawnAttaches, TypeOK, Refs
  <2>2. [sess |-> NewSession, over |-> FALSE] \in Runs
    BY <2>1 DEF Runs
  <2>3. reg' \in Refs /\ adopted' \in Adoptions \cup {None}
    BY <1>13, UnregisterShape DEF SpawnAttaches, TypeOK
  <2>4. att' \in [Ref -> Sessions] /\ run' \in Runs \cup {None}
    BY <1>13, <2>1, <2>2 DEF SpawnAttaches, TypeOK, Sessions
  <2>5. /\ life' \in [Session -> {"none", "live", "disposing", "gone"}]
        /\ own' \in [Session -> Refs]
        /\ turn' \in [Session -> {"no", "waking", "on"}]
        /\ synced' \in [Session -> BOOLEAN]
    <3>1. CASE UNCHANGED <<life, own, turn, synced>>
      BY <3>1 DEF TypeOK
    <3>2. CASE /\ life' = [life EXCEPT ![NewSession] = "live"]
               /\ own' = [own EXCEPT ![NewSession] = con]
               /\ turn' = [turn EXCEPT ![NewSession] = "on"]
               /\ synced' = [synced EXCEPT ![NewSession] = TRUE]
      BY <2>1, <3>2 DEF TypeOK, Refs
    <3> QED BY <1>13, <3>1, <3>2 DEF SpawnAttaches
  <2> QED BY <1>13, <2>3, <2>4, <2>5 DEF SpawnAttaches, TypeOK, Refs
<1>14. CASE ProbeEnds
  BY <1>14, UnregisterShape DEF ProbeEnds, TypeOK, Refs
<1>15. CASE TimerFires
  <2>1. adopted \in Adoptions /\ [adopted EXCEPT !.timer = FALSE] \in Adoptions
    BY <1>15 DEF TimerFires, TypeOK, Adoptions
  <2>2. Parking \in Parks \cup {None}
    BY <1>0, ParkingShape
  <2>3. adopted.ref \in Ref
    BY <2>1 DEF Adoptions
  <2> QED BY <1>0, <1>15, <2>1, <2>2, <2>3 DEF TimerFires, TypeOK
<1>16. ASSUME NEW m \in Message, Send(m) PROVE TypeOK'
  <2>1. CASE Deliver(m)
    BY <2>1 DEF Deliver, TypeOK
  <2>2. CASE EnsureLive(m) /\ UNCHANGED <<registry, sessions, callers, history>>
    <3>1. CASE park = None
      BY <2>2, <3>1, ResolveShape DEF EnsureLive, TypeOK
    <3>2. CASE park # None
      <4>1. park' \in Parks \cup {None}
        BY <2>2, <3>2, ParkShape DEF EnsureLive, TypeOK
      <4> QED BY <1>0, <2>2, <3>2, <4>1 DEF EnsureLive, Await, TypeOK
    <3> QED BY <3>1, <3>2
  <2>3. CASE Fail(m) /\ UNCHANGED <<registry, sessions, manager, callers, history>>
    BY <2>3 DEF Fail, TypeOK
  <2> QED BY <1>16, <2>1, <2>2, <2>3 DEF Send
<1>17. ASSUME NEW s \in Session, TurnStarts(s) \/ TurnEnds(s) PROVE TypeOK'
  <2>1. Mirror(s, "running") \/ Mirror(s, "idle")
    BY <1>17 DEF TurnStarts, TurnEnds
  <2>2. /\ status' \in [Ref -> {"none", "running", "idle", "parked", "aborted"}]
        /\ adopted' \in Adoptions \cup {None}
    <3>1. Attached = s => reg \in Ref
      BY <1>0, NoneIsNoSession DEF Attached
    <3> QED BY <2>1, <3>1, SetStatusShape DEF Mirror, TypeOK
  <2>3. run # None => [run EXCEPT !.over = TRUE] \in Runs
    BY DEF TypeOK, Runs
  <2> QED BY <1>17, <2>2, <2>3 DEF TurnStarts, TurnEnds, TypeOK
<1>18. CASE Finalize
  <2>1. CASE Attached = run.sess /\ status[reg] # "aborted"
    <3>1. PICK b \in BOOLEAN : adopted' = [ref |-> reg, revive |-> b, owned |-> TRUE, timer |-> TRUE]
      BY <1>18, <2>1 DEF Finalize
    <3>2. reg \in Ref
      BY <1>18, <1>0, <2>1, NoneIsNoSession DEF Finalize, TypeOK, Runs, Attached
    <3>3. adopted' \in Adoptions
      BY <3>1, <3>2 DEF Adoptions
    <3> QED BY <1>18, <2>1, <3>2, <3>3 DEF Finalize, TypeOK
  <2>2. CASE ~(Attached = run.sess /\ status[reg] # "aborted")
    BY <1>18, <2>2, DisposeShape DEF Finalize, TypeOK
  <2> QED BY <2>1, <2>2
<1>19. CASE FinalizeAborted
  <2>1. CASE Attached = run.sess
    <3>1. reg \in Ref /\ Release("exec", reg, TRUE)
      BY <1>19, <1>0, <2>1, NoneIsNoSession DEF FinalizeAborted, TypeOK, Runs, Attached
    <3> QED BY <1>19, <2>1, <3>1, ReleaseStartShape DEF FinalizeAborted, TypeOK, Releaser
  <2>2. CASE Attached # run.sess
    BY <1>19, <2>2, DisposeShape DEF FinalizeAborted, TypeOK
  <2> QED BY <2>1, <2>2
<1>20. ASSUME NEW kill \in BOOLEAN, HubReleases(kill) PROVE TypeOK'
  BY <1>0, <1>20, ReleaseStartShape DEF HubReleases, TypeOK, Releaser
<1>21. CASE DisposeManager
  <2>1. CASE adopted # None \/ (park # None /\ reg # None)
    <3>1. (IF reg # None THEN reg ELSE adopted.ref) \in Ref
      BY <1>0, <2>1 DEF TypeOK, Adoptions
    <3> QED BY <1>21, <2>1, <3>1, ReleaseStartShape DEF DisposeManager, TypeOK, Releaser
  <2>2. CASE ~(adopted # None \/ (park # None /\ reg # None))
    BY <1>21, <2>2 DEF DisposeManager, TypeOK, Refs
  <2> QED BY <2>1, <2>2
<1>22. CASE Spawn
  BY <1>22, NewOnes DEF Spawn, TypeOK, Refs
<1>23. CASE Restore
  BY <1>23, NewOnes DEF Restore, OnRemoved, TypeOK, Refs
<1>24. CASE Probe
  BY <1>24 DEF Probe, TypeOK
<1>25. CASE UNCHANGED vars
  BY <1>25 DEF vars, TypeOK
<1>26. CASE OrphanFires
  <2>1. park' \in Parks \cup {None} /\ orphans' \in Nat
    BY <1>26, ParkingShape DEF OrphanFires, TypeOK
  <2>2. CASE park' = park
    BY <1>26, <2>1, <2>2 DEF OrphanFires, TypeOK
  <2>3. CASE park' # park
    <3>1. adopted # None /\ reg \in Ref
      BY <1>0, <1>26, <2>3 DEF OrphanFires, Parking, Attached
    <3>2. adopted' \in Adoptions
      BY <1>26, <2>3, <3>1 DEF OrphanFires, TypeOK, Adoptions
    <3>3. strayed' \subseteq Ref
      BY <1>26, <2>3, <3>1 DEF OrphanFires, TypeOK
    <3> QED BY <1>26, <2>1, <3>2, <3>3 DEF OrphanFires, TypeOK
  <2> QED BY <2>2, <2>3
<1> QED
  BY <1>1, <1>2, <1>3, <1>4, <1>5, <1>6, <1>7, <1>8, <1>9, <1>10, <1>11, <1>12, <1>13,
     <1>14, <1>15, <1>16, <1>17, <1>18, <1>19, <1>20, <1>21, <1>22, <1>23, <1>24, <1>25, <1>26
     DEF Next, Continuation, IO

\* Every variable has its type, for any number of messages, generations and
\* sessions.
THEOREM TypeCorrect == Spec => []TypeOK
<1>1. Init => TypeOK
  BY TypeInit
<1>2. TypeOK /\ [Next]_vars => TypeOK'
  BY TypeStep
<1> QED BY <1>1, <1>2, PTL DEF Spec

(***************************************************************************)
(* The conjuncts of the inductive invariant.                               *)
(***************************************************************************)
\* A ref that was not registered yet, and a session that was not built, are
\* known to nobody.
FreshRefs ==
    \A r \in Ref : status[r] = "none" =>
        /\ reg # r /\ con # r /\ att[r] = None /\ rev[r] = None
        /\ adopted # None => adopted.ref # r
        /\ park # None => park.ref # r
        /\ \A s \in Session : own[s] # r
        /\ \A x \in Releaser : rel[x] # None => rel[x].ref # r

FreshSessions ==
    \A s \in Session : life[s] = "none" =>
        /\ own[s] = None /\ ~synced[s]
        /\ run # None => run.sess # s
        /\ park # None => park.sess # s
        /\ \A r \in Ref : att[r] # s /\ (rev[r] # None => rev[r].sess # s)
        /\ \A x \in Releaser : rel[x] # None => rel[x].sess # s
        /\ \A m \in Message : pc[m] = "got" => arg[m] # s

\* A session belongs to the ref it was built for, wherever it is held.
Owned ==
    /\ \A s \in Session : life[s] # "none" => own[s] # None
    /\ \A r \in Ref : att[r] # None => own[att[r]] = r
    /\ \A r \in Ref : rev[r] # None /\ rev[r].sess # None => own[rev[r].sess] = r
    /\ park # None => own[park.sess] = park.ref
    /\ \A x \in Releaser : rel[x] # None /\ rel[x].sess # None => own[rel[x].sess] = rel[x].ref

\* Which refs have no session.
Detached ==
    /\ \A r \in Ref : status[r] \in {"parked", "aborted"} => att[r] = None
    /\ reg # None /\ att[reg] = None => status[reg] \in {"parked", "aborted"} \/ con = reg

\* A spawn under construction.
Constructs ==
    con # None =>
        /\ status[con] \in {"running", "aborted"}
        /\ att[con] = None /\ rev[con] = None /\ run = None
        /\ \A s \in Session : own[s] # con

\* A park and a revival of the current ref exclude each other, and a revival that
\* claimed it runs until it ends or is killed.
Revives ==
    /\ reg # None /\ rev[reg] # None => park = None
    /\ \A r \in Ref : rev[r] # None /\ rev[r].step # "claimed" => att[r] = None /\ rev[r].sess = None
    /\ \A r \in Ref : rev[r] # None /\ rev[r].step = "claimed" =>
          /\ rev[r].sess # None /\ ~synced[rev[r].sess]
          /\ reg = r => \/ status[r] = "running" /\ att[r] = rev[r].sess
                        \/ status[r] = "aborted"
    /\ run # None => synced[run.sess]
    /\ reg # None /\ park # None /\ park.step = "dispose" /\ reg = park.ref => att[reg] = None

\* No timer is armed that would park an agent without a session, one that is
\* being parked, or one that is being revived.
Timed ==
    adopted # None /\ adopted.timer =>
        /\ reg # None /\ adopted.ref = reg => att[reg] # None /\ rev[reg] = None
        /\ park # None /\ park.step = "yield" => adopted.ref # park.ref

\* The first thing a release takes away is the adoption.
Disowned ==
    \A x \in Releaser :
        reg # None /\ rel[x] # None /\ rel[x].step = "park" /\ rel[x].ref = reg
          => adopted = None \/ adopted.ref # reg

\* What the steps of a release imply for the session it holds.
ReleaseSteps ==
    /\ ~disposed => rel["main"] = None
    /\ \A x \in Releaser : rel[x] # None =>
          /\ rel[x].step = "park" => rel[x].sess = None
          /\ rel[x].step = "persist" => rel[x].kill
          /\ rel[x].step = "dispose" => rel[x].sess # None /\ life[rel[x].sess] \in {"disposing", "gone"}
          /\ rel[x].step = "cleanup" /\ rel[x].sess # None => life[rel[x].sess] = "gone"
          /\ rel[x].kill /\ rel[x].sess # None => status[rel[x].ref] = "aborted"

\* A plain release is disposing of s.
Doomed(s) ==
    \E x \in Releaser : rel[x] # None /\ ~rel[x].kill /\ rel[x].step = "dispose" /\ rel[x].sess = s

\* The manager is disposed and nobody asks any more.
Deserted == disposed /\ \A m \in Message : pc[m] \notin {"keep", "park", "got"}

\* The attached session is live, or nobody is going to be handed it.
AttachedLives ==
    reg # None /\ att[reg] # None =>
        \/ life[att[reg]] = "live"
        \/ life[att[reg]] = "disposing" /\ (Doomed(att[reg]) \/ Deserted)

\* A caller that holds a session: no park can begin before it delivers.
GotLives ==
    \A m \in Message : pc[m] = "got" =>
        /\ park # None => park.step = "dispose"
        /\ arg[m] \in Session
        /\ life[arg[m]] # "live" => \E x \in Releaser :
              /\ rel[x] # None /\ ~rel[x].kill /\ rel[x].ref = own[arg[m]]
              /\ rel[x].step = "dispose" \/ (rel[x].step = "cleanup" /\ rel[x].owned)
        /\ reg # None => status[reg] # "parked"

\* The sessions of the current ref: only the attached one is live, and one that
\* is being disposed is still attached or is the one the park waits for.
Current ==
    \A s \in Session : reg # None /\ own[s] = reg =>
        /\ life[s] = "live" => att[reg] = s \/ status[reg] = "aborted"
        /\ life[s] = "disposing" /\ att[reg] # None => att[reg] = s
        /\ life[s] = "disposing" /\ status[reg] = "parked"
             => park # None /\ park.step = "dispose" /\ park.sess = s

\* The live session of a killed agent is held by the kill.
Killed ==
    \A s \in Session : life[s] = "live" /\ status[own[s]] = "aborted" =>
        \E x \in Releaser : rel[x] # None /\ rel[x].sess = s

\* A step from a state of the invariant that leaves no revival parked by a timer
\* whose adoption was replaced.
Tame == Revives /\ AttachedLives /\ strayed' = {}


(***************************************************************************)
(* What the operations and the actions come to.                            *)
(***************************************************************************)
LEMMA SetStatusDoes ==
  ASSUME TypeOK, NEW r \in Ref, NEW st \in {"running", "idle", "parked", "aborted"},
         SetStatus(r, st)
  PROVE  /\ status' = [status EXCEPT ![r] = IF status[r] = "aborted" THEN "aborted" ELSE st]
         /\ adopted' = None <=> adopted = None
         /\ adopted # None => /\ adopted'.ref = adopted.ref
                              /\ adopted'.owned = adopted.owned
         /\ adopted # None /\ adopted'.timer
              => \/ adopted.timer
                 \/ /\ adopted.ref = r /\ ~disposed /\ st = "idle" /\ park = None
<1>1. adopted \in Adoptions \cup {None}
  BY DEF TypeOK
<1>2. /\ OnStatus(adopted, r, st) = None <=> adopted = None
      /\ adopted # None => /\ OnStatus(adopted, r, st).ref = adopted.ref
                           /\ OnStatus(adopted, r, st).owned = adopted.owned
  BY <1>1, StatusShape
<1>3. adopted' \in {adopted, OnStatus(adopted, r, st)}
  BY DEF SetStatus
<1>4. status' = [status EXCEPT ![r] = IF status[r] = "aborted" THEN "aborted" ELSE st]
  <2>1. CASE status[r] \in {st, "aborted"}
    BY <2>1 DEF SetStatus, TypeOK
  <2>2. CASE status[r] \notin {st, "aborted"}
    BY <2>2 DEF SetStatus
  <2> QED BY <2>1, <2>2
<1>5. ASSUME adopted # None, OnStatus(adopted, r, st).timer
      PROVE  \/ adopted.timer
             \/ /\ adopted.ref = r /\ ~disposed /\ st = "idle" /\ park = None
  <2>1. adopted \in Adoptions
    BY <1>1, <1>5
  <2>2. [adopted EXCEPT !.timer = (st = "idle")].timer = (st = "idle")
    BY <2>1 DEF Adoptions
  <2>3. CASE Adopts(adopted, r) /\ (st = "running" \/ (st = "idle" /\ park = None))
    BY <1>5, <2>2, <2>3 DEF OnStatus, Adopts
  <2>4. CASE ~(Adopts(adopted, r) /\ (st = "running" \/ (st = "idle" /\ park = None)))
    BY <1>5, <2>4 DEF OnStatus
  <2> QED BY <2>3, <2>4
<1> QED BY <1>2, <1>3, <1>4, <1>5

\* A release in progress that changes its step and, if it does, its session.
LEMMA RelBecomes ==
  ASSUME TypeOK, NEW x \in Releaser, rel[x] # None,
         NEW st \in {"park", "persist", "dispose", "cleanup"}, NEW s \in Session \cup {None},
         \/ rel' = [rel EXCEPT ![x].step = st] /\ s = rel[x].sess
         \/ rel' = [rel EXCEPT ![x].step = st, ![x].sess = s]
  PROVE  /\ rel'[x] # None
         /\ rel'[x].ref = rel[x].ref /\ rel'[x].kill = rel[x].kill
         /\ rel'[x].owned = rel[x].owned
         /\ rel'[x].step = st /\ rel'[x].sess = s
         /\ \A y \in Releaser : y # x => rel'[y] = rel[y]
<1>1. rel[x] \in Releases
  BY DEF TypeOK
<1>2. \A y \in Releaser : y # x => rel'[y] = rel[y]
  BY DEF TypeOK
<1>3. \/ rel'[x] = [rel[x] EXCEPT !.step = st] /\ s = rel[x].sess
      \/ rel'[x] = [rel[x] EXCEPT !.step = st, !.sess = s]
  BY DEF TypeOK
<1>4. /\ rel'[x].ref = rel[x].ref /\ rel'[x].kill = rel[x].kill
      /\ rel'[x].owned = rel[x].owned
      /\ rel'[x].step = st /\ rel'[x].sess = s
  BY <1>1, <1>3 DEF Releases
<1>5. rel'[x] \in Releases
  <2>1. /\ [rel[x] EXCEPT !.step = st] \in Releases
        /\ [rel[x] EXCEPT !.step = st, !.sess = s] \in Releases
    BY <1>1, ReleaseShape
  <2> QED BY <1>3, <2>1
<1> QED BY <1>2, <1>4, <1>5, NoneInFlight

\* A release begins.
Begins(x, r, kill) ==
    /\ adopted' = IF adopted # None /\ adopted.ref = r THEN None ELSE adopted
    /\ park' = None <=> park = None
    /\ park # None => park'.ref = park.ref /\ park'.sess = park.sess /\ park'.step = park.step
    /\ rel'[x] # None
    /\ rel'[x].ref = r /\ rel'[x].kill = kill /\ rel'[x].sess = None /\ rel'[x].step = "park"
    /\ \A y \in Releaser : y # x => rel'[y] = rel[y]

LEMMA ReleaseDoes ==
  ASSUME TypeOK, NEW x \in Releaser, NEW r \in Ref, NEW kill \in BOOLEAN, Release(x, r, kill)
  PROVE  Begins(x, r, kill)
<1>1. /\ park' = None <=> park = None
      /\ park # None => /\ park'.ref = park.ref /\ park'.sess = park.sess
                        /\ park'.step = park.step
  <2>1. CASE park' = park
    BY <2>1
  <2>2. CASE park \in Parks /\ park' = [park EXCEPT !.cancelled = TRUE]
    <3>1. park'.ref = park.ref /\ park'.sess = park.sess /\ park'.step = park.step
      BY <2>2 DEF Parks
    <3> QED BY <2>2, <3>1, ParkShape
  <2> QED BY <2>1, <2>2 DEF Release, TypeOK
<1>2. (adopted # None /\ adopted.ref = r /\ adopted.owned) \in BOOLEAN
  BY DEF TypeOK, Adoptions
<1>3. PICK b \in BOOLEAN : rel' = [rel EXCEPT ![x] = [ref |-> r, kill |-> kill, owned |-> b,
                                                   sess |-> None, step |-> "park"]]
  BY <1>2 DEF Release
<1>4. [ref |-> r, kill |-> kill, owned |-> b, sess |-> None, step |-> "park"] \in Releases
  BY DEF Releases
<1>5. rel'[x] = [ref |-> r, kill |-> kill, owned |-> b, sess |-> None, step |-> "park"]
  BY <1>3 DEF TypeOK
<1>6. \A y \in Releaser : y # x => rel'[y] = rel[y]
  BY <1>3 DEF TypeOK
<1>7. rel'[x] # None
  BY <1>4, <1>5, NoneInFlight
<1> QED BY <1>1, <1>5, <1>6, <1>7 DEF Release, Begins

\* A park that goes on, or gives up.
ParkDetaches ==
    /\ reg \in Ref /\ att[reg] = park.sess /\ park.ref = reg
    /\ adopted # None /\ adopted.ref = reg
    /\ park' # None /\ park'.ref = park.ref /\ park'.sess = park.sess
    /\ park'.step = "dispose"
    /\ att' = [att EXCEPT ![reg] = None]
    /\ status' = [status EXCEPT ![reg] = "parked"]
    /\ Dispose(park.sess)
ParkStops == park' = None /\ UNCHANGED <<att, status, life>>

LEMMA ParkCommitsDoes ==
  ASSUME TypeOK, Tame, ParkCommits
  PROVE  /\ park # None /\ park.step = "yield"
         /\ ParkStops \/ ParkDetaches
         /\ UNCHANGED <<reg, own, turn, synced, adopted, rev, revivals, disposed, rel,
                        callers, senders, history>>
<1>1. park \in Parks
  BY DEF ParkCommits, TypeOK
<1>2. park.sess # None
  BY <1>1, NoneIsNoSession DEF Parks
<1> DEFINE stop == \/ park.cancelled \/ reg # park.ref \/ Attached # park.sess
                   \/ adopted = None \/ adopted.ref # park.ref
<1>3. CASE stop
  BY <1>3 DEF ParkCommits, ParkStops
<1>4. CASE ~stop
  <2>0. reg \in Ref /\ att[reg] = park.sess /\ park.ref = reg
    BY <1>2, <1>4 DEF Attached, TypeOK, Refs
  <2>1. park' = [park EXCEPT !.step = "dispose"]
    <3>1. life[park.sess] # "gone"
      BY <1>2, <2>0, NoneIsNoSession DEF Tame, AttachedLives
    <3> QED BY <1>4, <3>1 DEF ParkCommits
  <2>2. park' # None /\ park'.ref = park.ref /\ park'.sess = park.sess /\ park'.step = "dispose"
    <3>1. park'.ref = park.ref /\ park'.sess = park.sess /\ park'.step = "dispose"
      BY <1>1, <2>1 DEF Parks
    <3> QED BY <1>1, <2>1, <3>1, ParkShape
  <2> QED BY <1>4, <2>0, <2>2 DEF ParkCommits, ParkDetaches
<1> QED BY <1>3, <1>4

LEMMA ReleaseGoesOnDoes ==
  ASSUME TypeOK, Tame, NEW x \in Releaser, ReleaseGoesOn(x)
  PROVE  /\ rel[x] # None /\ rel[x].step = "park" /\ rel[x].ref \in Ref
         /\ park # None => park.ref # rel[x].ref
         /\ rel'[x] # None
         /\ rel'[x].ref = rel[x].ref /\ rel'[x].kill = rel[x].kill /\ rel'[x].owned = rel[x].owned
         /\ rel'[x].sess = IF reg = rel[x].ref THEN att[reg] ELSE None
         /\ \A y \in Releaser : y # x => rel'[y] = rel[y]
         /\ rel[x].kill =>
              /\ rel'[x].step = "persist" /\ UNCHANGED life
              /\ reg = rel[x].ref =>
                   /\ att' = [att EXCEPT ![reg] = None]
                   /\ status' = [status EXCEPT ![reg] = "aborted"]
                   /\ adopted' = None <=> adopted = None
                   /\ adopted # None => /\ adopted'.ref = adopted.ref
                                        /\ adopted'.owned = adopted.owned
                                        /\ adopted'.timer => adopted.timer
              /\ reg # rel[x].ref => UNCHANGED <<att, status, adopted>>
         /\ ~rel[x].kill =>
              /\ UNCHANGED <<att, status, adopted>>
              /\ rel'[x].sess = None => rel'[x].step = "cleanup" /\ UNCHANGED life
              /\ rel'[x].sess # None => rel'[x].step = "dispose" /\ Dispose(rel'[x].sess)
         /\ UNCHANGED <<reg, own, turn, synced, park, rev, revivals, disposed, callers,
                        senders, history>>
<1> DEFINE r == rel[x].ref
           s == IF reg = r THEN att[r] ELSE None
<1>1. rel[x] \in Releases /\ rel[x] # None /\ r \in Ref /\ s \in Session \cup {None}
  BY DEF ReleaseGoesOn, TypeOK, Releases, Sessions
<1>2. s = IF reg = rel[x].ref THEN att[reg] ELSE None
  OBVIOUS
<1>3. CASE rel[x].kill
  <2>0. /\ rel[x].step = "park" /\ (park # None => park.ref # r) /\ UNCHANGED life
        /\ UNCHANGED <<reg, own, turn, synced, park, rev, revivals, disposed, callers,
                        senders, history>>
    BY <1>3 DEF ReleaseGoesOn
  <2>1. rel' = [rel EXCEPT ![x].step = "persist", ![x].sess = s]
    BY <1>3 DEF ReleaseGoesOn
  <2> HIDE DEF s
  <2>2. /\ rel'[x] # None
        /\ rel'[x].ref = rel[x].ref /\ rel'[x].kill = rel[x].kill /\ rel'[x].owned = rel[x].owned
        /\ rel'[x].sess = s /\ rel'[x].step = "persist"
        /\ \A y \in Releaser : y # x => rel'[y] = rel[y]
    BY <1>1, <2>1, RelBecomes
  <2>3. CASE reg = r
    <3>1. SetStatus(r, "aborted")
      BY <1>3, <2>3 DEF ReleaseGoesOn
    <3>2. status' = [status EXCEPT ![reg] = "aborted"]
      BY <1>1, <2>3, <3>1, SetStatusDoes
    <3>3. /\ adopted' = None <=> adopted = None
          /\ adopted # None => /\ adopted'.ref = adopted.ref
                               /\ adopted'.owned = adopted.owned
                               /\ adopted'.timer => adopted.timer
      BY <1>1, <3>1, SetStatusDoes
    <3>4. att' = [att EXCEPT ![reg] = None]
      BY <1>3, <2>3 DEF ReleaseGoesOn
    <3> QED BY <1>1, <1>2, <1>3, <2>0, <2>2, <2>3, <3>2, <3>3, <3>4
  <2>4. CASE reg # r
    <3>1. UNCHANGED <<att, status, adopted>>
      BY <1>3, <2>4 DEF ReleaseGoesOn
    <3> QED BY <1>1, <1>2, <1>3, <2>0, <2>2, <2>4, <3>1
  <2> QED BY <2>3, <2>4
<1>4. CASE ~rel[x].kill
  <2>1. rel' = [rel EXCEPT ![x].step = IF s = None THEN "cleanup" ELSE "dispose", ![x].sess = s]
    <3>1. s # None => life[s] # "gone"
      BY <1>1, NoneIsNoSession DEF Tame, AttachedLives
    <3>2. CASE s = None
      BY <1>4, <3>2 DEF ReleaseGoesOn
    <3>3. CASE s # None
      BY <1>4, <3>1, <3>3 DEF ReleaseGoesOn
    <3> QED BY <3>2, <3>3
  <2>2. /\ s = None => UNCHANGED life
        /\ s # None => Dispose(s)
        /\ UNCHANGED <<att, status, adopted>>
    BY <1>4 DEF ReleaseGoesOn
  <2> HIDE DEF s
  <2>3. /\ rel'[x] # None
        /\ rel'[x].ref = rel[x].ref /\ rel'[x].kill = rel[x].kill /\ rel'[x].owned = rel[x].owned
        /\ rel'[x].sess = s /\ rel'[x].step = (IF s = None THEN "cleanup" ELSE "dispose")
        /\ \A y \in Releaser : y # x => rel'[y] = rel[y]
    BY <1>1, <2>1, RelBecomes
  <2> QED BY <1>1, <1>2, <1>4, <2>2, <2>3 DEF ReleaseGoesOn
<1> QED BY <1>3, <1>4

LEMMA ResolveDoes ==
  ASSUME TypeOK, NEW m \in Message, Resolve(m)
  PROVE  /\ UNCHANGED <<park, disposed, rel>>
         /\ \A n \in Message : n # m => pc'[n] = pc[n] /\ arg'[n] = arg[n]
         /\ pc'[m] \in {"got", "revive", "failed"}
         /\ pc'[m] = "got" => reg \in Ref /\ att[reg] # None /\ arg'[m] = att[reg]
         /\ pc'[m] = "revive" => reg \in Ref /\ arg'[m] = reg
         /\ pc'[m] = "failed" =>
              reg = None \/ (att[reg] = None /\ status[reg] # "parked")
         /\ \A r \in Ref : \/ rev'[r] = rev[r]
                           \/ /\ r = reg /\ att[r] = None /\ status[r] = "parked"
                              /\ rev'[r] # None /\ rev'[r].step # "claimed"
                              /\ rev'[r].sess = None
         /\ revivals' \in {revivals, reg}
<1>1. CASE Attached # None /\ Got(m, Attached) /\ UNCHANGED <<park, disposed, rel, rev, revivals>>
  <2>1. reg \in Ref /\ att[reg] # None /\ Attached = att[reg]
    BY <1>1 DEF Attached, TypeOK, Refs
  <2> QED BY <1>1, <2>1 DEF Got, TypeOK
<1>2. CASE /\ reg # None /\ Attached = None /\ Await(m, "revive", reg)
           /\ UNCHANGED <<park, disposed, rel, rev, revivals>>
  BY <1>2 DEF Await, TypeOK, Refs
<1>3. CASE /\ reg # None /\ Attached = None /\ status[reg] = "parked"
           /\ rev' = [rev EXCEPT ![reg] = [step |-> IF Warm(reg) THEN "build" ELSE "factory",
                                          cold |-> ~Warm(reg), sess |-> None]]
           /\ revivals' = reg /\ Await(m, "revive", reg) /\ UNCHANGED <<park, disposed, rel>>
  <2>1. PICK st \in {"factory", "build"}, c \in BOOLEAN :
           rev' = [rev EXCEPT ![reg] = [step |-> st, cold |-> c, sess |-> None]]
    BY <1>3
  <2>2. reg \in Ref /\ att[reg] = None
    BY <1>3 DEF TypeOK, Refs, Attached
  <2>3. [step |-> st, cold |-> c, sess |-> None] \in Revivals
    BY DEF Revivals
  <2>4. rev'[reg] = [step |-> st, cold |-> c, sess |-> None]
    BY <2>1, <2>2 DEF TypeOK
  <2>5. rev'[reg] # None /\ rev'[reg].step # "claimed" /\ rev'[reg].sess = None
    BY <2>3, <2>4, NoneInFlight
  <2>6. \A r \in Ref : r # reg => rev'[r] = rev[r]
    BY <2>1, <2>2 DEF TypeOK
  <2> QED BY <1>3, <2>2, <2>5, <2>6 DEF Await, TypeOK
<1>4. CASE /\ reg # None => Attached = None /\ status[reg] # "parked"
           /\ Fail(m) /\ UNCHANGED <<park, disposed, rel, rev, revivals>>
  BY <1>4 DEF Fail, TypeOK, Attached
<1> QED BY <1>1, <1>2, <1>3, <1>4 DEF Resolve

\* A send either ends at once, or waits in ensureLive.
LEMMA SendDoes ==
  ASSUME TypeOK, NEW m \in Message, Send(m)
  PROVE  /\ pc[m] = "new" /\ ~disposed
         /\ \/ /\ reg = None \/ (reg # None /\ status[reg] = "aborted")
               /\ pc' = [pc EXCEPT ![m] = "failed"] /\ arg' = [arg EXCEPT ![m] = None]
               /\ UNCHANGED <<registry, sessions, manager, callers, history>>
            \/ /\ reg \in Ref /\ ~Gated /\ Deliver(m)
            \/ /\ reg \in Ref /\ park = None
               /\ Resolve(m)
               /\ UNCHANGED <<adopted, registry, sessions, callers, history>>
            \/ /\ reg \in Ref /\ park # None
               /\ \A n \in Message : n # m => pc'[n] = pc[n] /\ arg'[n] = arg[n]
               /\ pc'[m] \in {"keep", "park"} /\ arg'[m] = reg
               /\ park' # None /\ park'.ref = park.ref /\ park'.sess = park.sess
               /\ park'.step = park.step
               /\ UNCHANGED <<adopted, rev, revivals, disposed, rel, registry, sessions,
                              callers, history>>
<1>1. reg # None => reg \in Ref
  BY DEF TypeOK, Refs
<1>2. CASE EnsureLive(m) /\ UNCHANGED <<registry, sessions, callers, history>> /\ reg # None
  <2>1. CASE park = None
    BY <1>1, <1>2, <2>1 DEF EnsureLive, Send
  <2>2. CASE park # None
    <3>1. park \in Parks
      BY <2>2 DEF TypeOK
    <3>2. /\ [park EXCEPT !.cancelled = TRUE] # None
          /\ [park EXCEPT !.cancelled = TRUE].ref = park.ref
          /\ [park EXCEPT !.cancelled = TRUE].sess = park.sess
          /\ [park EXCEPT !.cancelled = TRUE].step = park.step
      <4>1. [park EXCEPT !.cancelled = TRUE] # None
        BY <3>1, ParkShape
      <4> QED BY <3>1, <4>1 DEF Parks
    <3>3. park' \in {park, [park EXCEPT !.cancelled = TRUE]}
      BY <1>2, <2>2 DEF EnsureLive
    <3>4. /\ \A n \in Message : n # m => pc'[n] = pc[n] /\ arg'[n] = arg[n]
          /\ pc'[m] \in {"keep", "park"} /\ arg'[m] = reg
          /\ UNCHANGED <<adopted, rev, revivals, disposed, rel>>
      BY <1>2, <2>2 DEF EnsureLive, Await, TypeOK
    <3>5. pc[m] = "new" /\ ~disposed
      BY DEF Send
    <3>6. /\ park' # None /\ park'.ref = park.ref /\ park'.sess = park.sess
          /\ park'.step = park.step
      BY <2>2, <3>2, <3>3
    <3> QED BY <1>1, <1>2, <2>2, <3>4, <3>5, <3>6
  <2> QED BY <2>1, <2>2
<1> QED BY <1>1, <1>2 DEF Send, Fail

LEMMA UnregisterDoes ==
  ASSUME TypeOK, NEW r \in Ref, Unregister(r)
  PROVE  /\ reg' = IF reg = r THEN None ELSE reg
         /\ adopted' \in {adopted, None}
         /\ reg = r /\ ~disposed /\ adopted # None /\ adopted.ref = r => adopted' = None
         /\ reg # r => adopted' = adopted
BY DEF Unregister, OnRemoved, Adopts

LEMMA SessionGoneDoes ==
  ASSUME TypeOK, NEW s \in Session, SessionGone(s)
  PROVE  /\ Quiet /\ life[s] = "disposing"
         /\ life' = [life EXCEPT ![s] = "gone"]
         /\ turn' = [turn EXCEPT ![s] = "no"]
         /\ run' = None <=> run = None
         /\ run # None => run'.sess = run.sess
         /\ \/ reg' = reg /\ adopted' = adopted
            \/ /\ own[s] = reg /\ ~Spared(reg) /\ reg' = None
               /\ adopted' \in {adopted, None}
         /\ own[s] = reg => reg = None \/ Spared(reg) \/ reg' = None
         /\ park' = IF park # None /\ park.sess = s THEN None ELSE park
         /\ \A x \in Releaser :
              \/ rel'[x] = rel[x] /\ (rel[x] # None => rel[x].step # "dispose" \/ rel[x].sess # s)
              \/ /\ rel[x] # None /\ rel[x].step = "dispose" /\ rel[x].sess = s
                 /\ rel'[x] # None /\ rel'[x].step = "cleanup"
                 /\ rel'[x].ref = rel[x].ref /\ rel'[x].kill = rel[x].kill
                 /\ rel'[x].owned = rel[x].owned /\ rel'[x].sess = s
         /\ UNCHANGED <<status, att, own, synced, rev, revivals, disposed, con, probe,
                        senders, history>>
<1>1. /\ run' = None <=> run = None
      /\ run # None => run'.sess = run.sess
  <2>1. CASE run \in Runs
    <3>1. [run EXCEPT !.over = TRUE] \in Runs /\ [run EXCEPT !.over = TRUE].sess = run.sess
      BY <2>1 DEF Runs
    <3>2. run # None /\ [run EXCEPT !.over = TRUE] # None
      BY <2>1, <3>1, NoneInFlight
    <3>3. run' \in {run, [run EXCEPT !.over = TRUE]}
      BY DEF SessionGone
    <3> QED BY <3>1, <3>2, <3>3
  <2>2. CASE run = None
    BY <2>2 DEF SessionGone
  <2> QED BY <2>1, <2>2 DEF TypeOK
<1>2. ASSUME NEW x \in Releaser
      PROVE  \/ rel'[x] = rel[x] /\ (rel[x] # None => rel[x].step # "dispose" \/ rel[x].sess # s)
             \/ /\ rel[x] # None /\ rel[x].step = "dispose" /\ rel[x].sess = s
                /\ rel'[x] # None /\ rel'[x].step = "cleanup"
                /\ rel'[x].ref = rel[x].ref /\ rel'[x].kill = rel[x].kill
                /\ rel'[x].owned = rel[x].owned /\ rel'[x].sess = s
  <2>1. CASE rel[x] # None /\ rel[x].step = "dispose" /\ rel[x].sess = s
    <3>1. rel[x] \in Releases /\ rel'[x] = [rel[x] EXCEPT !.step = "cleanup"]
      BY <2>1 DEF SessionGone, TypeOK
    <3>2. rel'[x] # None
      BY <3>1, ReleaseShape, NoneInFlight, None \in Session \cup {None}
    <3> QED BY <2>1, <3>1, <3>2 DEF Releases
  <2>2. CASE ~(rel[x] # None /\ rel[x].step = "dispose" /\ rel[x].sess = s)
    BY <2>2 DEF SessionGone
  <2> QED BY <2>1, <2>2
<1>3. /\ \/ reg' = reg /\ adopted' = adopted
         \/ /\ own[s] = reg /\ ~Spared(reg) /\ reg' = None
            /\ adopted' \in {adopted, None}
      /\ own[s] = reg => reg = None \/ Spared(reg) \/ reg' = None
  <2>1. CASE reg = own[s] /\ ~Spared(reg)
    BY <2>1 DEF SessionGone, Unregister, OnRemoved, TypeOK, Refs
  <2>2. CASE ~(reg = own[s] /\ ~Spared(reg))
    BY <2>2 DEF SessionGone
  <2> QED BY <2>1, <2>2
<1> QED BY <1>1, <1>2, <1>3 DEF SessionGone

LEMMA RevivalFailsDoes ==
  ASSUME TypeOK, NEW r \in Ref, RevivalFails(r)
  PROVE  /\ rev' = [rev EXCEPT ![r] = None]
         /\ revivals' = IF revivals = r THEN None ELSE revivals
         /\ \A m \in Message : \/ pc'[m] = pc[m] /\ arg'[m] = arg[m]
                               \/ pc[m] = "revive" /\ pc'[m] = "failed" /\ arg'[m] = None
BY DEF RevivalFails, RevivalOver, Waiting

LEMMA FactoryReturnsDoes ==
  ASSUME TypeOK, NEW r \in Ref, FactoryReturns(r)
  PROVE  /\ Quiet /\ rev[r] # None /\ rev[r].step = "factory"
         /\ \/ adopted' = adopted
            \/ adopted' # None /\ adopted'.ref = r /\ ~adopted'.timer /\ ~disposed
         /\ \/ RevivalFails(r)
            \/ /\ rev'[r] # None /\ rev'[r].step = "build" /\ rev'[r].sess = rev[r].sess
               /\ \A q \in Ref : q # r => rev'[q] = rev[q]
               /\ reg = r /\ status[r] = "parked"
               /\ UNCHANGED <<revivals, senders>>
         /\ UNCHANGED <<registry, sessions, park, disposed, rel, callers, leaked>>
<1>1. rev[r] \in Revivals /\ rev[r] # None /\ rev[r].step = "factory"
  BY DEF FactoryReturns, At, TypeOK
<1>2. [ref |-> r, revive |-> TRUE, owned |-> FALSE, timer |-> FALSE] \in Adoptions
  BY DEF Adoptions
<1>3. \/ adopted' = adopted
      \/ adopted' # None /\ adopted'.ref = r /\ ~adopted'.timer /\ ~disposed
  <2>1. \/ adopted' = adopted
        \/ adopted' = [ref |-> r, revive |-> TRUE, owned |-> FALSE, timer |-> FALSE] /\ ~disposed
    BY Zenon DEF FactoryReturns
  <2> DEFINE new == [ref |-> r, revive |-> TRUE, owned |-> FALSE, timer |-> FALSE]
  <2>2. new.ref = r /\ ~new.timer /\ new # None
    BY <1>2, NoneInFlight
  <2> HIDE DEF new
  <2> QED BY <2>1, <2>2 DEF new
<1>4. \/ RevivalFails(r)
      \/ /\ rev' = [rev EXCEPT ![r].step = "build"] /\ UNCHANGED <<revivals, senders>>
         /\ reg = r /\ status[r] = "parked"
  BY DEF FactoryReturns
<1>5. ASSUME rev' = [rev EXCEPT ![r].step = "build"]
      PROVE  /\ rev'[r] # None /\ rev'[r].step = "build" /\ rev'[r].sess = rev[r].sess
             /\ \A q \in Ref : q # r => rev'[q] = rev[q]
  <2>1. rev'[r] = [rev[r] EXCEPT !.step = "build"]
    BY <1>5 DEF TypeOK
  <2>2. rev'[r].step = "build" /\ rev'[r].sess = rev[r].sess
    BY <1>1, <2>1 DEF Revivals
  <2>3. rev'[r] # None
    BY <1>1, <2>1, RevivalShape, NoneInFlight
  <2> QED BY <1>5, <2>2, <2>3 DEF TypeOK
<1> QED BY <1>1, <1>3, <1>4, <1>5 DEF FactoryReturns

\* createAgentSession claims the ref.
Claims(r) ==
    /\ reg = r /\ status[r] = "parked"
    /\ life' = [life EXCEPT ![NewSession] = "live"]
    /\ own' = [own EXCEPT ![NewSession] = r]
    /\ att' = [att EXCEPT ![r] = NewSession]
    /\ status' = [status EXCEPT ![r] = "running"]
    /\ adopted' = None <=> adopted = None
    /\ adopted # None => /\ adopted'.ref = adopted.ref
                         /\ adopted'.owned = adopted.owned
                         /\ adopted'.timer => adopted.timer
    /\ rev'[r] # None /\ rev'[r].step = "claimed" /\ rev'[r].sess = NewSession
    /\ \A q \in Ref : q # r => rev'[q] = rev[q]
    /\ UNCHANGED <<revivals, senders>>

LEMMA BuildEndsDoes ==
  ASSUME TypeOK, NEW r \in Ref, BuildEnds(r)
  PROVE  /\ Quiet /\ rev[r] # None /\ rev[r].step = "build"
         /\ NewSession \in Session /\ life[NewSession] = "none"
         /\ \/ Claims(r)
            \/ /\ ~(reg = r /\ status[r] = "parked")
               /\ RevivalFails(r)
               /\ adopted' \in {adopted, None}
               /\ UNCHANGED <<life, own, att, status>>
         /\ UNCHANGED <<reg, turn, synced, park, disposed, rel, callers, history>>
<1>1. /\ NewSession \in Session /\ life[NewSession] = "none"
      /\ rev[r] \in Revivals /\ rev[r] # None
      /\ Quiet /\ rev[r].step = "build"
  BY NewOnes DEF BuildEnds, At, TypeOK
<1>2. UNCHANGED <<reg, turn, synced, park, disposed, rel, callers, history>>
  BY DEF BuildEnds
<1>3. CASE reg = r /\ status[r] = "parked"
  <2> DEFINE s == NewSession
  <2>1. /\ life' = [life EXCEPT ![s] = "live"]
        /\ own' = [own EXCEPT ![s] = r]
        /\ att' = [att EXCEPT ![r] = s]
        /\ SetStatus(r, "running")
        /\ rev' = [rev EXCEPT ![r].step = "claimed", ![r].sess = s]
        /\ UNCHANGED <<revivals, senders>>
    BY <1>3 DEF BuildEnds
  <2>2. /\ status' = [status EXCEPT ![r] = "running"]
        /\ adopted' = None <=> adopted = None
        /\ adopted # None => /\ adopted'.ref = adopted.ref
                             /\ adopted'.owned = adopted.owned
                             /\ adopted'.timer => adopted.timer
    BY <1>3, <2>1, SetStatusDoes
  <2> HIDE DEF s
  <2>3. rev'[r] = [rev[r] EXCEPT !.step = "claimed", !.sess = s]
    BY <2>1 DEF TypeOK
  <2>4. rev'[r] \in Revivals
    BY <1>1, <2>3, RevivalShape DEF s
  <2>5. rev'[r].step = "claimed" /\ rev'[r].sess = s
    BY <1>1, <2>3 DEF Revivals
  <2>6. rev'[r] # None
    BY <2>4, NoneInFlight
  <2>7. \A q \in Ref : q # r => rev'[q] = rev[q]
    BY <2>1 DEF TypeOK
  <2> QED BY <1>1, <1>2, <1>3, <2>1, <2>2, <2>5, <2>6, <2>7 DEF s, Claims
<1>4. CASE ~(reg = r /\ status[r] = "parked")
  <2>1. /\ RevivalFails(r)
        /\ adopted' \in {adopted, None}
        /\ UNCHANGED <<life, own, att, status>>
    BY <1>4 DEF BuildEnds, Dropped
  <2> QED BY <1>1, <1>2, <1>4, <2>1
<1> QED BY <1>3, <1>4

LEMMA ReviverThrowsDoes ==
  ASSUME TypeOK, NEW r \in Ref, ReviverThrows(r)
  PROVE  /\ Quiet /\ rev[r] # None /\ rev[r].step \in {"build", "claimed"}
         /\ RevivalFails(r)
         /\ adopted' \in {adopted, None}
         /\ leaked \subseteq leaked'
         /\ rev[r].step = "claimed" /\ reg # r => rev[r].sess \in leaked'
         /\ UNCHANGED <<registry, sessions, park, disposed, rel, callers, untimed>>
BY DEF ReviverThrows, Dropped, At

\* A revival ends for nothing, or lands.
ReviveFails(r) ==
    /\ disposed \/ reg # r \/ status[r] # "running" \/ att[r] # rev[r].sess
    /\ Dispose(rev[r].sess)
    /\ RevivalFails(r)
    /\ adopted' \in {adopted, None}
    /\ UNCHANGED status
ReviveLands(r) ==
    /\ ~disposed /\ reg = r /\ status[r] = "running" /\ att[r] = rev[r].sess
    /\ rev' = [rev EXCEPT ![r] = None]
    /\ revivals' = IF revivals = r THEN None ELSE revivals
    /\ \A m \in Message : \/ pc'[m] = pc[m] /\ arg'[m] = arg[m]
                          \/ pc[m] = "revive" /\ pc'[m] = "got" /\ arg'[m] = rev[r].sess
    /\ status' = [status EXCEPT ![r] = "idle"]
    /\ adopted' = None <=> adopted = None
    /\ adopted # None => /\ adopted'.ref = adopted.ref
                         /\ adopted'.timer => adopted.timer \/ adopted.ref = r
    /\ UNCHANGED life

LEMMA ReviveEndsDoes ==
  ASSUME TypeOK, Tame, NEW r \in Ref, ReviveEnds(r)
  PROVE  /\ Quiet /\ rev[r] # None /\ rev[r].step = "claimed" /\ rev[r].sess \in Session
         /\ synced' = [synced EXCEPT ![rev[r].sess] = TRUE]
         /\ ReviveFails(r) \/ ReviveLands(r)
         /\ UNCHANGED <<reg, att, own, turn, park, disposed, rel, callers, history>>
<1>1. /\ rev[r] # None /\ rev[r].step = "claimed" /\ rev[r].sess \in Session
      /\ Quiet /\ synced' = [synced EXCEPT ![rev[r].sess] = TRUE]
      /\ UNCHANGED <<reg, own, turn, park, disposed, rel, callers, history>>
  BY DEF ReviveEnds, At, TypeOK, Revivals
<1> DEFINE lands == \/ reg = r /\ status[r] = "parked" /\ att[r] = None
                    \/ reg = r /\ status[r] = "running" /\ att[r] = rev[r].sess
<1>0. lands <=> reg = r /\ status[r] = "running" /\ att[r] = rev[r].sess
  BY <1>1 DEF Tame, Revives
<1>2. CASE disposed \/ reg # r \/ status[r] # "running" \/ att[r] # rev[r].sess
  <2>1. /\ Dispose(rev[r].sess)
        /\ RevivalFails(r)
        /\ adopted' \in {adopted, None}
        /\ UNCHANGED <<att, status>>
    <3>1. disposed \/ ~lands
      BY <1>0, <1>2
    <3> QED BY <3>1 DEF ReviveEnds, Dropped
  <2> QED BY <1>1, <1>2, <2>1 DEF ReviveFails
<1>3. CASE ~disposed /\ reg = r /\ status[r] = "running" /\ att[r] = rev[r].sess
  <2>1. /\ SetStatus(r, "idle")
        /\ RevivalOver(r)
        /\ pc' = [m \in Message |-> IF m \in Waiting(r) THEN "got" ELSE pc[m]]
        /\ arg' = [m \in Message |-> IF m \in Waiting(r) THEN rev[r].sess ELSE arg[m]]
        /\ UNCHANGED <<life, att>>
    <3>1. ~(disposed \/ ~lands)
      BY <1>0, <1>3
    <3>2. [att EXCEPT ![r] = rev[r].sess] = att
      BY <1>3 DEF TypeOK
    <3> QED BY <3>1, <3>2 DEF ReviveEnds
  <2>2. /\ status' = [status EXCEPT ![r] = "idle"]
        /\ adopted' = None <=> adopted = None
        /\ adopted # None => /\ adopted'.ref = adopted.ref
                             /\ adopted'.timer => adopted.timer \/ adopted.ref = r
    BY <1>3, <2>1, SetStatusDoes
  <2>3. \A m \in Message :
           \/ pc'[m] = pc[m] /\ arg'[m] = arg[m]
           \/ pc[m] = "revive" /\ pc'[m] = "got" /\ arg'[m] = rev[r].sess
    BY <2>1 DEF Waiting
  <2> QED BY <1>1, <1>3, <2>1, <2>2, <2>3 DEF RevivalOver, ReviveLands
<1> QED BY <1>2, <1>3

LEMMA TombstoneDoes ==
  ASSUME TypeOK, NEW x \in Releaser, TombstonePersisted(x)
  PROVE  /\ Quiet /\ rel[x] # None /\ rel[x].step = "persist"
         /\ rel'[x] # None
         /\ rel'[x].ref = rel[x].ref /\ rel'[x].kill = rel[x].kill /\ rel'[x].owned = rel[x].owned
         /\ rel'[x].sess = rel[x].sess
         /\ \A y \in Releaser : y # x => rel'[y] = rel[y]
         /\ \/ /\ rel[x].sess # None /\ life[rel[x].sess] # "gone"
               /\ rel'[x].step = "dispose" /\ Dispose(rel[x].sess)
            \/ /\ rel[x].sess = None \/ life[rel[x].sess] = "gone"
               /\ rel'[x].step = "cleanup" /\ UNCHANGED life
         /\ UNCHANGED <<registry, own, turn, synced, adopted, park, rev, revivals,
                        disposed, callers, senders, history>>
<1>1. rel[x].sess \in Session \cup {None}
  BY DEF TombstonePersisted, TypeOK, Releases
<1>2. CASE rel[x].sess # None /\ life[rel[x].sess] # "gone"
  <2>1. rel' = [rel EXCEPT ![x].step = "dispose"] /\ Dispose(rel[x].sess)
    BY <1>2 DEF TombstonePersisted
  <2> QED BY <1>1, <1>2, <2>1, RelBecomes DEF TombstonePersisted
<1>3. CASE ~(rel[x].sess # None /\ life[rel[x].sess] # "gone")
  <2>1. rel' = [rel EXCEPT ![x].step = "cleanup"] /\ UNCHANGED life
    BY <1>3 DEF TombstonePersisted
  <2> QED BY <1>1, <1>3, <2>1, RelBecomes DEF TombstonePersisted
<1> QED BY <1>2, <1>3

LEMMA CleanupEndsDoes ==
  ASSUME TypeOK, NEW x \in Releaser, CleanupEnds(x)
  PROVE  /\ rel[x] # None /\ rel[x].step = "cleanup" /\ rel[x].ref \in Ref
         /\ rel[x].owned => Quiet
         /\ rel' = [rel EXCEPT ![x] = None]
         /\ rel[x].kill => UNCHANGED <<reg, adopted, leaked>>
         /\ ~rel[x].kill =>
              /\ Unregister(rel[x].ref)
              /\ leaked \subseteq leaked'
              /\ reg = rel[x].ref /\ att[reg] # None /\ rev[reg] = None => att[reg] \in leaked'
         /\ revivals' \in {revivals, None}
         /\ UNCHANGED <<status, att, sessions, park, rev, disposed, callers, senders, untimed>>
<1>1. /\ rel[x] # None /\ rel[x].step = "cleanup"
      /\ rel[x].owned => Quiet
      /\ rel' = [rel EXCEPT ![x] = None]
      /\ rel[x].kill => UNCHANGED <<reg, adopted, leaked>>
      /\ ~rel[x].kill => Unregister(rel[x].ref)
      /\ revivals' \in {revivals, None}
      /\ UNCHANGED <<status, att, sessions, park, rev, disposed, callers, senders, untimed>>
  BY DEF CleanupEnds
<1>2. rel[x].ref \in Ref
  BY <1>1 DEF TypeOK, Releases
<1>3. ASSUME ~rel[x].kill
      PROVE  /\ leaked \subseteq leaked'
             /\ reg = rel[x].ref /\ att[reg] # None /\ rev[reg] = None => att[reg] \in leaked'
  BY <1>2, <1>3, NoneIsNoSession DEF CleanupEnds, Attached
<1> QED BY <1>1, <1>2, <1>3

\* A spawn gets its session.
SpawnBuilds ==
    /\ reg = con /\ status[con] # "aborted"
    /\ life' = [life EXCEPT ![NewSession] = "live"]
    /\ own' = [own EXCEPT ![NewSession] = con]
    /\ turn' = [turn EXCEPT ![NewSession] = "on"]
    /\ synced' = [synced EXCEPT ![NewSession] = TRUE]
    /\ att' = [att EXCEPT ![con] = NewSession]
    /\ run' # None /\ run'.sess = NewSession
    /\ UNCHANGED <<reg, adopted>>

LEMMA SpawnAttachesDoes ==
  ASSUME TypeOK, SpawnAttaches
  PROVE  /\ Quiet /\ con \in Ref /\ con' = None
         /\ NewSession \in Session /\ life[NewSession] = "none"
         /\ \/ SpawnBuilds
            \/ /\ reg = con /\ Unregister(con) /\ UNCHANGED <<sessions, att, run>>
            \/ /\ ~(reg = con /\ status[con] # "aborted")
               /\ UNCHANGED <<reg, adopted, sessions, att, run>>
         /\ UNCHANGED <<status, park, rev, revivals, disposed, rel, probe, senders, history>>
<1>1. con \in Ref /\ NewSession \in Session /\ life[NewSession] = "none"
  BY NewOnes DEF SpawnAttaches, TypeOK, Refs
<1>2. [sess |-> NewSession, over |-> FALSE] \in Runs
  BY <1>1 DEF Runs
<1> DEFINE s == NewSession
<1> HIDE DEF s
<1>3. [sess |-> s, over |-> FALSE] # None
  BY <1>2, NoneInFlight DEF s
<1>4. CASE reg = con /\ status[con] # "aborted"
  <2>1. \/ /\ life' = [life EXCEPT ![s] = "live"]
           /\ own' = [own EXCEPT ![s] = con]
           /\ turn' = [turn EXCEPT ![s] = "on"]
           /\ synced' = [synced EXCEPT ![s] = TRUE]
           /\ att' = [att EXCEPT ![con] = s]
           /\ run' = [sess |-> s, over |-> FALSE]
           /\ UNCHANGED <<reg, adopted>>
        \/ /\ Unregister(con) /\ UNCHANGED <<sessions, att, run>>
    BY <1>4, Zenon DEF SpawnAttaches, s
  <2>2. run' = [sess |-> s, over |-> FALSE] => run' # None /\ run'.sess = s
    BY <1>3
  <2>3. /\ Quiet /\ con' = None
        /\ UNCHANGED <<status, park, rev, revivals, disposed, rel, probe, senders, history>>
    BY DEF SpawnAttaches
  <2> QED BY <1>1, <1>4, <2>1, <2>2, <2>3 DEF s, SpawnBuilds
<1>5. CASE ~(reg = con /\ status[con] # "aborted")
  BY <1>1, <1>5 DEF SpawnAttaches
<1> QED BY <1>4, <1>5

LEMMA TurnsDo ==
  ASSUME TypeOK, NEW s \in Session, TurnStarts(s) \/ TurnEnds(s)
  PROVE  /\ Quiet
         /\ run' = None <=> run = None
         /\ run # None => run'.sess = run.sess
         /\ \/ UNCHANGED <<status, adopted>>
            \/ /\ reg \in Ref /\ att[reg] = s /\ synced[s]
               /\ \E st \in {"running", "idle"} :
                    status' = [status EXCEPT ![reg] = IF status[reg] = "aborted" THEN "aborted" ELSE st]
               /\ adopted' = None <=> adopted = None
               /\ adopted # None /\ adopted'.timer
                    => adopted.timer \/ (adopted.ref = reg /\ park = None)
               /\ adopted # None => adopted'.ref = adopted.ref
         /\ UNCHANGED <<reg, att, life, own, synced, park, rev, revivals, disposed, rel,
                        con, probe, senders, history>>
<1>1. /\ run' = None <=> run = None
      /\ run # None => run'.sess = run.sess
  <2>1. CASE run \in Runs
    <3>1. [run EXCEPT !.over = TRUE] \in Runs /\ [run EXCEPT !.over = TRUE].sess = run.sess
      BY <2>1 DEF Runs
    <3>2. run # None /\ [run EXCEPT !.over = TRUE] # None
      BY <2>1, <3>1, NoneInFlight
    <3>3. run' \in {run, [run EXCEPT !.over = TRUE]}
      BY DEF TurnStarts, TurnEnds, callers
    <3> QED BY <3>1, <3>2, <3>3
  <2>2. CASE run = None
    BY <2>2 DEF TurnStarts, TurnEnds, callers
  <2> QED BY <2>1, <2>2 DEF TypeOK
<1>2. PICK st \in {"running", "idle"} : Mirror(s, st)
  BY DEF TurnStarts, TurnEnds
<1>3. CASE synced[s] /\ Attached = s
  <2>1. reg \in Ref /\ att[reg] = s /\ SetStatus(reg, st)
    BY <1>2, <1>3, NoneIsNoSession DEF Mirror, Attached, TypeOK, Refs
  <2>2. /\ status' = [status EXCEPT ![reg] = IF status[reg] = "aborted" THEN "aborted" ELSE st]
        /\ adopted' = None <=> adopted = None
        /\ adopted # None => adopted'.ref = adopted.ref
        /\ adopted # None /\ adopted'.timer
             => adopted.timer \/ (adopted.ref = reg /\ park = None)
    BY <2>1, SetStatusDoes
  <2> QED BY <1>1, <1>3, <2>1, <2>2 DEF TurnStarts, TurnEnds, callers
<1>4. CASE ~(synced[s] /\ Attached = s)
  BY <1>1, <1>2, <1>4 DEF Mirror, TurnStarts, TurnEnds, callers
<1> QED BY <1>3, <1>4

LEMMA TimerFiresDoes ==
  ASSUME TypeOK, TimerFires
  PROVE  /\ Quiet /\ adopted # None /\ adopted.timer
         /\ adopted' # None /\ adopted'.ref = adopted.ref /\ ~adopted'.timer
         /\ \/ park' = park
            \/ /\ park = None /\ reg \in Ref /\ reg = adopted.ref /\ att[reg] # None
               /\ park' # None /\ park'.ref = reg /\ park'.sess = att[reg]
               /\ park'.step = "yield"
         /\ UNCHANGED <<registry, sessions, rev, revivals, disposed, rel, callers, senders,
                        leaked>>
<1>1. /\ adopted \in Adoptions
      /\ adopted' = [adopted EXCEPT !.timer = FALSE]
  BY DEF TimerFires, TypeOK
<1>2. adopted' # None /\ adopted'.ref = adopted.ref /\ ~adopted'.timer
  <2>1. [adopted EXCEPT !.timer = FALSE] \in Adoptions
    BY <1>1 DEF Adoptions
  <2>2. adopted' # None
    BY <1>1, <2>1, NoneInFlight
  <2> QED BY <1>1, <2>2 DEF Adoptions
<1>3. CASE park = None /\ reg = adopted.ref /\ Attached # None
  <2>1. reg \in Ref /\ Attached = att[reg] /\ Attached \in Session
    BY <1>3 DEF Attached, TypeOK, Refs, Sessions
  <2>2. [ref |-> reg, sess |-> Attached, step |-> "yield", cancelled |-> FALSE] \in Parks
    BY <2>1 DEF Parks
  <2>3. park' = [ref |-> reg, sess |-> Attached, step |-> "yield", cancelled |-> FALSE]
    BY <1>1, <1>3, NoneInFlight DEF TimerFires, Parking
  <2>4. park' # None
    BY <2>2, <2>3, NoneInFlight
  <2> QED BY <1>2, <1>3, <2>1, <2>3, <2>4 DEF TimerFires
<1>4. CASE ~(park = None /\ reg = adopted.ref /\ Attached # None)
  BY <1>2, <1>4 DEF TimerFires, Parking
<1> QED BY <1>3, <1>4

\* A timer whose adoption was replaced, as long as it finds no revival to park.
LEMMA OrphanFiresDoes ==
  ASSUME TypeOK, Tame, OrphanFires
  PROVE  /\ Quiet
         /\ \/ UNCHANGED <<park, adopted>>
            \/ /\ park = None /\ adopted # None /\ reg \in Ref /\ reg = adopted.ref
               /\ att[reg] # None /\ rev[reg] = None
               /\ park' # None /\ park'.ref = reg /\ park'.sess = att[reg]
               /\ park'.step = "yield"
               /\ adopted' # None /\ adopted'.ref = adopted.ref /\ ~adopted'.timer
         /\ UNCHANGED <<registry, sessions, rev, revivals, disposed, rel, callers, senders,
                        untimed, leaked>>
<1>0. /\ Quiet /\ park' = Parking
      /\ UNCHANGED <<registry, sessions, rev, revivals, disposed, rel, callers, senders,
                     untimed, leaked>>
  BY DEF OrphanFires
<1>1. CASE park' = park
  BY <1>0, <1>1 DEF OrphanFires
<1>2. CASE park' # park
  <2>1. park = None /\ adopted # None /\ reg = adopted.ref /\ Attached # None
    BY <1>0, <1>2 DEF Parking
  <2>2. reg \in Ref /\ Attached = att[reg] /\ Attached \in Session
    BY <2>1 DEF Attached, TypeOK, Refs, Sessions
  <2>3. [ref |-> reg, sess |-> Attached, step |-> "yield", cancelled |-> FALSE] \in Parks
    BY <2>2 DEF Parks
  <2>4. park' = [ref |-> reg, sess |-> Attached, step |-> "yield", cancelled |-> FALSE]
    BY <1>0, <2>1 DEF Parking
  <2>5. park' # None /\ park'.ref = reg /\ park'.sess = att[reg] /\ park'.step = "yield"
    BY <2>2, <2>3, <2>4, NoneInFlight
  <2>6. adopted' # None /\ adopted'.ref = adopted.ref /\ ~adopted'.timer
    <3>1. adopted \in Adoptions /\ adopted' = [adopted EXCEPT !.timer = FALSE]
      BY <1>2, <2>1 DEF OrphanFires, TypeOK
    <3>2. [adopted EXCEPT !.timer = FALSE] \in Adoptions
      BY <3>1 DEF Adoptions
    <3>3. adopted' # None
      BY <3>1, <3>2, NoneInFlight
    <3> QED BY <3>1, <3>3 DEF Adoptions
  <2>7. rev[reg] = None
    <3>1. strayed' = strayed \cup IF rev[reg] # None THEN {reg} ELSE {}
      BY <1>2 DEF OrphanFires
    <3> QED BY <3>1 DEF Tame
  <2> QED BY <1>0, <2>1, <2>2, <2>5, <2>6, <2>7
<1> QED BY <1>1, <1>2

LEMMA FinalizeDoes ==
  ASSUME TypeOK, Finalize
  PROVE  /\ Quiet /\ run # None /\ run.sess \in Session /\ run' = None
         /\ \/ /\ reg \in Ref /\ att[reg] = run.sess /\ status[reg] # "aborted"
               /\ status' = [status EXCEPT ![reg] = "idle"]
               /\ adopted' # None /\ adopted'.ref = reg
               /\ UNCHANGED life
            \/ /\ Attached # run.sess \/ status[reg] = "aborted"
               /\ Dispose(run.sess) /\ UNCHANGED <<status, adopted>>
         /\ UNCHANGED <<reg, att, own, turn, synced, park, rev, revivals, disposed, rel,
                        con, probe, senders, history>>
<1>1. run # None /\ run.sess \in Session
  BY DEF Finalize, TypeOK, Runs
<1>2. CASE Attached = run.sess /\ status[reg] # "aborted"
  <2>1. reg \in Ref /\ att[reg] = run.sess
    BY <1>1, <1>2, NoneIsNoSession DEF Attached, TypeOK, Refs
  <2>2. PICK b \in BOOLEAN : adopted' = [ref |-> reg, revive |-> b, owned |-> TRUE, timer |-> TRUE]
    BY <1>2 DEF Finalize
  <2>3. [ref |-> reg, revive |-> b, owned |-> TRUE, timer |-> TRUE] \in Adoptions
    BY <2>1 DEF Adoptions
  <2>4. adopted' # None /\ adopted'.ref = reg
    BY <2>2, <2>3, NoneInFlight
  <2> QED BY <1>1, <1>2, <2>1, <2>4 DEF Finalize
<1>3. CASE ~(Attached = run.sess /\ status[reg] # "aborted")
  BY <1>1, <1>3 DEF Finalize
<1> QED BY <1>2, <1>3

\* An aborted run has its agent killed, or its session disposed.
RunKilled ==
    reg \in Ref /\ att[reg] = run.sess /\ Begins("exec", reg, TRUE) /\ UNCHANGED life
RunDropped == Attached # run.sess /\ Dispose(run.sess) /\ UNCHANGED <<adopted, park, rel>>

LEMMA FinalizeAbortedDoes ==
  ASSUME TypeOK, FinalizeAborted
  PROVE  /\ Quiet /\ run # None /\ run.sess \in Session /\ run' = None /\ rel["exec"] = None
         /\ RunKilled \/ RunDropped
         /\ UNCHANGED <<registry, own, turn, synced, rev, revivals, disposed, con, probe,
                        senders, history>>
<1>1. run # None /\ run.sess \in Session
  BY DEF FinalizeAborted, TypeOK, Runs
<1>2. CASE Attached = run.sess
  <2>1. reg \in Ref /\ att[reg] = run.sess
    BY <1>1, <1>2, NoneIsNoSession DEF Attached, TypeOK, Refs
  <2>2. Begins("exec", reg, TRUE)
    BY <1>2, <2>1, ReleaseDoes DEF FinalizeAborted, Releaser
  <2> QED BY <1>1, <1>2, <2>1, <2>2 DEF FinalizeAborted, RunKilled
<1>3. CASE Attached # run.sess
  BY <1>1, <1>3 DEF FinalizeAborted, RunDropped
<1> QED BY <1>2, <1>3

\* The teardown releases the agent that the manager owns.
TeardownReleases ==
    \E r \in Ref : /\ r = reg \/ (adopted # None /\ r = adopted.ref)
                  /\ Begins("main", r, FALSE)

LEMMA DisposeManagerDoes ==
  ASSUME TypeOK, DisposeManager
  PROVE  /\ Quiet /\ ~disposed /\ disposed' = TRUE
         /\ \/ TeardownReleases /\ UNCHANGED revivals
            \/ revivals' = None /\ UNCHANGED <<adopted, park, rel>>
         /\ UNCHANGED <<registry, sessions, rev, callers, senders, history>>
<1>1. CASE adopted # None \/ (park # None /\ reg # None)
  <2>1. (IF reg # None THEN reg ELSE adopted.ref) \in Ref
    BY <1>1 DEF TypeOK, Refs, Adoptions
  <2>2. Release("main", IF reg # None THEN reg ELSE adopted.ref, FALSE) /\ UNCHANGED revivals
    BY <1>1 DEF DisposeManager
  <2>3. PICK r \in Ref : /\ r = reg \/ (adopted # None /\ r = adopted.ref)
                         /\ Release("main", r, FALSE) /\ UNCHANGED revivals
    BY <1>1, <2>1, <2>2
  <2>4. Begins("main", r, FALSE)
    BY <2>3, ReleaseDoes DEF Releaser
  <2> QED BY <2>3, <2>4 DEF DisposeManager, TeardownReleases
<1>2. CASE ~(adopted # None \/ (park # None /\ reg # None))
  BY <1>2 DEF DisposeManager
<1> QED BY <1>1, <1>2

LEMMA HubReleasesDoes ==
  ASSUME TypeOK, NEW kill \in BOOLEAN, HubReleases(kill)
  PROVE  /\ SameTick /\ ~disposed /\ reg \in Ref /\ status[reg] # "aborted"
         /\ rel["hub"] = None
         /\ Begins("hub", reg, kill)
         /\ UNCHANGED <<registry, sessions, rev, revivals, disposed, callers, senders, history>>
<1>1. reg \in Ref
  BY DEF HubReleases, TypeOK, Refs
<1>2. Begins("hub", reg, kill)
  BY <1>1, ReleaseDoes DEF HubReleases, Releaser
<1> QED BY <1>1, <1>2 DEF HubReleases

LEMMA KeptDoes ==
  ASSUME TypeOK, NEW m \in Message, Kept(m)
  PROVE  /\ pc[m] = "keep" /\ park = None
         /\ \/ Resolve(m) /\ UNCHANGED adopted
            \/ /\ reg \in Ref /\ att[reg] # None
               /\ pc' = [pc EXCEPT ![m] = "got"] /\ arg' = [arg EXCEPT ![m] = att[reg]]
               /\ adopted' = None <=> adopted = None
               /\ adopted # None => /\ adopted'.ref = adopted.ref
                                    /\ adopted'.timer => adopted.timer \/ status[adopted.ref] = "idle"
               /\ UNCHANGED <<park, rev, revivals, disposed, rel>>
         /\ UNCHANGED <<registry, sessions, callers, history>>
<1>1. CASE Attached # None
  <2>1. reg \in Ref /\ Attached = att[reg]
    BY <1>1 DEF Attached, TypeOK, Refs
  <2>2. /\ adopted' = None <=> adopted = None
        /\ adopted # None => /\ adopted'.ref = adopted.ref
                             /\ adopted'.timer => adopted.timer \/ status[adopted.ref] = "idle"
    <3>1. CASE adopted' = adopted
      BY <3>1
    <3>2. CASE /\ adopted \in Adoptions /\ adopted' = [adopted EXCEPT !.timer = TRUE]
               /\ status[adopted.ref] = "idle"
      <4>1. adopted' \in Adoptions /\ adopted'.ref = adopted.ref
        BY <3>2 DEF Adoptions
      <4> QED BY <3>2, <4>1, NoneInFlight
    <3> QED BY <1>1, <3>1, <3>2 DEF Kept, TypeOK
  <2> QED BY <1>1, <2>1, <2>2 DEF Kept, Got
<1>2. CASE Attached = None
  BY <1>2 DEF Kept
<1> QED BY <1>1, <1>2

(***************************************************************************)
(* What is new, and whose a session is.                                    *)
(***************************************************************************)
LEMMA FreshRefsStep ==
  ASSUME TypeOK, Tame, FreshRefs, [Next]_vars
  PROVE  FreshRefs'
<1> USE DEF registry, sessions, manager, callers, senders, history, TypeOK, FreshRefs,
        Refs, Sessions, Attached
<1>1. CASE ParkCommits
  BY <1>1, NoneIsNoSession, ParkCommitsDoes DEF ParkStops, ParkDetaches, Dispose
<1>2. ASSUME NEW m \in Message, Injects(m) PROVE FreshRefs'
  BY <1>2, NoneIsNoSession DEF Injects, Deliver
<1>3. ASSUME NEW m \in Message, Kept(m) PROVE FreshRefs'
  BY <1>3, NoneIsNoSession, KeptDoes, ResolveDoes
<1>4. ASSUME NEW m \in Message, Parked(m) PROVE FreshRefs'
  BY <1>4, NoneIsNoSession, ResolveDoes DEF Parked
<1>5. ASSUME NEW x \in Releaser, ReleaseGoesOn(x) PROVE FreshRefs'
  BY <1>5, NoneIsNoSession, ReleaseGoesOnDoes DEF Dispose
<1>6. ASSUME NEW s \in Session, SessionGone(s) PROVE FreshRefs'
  BY <1>6, NoneIsNoSession, SessionGoneDoes
<1>7. ASSUME NEW r \in Ref, FactoryReturns(r) PROVE FreshRefs'
  BY <1>7, NoneIsNoSession, FactoryReturnsDoes, RevivalFailsDoes
<1>8. ASSUME NEW r \in Ref, BuildEnds(r) PROVE FreshRefs'
  BY <1>8, NoneIsNoSession, BuildEndsDoes, RevivalFailsDoes DEF Claims
<1>9. ASSUME NEW r \in Ref, ReviverThrows(r) PROVE FreshRefs'
  BY <1>9, NoneIsNoSession, ReviverThrowsDoes, RevivalFailsDoes
<1>10. ASSUME NEW r \in Ref, ReviveEnds(r) PROVE FreshRefs'
  BY <1>10, NoneIsNoSession, ReviveEndsDoes, RevivalFailsDoes DEF ReviveFails, ReviveLands,
     Dispose
<1>11. ASSUME NEW x \in Releaser, TombstonePersisted(x) PROVE FreshRefs'
  BY <1>11, NoneIsNoSession, TombstoneDoes DEF Dispose
<1>12. ASSUME NEW x \in Releaser, CleanupEnds(x) PROVE FreshRefs'
  BY <1>12, NoneIsNoSession, CleanupEndsDoes, UnregisterDoes
<1>13. CASE SpawnAttaches
  BY <1>13, NoneIsNoSession, SpawnAttachesDoes, UnregisterDoes DEF SpawnBuilds
<1>14. CASE ProbeEnds
  BY <1>14, NoneIsNoSession DEF ProbeEnds, Unregister, OnRemoved, Corpse
<1>15. CASE TimerFires
  BY <1>15, NoneIsNoSession, TimerFiresDoes
<1>16. ASSUME NEW m \in Message, SameTick, Send(m) PROVE FreshRefs'
  BY <1>16, NoneIsNoSession, SendDoes, ResolveDoes DEF Deliver
<1>17. ASSUME NEW s \in Session, TurnStarts(s) \/ TurnEnds(s) PROVE FreshRefs'
  BY <1>17, NoneIsNoSession, TurnsDo
<1>18. CASE Finalize
  BY <1>18, NoneIsNoSession, FinalizeDoes DEF Dispose
<1>19. CASE FinalizeAborted
  <2>1. /\ Quiet /\ run # None /\ run.sess \in Session /\ run' = None /\ rel["exec"] = None
        /\ UNCHANGED <<registry, own, turn, synced, rev, revivals, disposed, con, probe,
                       senders, history>>
    BY <1>19, FinalizeAbortedDoes
  <2>2. CASE RunKilled
    BY <2>1, <2>2, NoneIsNoSession DEF RunKilled, Begins, Releaser
  <2>3. CASE RunDropped
    BY <2>1, <2>3, NoneIsNoSession DEF RunDropped, Dispose
  <2> QED BY <1>19, <2>2, <2>3, FinalizeAbortedDoes
<1>20. ASSUME NEW kill \in BOOLEAN, HubReleases(kill) PROVE FreshRefs'
  BY <1>20, NoneIsNoSession, HubReleasesDoes DEF Begins, Releaser
<1>21. CASE DisposeManager
  <2>1. /\ Quiet /\ ~disposed /\ disposed' = TRUE
        /\ UNCHANGED <<registry, sessions, rev, callers, senders, history>>
    BY <1>21, DisposeManagerDoes
  <2>2. CASE TeardownReleases /\ UNCHANGED revivals
    BY <2>1, <2>2, NoneIsNoSession DEF TeardownReleases, Begins, Releaser
  <2>3. CASE revivals' = None /\ UNCHANGED <<adopted, park, rel>>
    BY <2>1, <2>3, NoneIsNoSession
  <2> QED BY <1>21, <2>2, <2>3, DisposeManagerDoes
<1>22. CASE Spawn
  BY <1>22, NoneIsNoSession, NewOnes DEF Spawn
<1>23. CASE Restore
  BY <1>23, NoneIsNoSession, NewOnes DEF Restore, OnRemoved
<1>24. CASE Probe
  BY <1>24, NoneIsNoSession DEF Probe
<1>25. CASE UNCHANGED vars
  BY <1>25, NoneIsNoSession DEF vars
<1>26. CASE OrphanFires
  BY <1>26, NoneIsNoSession, OrphanFiresDoes
<1> QED
  BY <1>1, <1>2, <1>3, <1>4, <1>5, <1>6, <1>7, <1>8, <1>9, <1>10, <1>11, <1>12, <1>13,
     <1>14, <1>15, <1>16, <1>17, <1>18, <1>19, <1>20, <1>21, <1>22, <1>23, <1>24, <1>25, <1>26
     DEF Next, Continuation, IO

LEMMA FreshSessionsStep ==
  ASSUME TypeOK, Tame, FreshSessions, [Next]_vars
  PROVE  FreshSessions'
<1> USE DEF registry, sessions, manager, callers, senders, history, TypeOK, FreshSessions,
        Refs, Sessions, Attached
<1>1. CASE ParkCommits
  BY <1>1, NoneIsNoSession, ParkCommitsDoes DEF ParkStops, ParkDetaches, Dispose
<1>2. ASSUME NEW m \in Message, Injects(m) PROVE FreshSessions'
  BY <1>2, NoneIsNoSession DEF Injects, Deliver
<1>3. ASSUME NEW m \in Message, Kept(m) PROVE FreshSessions'
  BY <1>3, NoneIsNoSession, KeptDoes, ResolveDoes
<1>4. ASSUME NEW m \in Message, Parked(m) PROVE FreshSessions'
  BY <1>4, NoneIsNoSession, ResolveDoes DEF Parked
<1>5. ASSUME NEW x \in Releaser, ReleaseGoesOn(x) PROVE FreshSessions'
  BY <1>5, NoneIsNoSession, ReleaseGoesOnDoes DEF Dispose
<1>6. ASSUME NEW s \in Session, SessionGone(s) PROVE FreshSessions'
  BY <1>6, NoneIsNoSession, SessionGoneDoes
<1>7. ASSUME NEW r \in Ref, FactoryReturns(r) PROVE FreshSessions'
  BY <1>7, NoneIsNoSession, FactoryReturnsDoes, RevivalFailsDoes
<1>8. ASSUME NEW r \in Ref, BuildEnds(r) PROVE FreshSessions'
  BY <1>8, NoneIsNoSession, BuildEndsDoes, RevivalFailsDoes DEF Claims
<1>9. ASSUME NEW r \in Ref, ReviverThrows(r) PROVE FreshSessions'
  BY <1>9, NoneIsNoSession, ReviverThrowsDoes, RevivalFailsDoes
<1>10. ASSUME NEW r \in Ref, ReviveEnds(r) PROVE FreshSessions'
  BY <1>10, NoneIsNoSession, ReviveEndsDoes, RevivalFailsDoes DEF ReviveFails, ReviveLands,
     Dispose
<1>11. ASSUME NEW x \in Releaser, TombstonePersisted(x) PROVE FreshSessions'
  BY <1>11, NoneIsNoSession, TombstoneDoes DEF Dispose
<1>12. ASSUME NEW x \in Releaser, CleanupEnds(x) PROVE FreshSessions'
  BY <1>12, NoneIsNoSession, CleanupEndsDoes, UnregisterDoes
<1>13. CASE SpawnAttaches
  BY <1>13, NoneIsNoSession, SpawnAttachesDoes, UnregisterDoes DEF SpawnBuilds
<1>14. CASE ProbeEnds
  BY <1>14, NoneIsNoSession DEF ProbeEnds, Unregister, OnRemoved, Corpse
<1>15. CASE TimerFires
  BY <1>15, NoneIsNoSession, TimerFiresDoes
<1>16. ASSUME NEW m \in Message, SameTick, Send(m) PROVE FreshSessions'
  BY <1>16, NoneIsNoSession, SendDoes, ResolveDoes DEF Deliver
<1>17. ASSUME NEW s \in Session, TurnStarts(s) \/ TurnEnds(s) PROVE FreshSessions'
  BY <1>17, NoneIsNoSession, TurnsDo
<1>18. CASE Finalize
  BY <1>18, NoneIsNoSession, FinalizeDoes DEF Dispose
<1>19. CASE FinalizeAborted
  <2>1. /\ Quiet /\ run # None /\ run.sess \in Session /\ run' = None /\ rel["exec"] = None
        /\ UNCHANGED <<registry, own, turn, synced, rev, revivals, disposed, con, probe,
                       senders, history>>
    BY <1>19, FinalizeAbortedDoes
  <2>2. CASE RunKilled
    BY <2>1, <2>2, NoneIsNoSession DEF RunKilled, Begins, Releaser
  <2>3. CASE RunDropped
    BY <2>1, <2>3, NoneIsNoSession DEF RunDropped, Dispose
  <2> QED BY <1>19, <2>2, <2>3, FinalizeAbortedDoes
<1>20. ASSUME NEW kill \in BOOLEAN, HubReleases(kill) PROVE FreshSessions'
  BY <1>20, NoneIsNoSession, HubReleasesDoes DEF Begins, Releaser
<1>21. CASE DisposeManager
  <2>1. /\ Quiet /\ ~disposed /\ disposed' = TRUE
        /\ UNCHANGED <<registry, sessions, rev, callers, senders, history>>
    BY <1>21, DisposeManagerDoes
  <2>2. CASE TeardownReleases /\ UNCHANGED revivals
    BY <2>1, <2>2, NoneIsNoSession DEF TeardownReleases, Begins, Releaser
  <2>3. CASE revivals' = None /\ UNCHANGED <<adopted, park, rel>>
    BY <2>1, <2>3, NoneIsNoSession
  <2> QED BY <1>21, <2>2, <2>3, DisposeManagerDoes
<1>22. CASE Spawn
  BY <1>22, NoneIsNoSession, NewOnes DEF Spawn
<1>23. CASE Restore
  BY <1>23, NoneIsNoSession, NewOnes DEF Restore, OnRemoved
<1>24. CASE Probe
  BY <1>24, NoneIsNoSession DEF Probe
<1>25. CASE UNCHANGED vars
  BY <1>25, NoneIsNoSession DEF vars
<1>26. CASE OrphanFires
  BY <1>26, NoneIsNoSession, OrphanFiresDoes
<1> QED
  BY <1>1, <1>2, <1>3, <1>4, <1>5, <1>6, <1>7, <1>8, <1>9, <1>10, <1>11, <1>12, <1>13,
     <1>14, <1>15, <1>16, <1>17, <1>18, <1>19, <1>20, <1>21, <1>22, <1>23, <1>24, <1>25, <1>26
     DEF Next, Continuation, IO

LEMMA OwnedStep ==
  ASSUME TypeOK, Tame, FreshSessions, Owned, [Next]_vars
  PROVE  Owned'
<1> USE DEF registry, sessions, manager, callers, senders, history, TypeOK, FreshSessions,
        Owned, Refs, Sessions, Attached
<1>1. CASE ParkCommits
  BY <1>1, NoneIsNoSession, ParkCommitsDoes DEF ParkStops, ParkDetaches, Dispose
<1>2. ASSUME NEW m \in Message, Injects(m) PROVE Owned'
  BY <1>2, NoneIsNoSession DEF Injects, Deliver
<1>3. ASSUME NEW m \in Message, Kept(m) PROVE Owned'
  BY <1>3, NoneIsNoSession, KeptDoes, ResolveDoes
<1>4. ASSUME NEW m \in Message, Parked(m) PROVE Owned'
  BY <1>4, NoneIsNoSession, ResolveDoes DEF Parked
<1>5. ASSUME NEW x \in Releaser, ReleaseGoesOn(x) PROVE Owned'
  BY <1>5, NoneIsNoSession, ReleaseGoesOnDoes DEF Dispose
<1>6. ASSUME NEW s \in Session, SessionGone(s) PROVE Owned'
  BY <1>6, NoneIsNoSession, SessionGoneDoes
<1>7. ASSUME NEW r \in Ref, FactoryReturns(r) PROVE Owned'
  BY <1>7, NoneIsNoSession, FactoryReturnsDoes, RevivalFailsDoes
<1>8. ASSUME NEW r \in Ref, BuildEnds(r) PROVE Owned'
  <2>1. /\ Quiet /\ rev[r] # None /\ rev[r].step = "build"
        /\ NewSession \in Session /\ life[NewSession] = "none"
        /\ UNCHANGED <<reg, turn, synced, park, disposed, rel, callers, history>>
    BY <1>8, BuildEndsDoes
  <2>2. CASE Claims(r)
    <3>1. /\ life' = [life EXCEPT ![NewSession] = "live"]
          /\ own' = [own EXCEPT ![NewSession] = r]
          /\ att' = [att EXCEPT ![r] = NewSession]
          /\ rev'[r] # None /\ rev'[r].sess = NewSession
          /\ \A q \in Ref : q # r => rev'[q] = rev[q]
      BY <2>2 DEF Claims
    <3>2. /\ \A q \in Ref : att[q] # NewSession /\ (rev[q] # None => rev[q].sess # NewSession)
          /\ park # None => park.sess # NewSession
          /\ \A x \in Releaser : rel[x] # None => rel[x].sess # NewSession
      BY <2>1 DEF FreshSessions
    <3>3. own'[NewSession] = r /\ \A s \in Session : s # NewSession => own'[s] = own[s]
      BY <2>1, <3>1 DEF TypeOK
    <3>4. \A s \in Session : life'[s] # "none" => own'[s] # None
      BY <2>1, <3>1, <3>3, NoneIsNoSession DEF TypeOK, Owned
    <3>5. \A q \in Ref : att'[q] # None => own'[att'[q]] = q
      BY <2>1, <3>1, <3>2, <3>3 DEF TypeOK, Owned, Sessions
    <3>6. \A q \in Ref : rev'[q] # None /\ rev'[q].sess # None => own'[rev'[q].sess] = q
      BY <2>1, <3>1, <3>2, <3>3, TypeStep DEF TypeOK, Owned, Revivals
    <3>7. park' # None => own'[park'.sess] = park'.ref
      BY <2>1, <3>1, <3>2, <3>3 DEF TypeOK, Owned, Parks
    <3>8. \A x \in Releaser : rel'[x] # None /\ rel'[x].sess # None => own'[rel'[x].sess] = rel'[x].ref
      BY <2>1, <3>1, <3>2, <3>3 DEF TypeOK, Owned, Releases
    <3> QED BY <3>4, <3>5, <3>6, <3>7, <3>8 DEF Owned
  <2>3. CASE ~Claims(r)
    BY <1>8, <2>1, <2>3, NoneIsNoSession, BuildEndsDoes, RevivalFailsDoes
  <2> QED BY <2>2, <2>3
<1>9. ASSUME NEW r \in Ref, ReviverThrows(r) PROVE Owned'
  BY <1>9, NoneIsNoSession, ReviverThrowsDoes, RevivalFailsDoes
<1>10. ASSUME NEW r \in Ref, ReviveEnds(r) PROVE Owned'
  BY <1>10, NoneIsNoSession, ReviveEndsDoes, RevivalFailsDoes DEF ReviveFails, ReviveLands,
     Dispose
<1>11. ASSUME NEW x \in Releaser, TombstonePersisted(x) PROVE Owned'
  BY <1>11, NoneIsNoSession, TombstoneDoes DEF Dispose
<1>12. ASSUME NEW x \in Releaser, CleanupEnds(x) PROVE Owned'
  BY <1>12, NoneIsNoSession, CleanupEndsDoes, UnregisterDoes
<1>13. CASE SpawnAttaches
  <2>1. /\ Quiet /\ con \in Ref /\ con' = None
        /\ NewSession \in Session /\ life[NewSession] = "none"
        /\ UNCHANGED <<status, park, rev, revivals, disposed, rel, probe, senders, history>>
    BY <1>13, SpawnAttachesDoes
  <2>2. CASE SpawnBuilds
    <3>1. /\ life' = [life EXCEPT ![NewSession] = "live"]
          /\ own' = [own EXCEPT ![NewSession] = con]
          /\ att' = [att EXCEPT ![con] = NewSession]
      BY <2>2 DEF SpawnBuilds
    <3>2. /\ \A q \in Ref : att[q] # NewSession /\ (rev[q] # None => rev[q].sess # NewSession)
          /\ park # None => park.sess # NewSession
          /\ \A x \in Releaser : rel[x] # None => rel[x].sess # NewSession
      BY <2>1 DEF FreshSessions
    <3>3. own'[NewSession] = con /\ \A s \in Session : s # NewSession => own'[s] = own[s]
      BY <2>1, <3>1 DEF TypeOK
    <3>4. \A s \in Session : life'[s] # "none" => own'[s] # None
      BY <2>1, <3>1, <3>3, NoneIsNoSession DEF TypeOK, Owned
    <3>5. \A q \in Ref : att'[q] # None => own'[att'[q]] = q
      BY <2>1, <3>1, <3>2, <3>3 DEF TypeOK, Owned, Sessions
    <3>6. \A q \in Ref : rev'[q] # None /\ rev'[q].sess # None => own'[rev'[q].sess] = q
      BY <2>1, <3>1, <3>2, <3>3 DEF TypeOK, Owned, Revivals
    <3>7. park' # None => own'[park'.sess] = park'.ref
      BY <2>1, <3>1, <3>2, <3>3 DEF TypeOK, Owned, Parks
    <3>8. \A x \in Releaser : rel'[x] # None /\ rel'[x].sess # None => own'[rel'[x].sess] = rel'[x].ref
      BY <2>1, <3>1, <3>2, <3>3 DEF TypeOK, Owned, Releases
    <3> QED BY <3>4, <3>5, <3>6, <3>7, <3>8 DEF Owned
  <2>3. CASE reg = con /\ Unregister(con) /\ UNCHANGED <<sessions, att, run>>
    <3>1. reg' = None /\ adopted' \in {adopted, None}
      BY <2>1, <2>3, UnregisterDoes
    <3> QED BY <2>1, <2>3, <3>1, NoneIsNoSession
  <2>4. CASE /\ ~(reg = con /\ status[con] # "aborted")
             /\ UNCHANGED <<reg, adopted, sessions, att, run>>
    BY <2>1, <2>4, NoneIsNoSession
  <2> QED BY <1>13, <2>2, <2>3, <2>4, SpawnAttachesDoes
<1>14. CASE ProbeEnds
  BY <1>14, NoneIsNoSession DEF ProbeEnds, Unregister, OnRemoved, Corpse
<1>15. CASE TimerFires
  BY <1>15, NoneIsNoSession, TimerFiresDoes
<1>16. ASSUME NEW m \in Message, SameTick, Send(m) PROVE Owned'
  BY <1>16, NoneIsNoSession, SendDoes, ResolveDoes DEF Deliver
<1>17. ASSUME NEW s \in Session, TurnStarts(s) \/ TurnEnds(s) PROVE Owned'
  BY <1>17, NoneIsNoSession, TurnsDo
<1>18. CASE Finalize
  BY <1>18, NoneIsNoSession, FinalizeDoes DEF Dispose
<1>19. CASE FinalizeAborted
  <2>1. /\ Quiet /\ run # None /\ run.sess \in Session /\ run' = None /\ rel["exec"] = None
        /\ UNCHANGED <<registry, own, turn, synced, rev, revivals, disposed, con, probe,
                       senders, history>>
    BY <1>19, FinalizeAbortedDoes
  <2>2. CASE RunKilled
    BY <2>1, <2>2, NoneIsNoSession DEF RunKilled, Begins, Releaser
  <2>3. CASE RunDropped
    BY <2>1, <2>3, NoneIsNoSession DEF RunDropped, Dispose
  <2> QED BY <1>19, <2>2, <2>3, FinalizeAbortedDoes
<1>20. ASSUME NEW kill \in BOOLEAN, HubReleases(kill) PROVE Owned'
  BY <1>20, NoneIsNoSession, HubReleasesDoes DEF Begins, Releaser
<1>21. CASE DisposeManager
  <2>1. /\ Quiet /\ ~disposed /\ disposed' = TRUE
        /\ UNCHANGED <<registry, sessions, rev, callers, senders, history>>
    BY <1>21, DisposeManagerDoes
  <2>2. CASE TeardownReleases /\ UNCHANGED revivals
    BY <2>1, <2>2, NoneIsNoSession DEF TeardownReleases, Begins, Releaser
  <2>3. CASE revivals' = None /\ UNCHANGED <<adopted, park, rel>>
    BY <2>1, <2>3, NoneIsNoSession
  <2> QED BY <1>21, <2>2, <2>3, DisposeManagerDoes
<1>22. CASE Spawn
  BY <1>22, NoneIsNoSession, NewOnes DEF Spawn
<1>23. CASE Restore
  BY <1>23, NoneIsNoSession, NewOnes DEF Restore, OnRemoved
<1>24. CASE Probe
  BY <1>24, NoneIsNoSession DEF Probe
<1>25. CASE UNCHANGED vars
  BY <1>25, NoneIsNoSession DEF vars
<1>26. CASE OrphanFires
  BY <1>26, NoneIsNoSession, OrphanFiresDoes
<1> QED
  BY <1>1, <1>2, <1>3, <1>4, <1>5, <1>6, <1>7, <1>8, <1>9, <1>10, <1>11, <1>12, <1>13,
     <1>14, <1>15, <1>16, <1>17, <1>18, <1>19, <1>20, <1>21, <1>22, <1>23, <1>24, <1>25, <1>26
     DEF Next, Continuation, IO

(***************************************************************************)
(* Which parts of the manager exclude each other: constructions, parks,    *)
(* revivals, timers and releases of the current ref.                       *)
(***************************************************************************)
LEMMA DetachedStep ==
  ASSUME TypeOK, Tame, FreshRefs, Constructs, Detached, [Next]_vars
  PROVE  Detached'
<1> USE DEF registry, sessions, manager, callers, senders, history, TypeOK, Refs, Sessions,
        Attached, FreshRefs, Constructs, Detached
<1>1. CASE ParkCommits
  BY <1>1, NoneIsNoSession, ParkCommitsDoes DEF ParkStops, ParkDetaches, Dispose
<1>2. ASSUME NEW m \in Message, Injects(m) PROVE Detached'
  BY <1>2, NoneIsNoSession DEF Injects, Deliver
<1>3. ASSUME NEW m \in Message, Kept(m) PROVE Detached'
  BY <1>3, NoneIsNoSession, KeptDoes, ResolveDoes
<1>4. ASSUME NEW m \in Message, Parked(m) PROVE Detached'
  BY <1>4, NoneIsNoSession, ResolveDoes DEF Parked
<1>5. ASSUME NEW x \in Releaser, ReleaseGoesOn(x) PROVE Detached'
  BY <1>5, NoneIsNoSession, ReleaseGoesOnDoes DEF Dispose
<1>6. ASSUME NEW s \in Session, SessionGone(s) PROVE Detached'
  BY <1>6, NoneIsNoSession, SessionGoneDoes
<1>7. ASSUME NEW r \in Ref, FactoryReturns(r) PROVE Detached'
  BY <1>7, NoneIsNoSession, FactoryReturnsDoes, RevivalFailsDoes
<1>8. ASSUME NEW r \in Ref, BuildEnds(r) PROVE Detached'
  BY <1>8, NoneIsNoSession, BuildEndsDoes, RevivalFailsDoes DEF Claims
<1>9. ASSUME NEW r \in Ref, ReviverThrows(r) PROVE Detached'
  BY <1>9, NoneIsNoSession, ReviverThrowsDoes, RevivalFailsDoes
<1>10. ASSUME NEW r \in Ref, ReviveEnds(r) PROVE Detached'
  BY <1>10, NoneIsNoSession, ReviveEndsDoes, RevivalFailsDoes DEF ReviveFails, ReviveLands,
     Dispose
<1>11. ASSUME NEW x \in Releaser, TombstonePersisted(x) PROVE Detached'
  BY <1>11, NoneIsNoSession, TombstoneDoes DEF Dispose
<1>12. ASSUME NEW x \in Releaser, CleanupEnds(x) PROVE Detached'
  BY <1>12, NoneIsNoSession, CleanupEndsDoes, UnregisterDoes
<1>13. CASE SpawnAttaches
  <2>1. /\ Quiet /\ con \in Ref /\ con' = None
        /\ NewSession \in Session /\ life[NewSession] = "none"
        /\ UNCHANGED <<status, park, rev, revivals, disposed, rel, probe, senders, history>>
    BY <1>13, SpawnAttachesDoes
  <2>2. CASE SpawnBuilds
    BY <2>1, <2>2, NoneIsNoSession DEF SpawnBuilds
  <2>3. CASE reg = con /\ Unregister(con) /\ UNCHANGED <<sessions, att, run>>
    <3>1. reg' = None /\ adopted' \in {adopted, None}
      BY <2>1, <2>3, UnregisterDoes
    <3> QED BY <2>1, <2>3, <3>1, NoneIsNoSession
  <2>4. CASE /\ ~(reg = con /\ status[con] # "aborted")
             /\ UNCHANGED <<reg, adopted, sessions, att, run>>
    BY <2>1, <2>4, NoneIsNoSession
  <2> QED BY <1>13, <2>2, <2>3, <2>4, SpawnAttachesDoes
<1>14. CASE ProbeEnds
  BY <1>14, NoneIsNoSession DEF ProbeEnds, Unregister, OnRemoved, Corpse
<1>15. CASE TimerFires
  BY <1>15, NoneIsNoSession, TimerFiresDoes
<1>16. ASSUME NEW m \in Message, SameTick, Send(m) PROVE Detached'
  BY <1>16, NoneIsNoSession, SendDoes, ResolveDoes DEF Deliver
<1>17. ASSUME NEW s \in Session, TurnStarts(s) \/ TurnEnds(s) PROVE Detached'
  BY <1>17, NoneIsNoSession, TurnsDo
<1>18. CASE Finalize
  BY <1>18, NoneIsNoSession, FinalizeDoes DEF Dispose
<1>19. CASE FinalizeAborted
  <2>1. /\ Quiet /\ run # None /\ run.sess \in Session /\ run' = None /\ rel["exec"] = None
        /\ UNCHANGED <<registry, own, turn, synced, rev, revivals, disposed, con, probe,
                       senders, history>>
    BY <1>19, FinalizeAbortedDoes
  <2>2. CASE RunKilled
    BY <2>1, <2>2, NoneIsNoSession DEF RunKilled, Begins, Releaser
  <2>3. CASE RunDropped
    BY <2>1, <2>3, NoneIsNoSession DEF RunDropped, Dispose
  <2> QED BY <1>19, <2>2, <2>3, FinalizeAbortedDoes
<1>20. ASSUME NEW kill \in BOOLEAN, HubReleases(kill) PROVE Detached'
  BY <1>20, NoneIsNoSession, HubReleasesDoes DEF Begins, Releaser
<1>21. CASE DisposeManager
  <2>1. /\ Quiet /\ ~disposed /\ disposed' = TRUE
        /\ UNCHANGED <<registry, sessions, rev, callers, senders, history>>
    BY <1>21, DisposeManagerDoes
  <2>2. CASE TeardownReleases /\ UNCHANGED revivals
    BY <2>1, <2>2, NoneIsNoSession DEF TeardownReleases, Begins, Releaser
  <2>3. CASE revivals' = None /\ UNCHANGED <<adopted, park, rel>>
    BY <2>1, <2>3, NoneIsNoSession
  <2> QED BY <1>21, <2>2, <2>3, DisposeManagerDoes
<1>22. CASE Spawn
  BY <1>22, NoneIsNoSession, NewOnes DEF Spawn
<1>23. CASE Restore
  BY <1>23, NoneIsNoSession, NewOnes DEF Restore, OnRemoved
<1>24. CASE Probe
  BY <1>24, NoneIsNoSession DEF Probe
<1>25. CASE UNCHANGED vars
  BY <1>25, NoneIsNoSession DEF vars
<1>26. CASE OrphanFires
  BY <1>26, NoneIsNoSession, OrphanFiresDoes
<1> QED
  BY <1>1, <1>2, <1>3, <1>4, <1>5, <1>6, <1>7, <1>8, <1>9, <1>10, <1>11, <1>12, <1>13,
     <1>14, <1>15, <1>16, <1>17, <1>18, <1>19, <1>20, <1>21, <1>22, <1>23, <1>24, <1>25, <1>26
     DEF Next, Continuation, IO

LEMMA ConstructsStep ==
  ASSUME TypeOK, Tame, FreshRefs, FreshSessions, Detached, Constructs, [Next]_vars
  PROVE  Constructs'
<1> USE DEF registry, sessions, manager, callers, senders, history, TypeOK, Refs, Sessions,
        Attached, FreshRefs, FreshSessions, Detached, Constructs
<1>1. CASE ParkCommits
  <2>1. /\ park # None /\ park.step = "yield"
        /\ UNCHANGED <<reg, own, turn, synced, adopted, rev, revivals, disposed, rel,
                       callers, senders, history>>
    BY <1>1, ParkCommitsDoes
  <2>2. CASE ParkStops
    BY <2>1, <2>2, NoneIsNoSession DEF ParkStops
  <2>3. CASE ParkDetaches
    BY <2>1, <2>3, NoneIsNoSession DEF ParkDetaches, Dispose, Parks
  <2> QED BY <1>1, <2>2, <2>3, ParkCommitsDoes
<1>2. ASSUME NEW m \in Message, Injects(m) PROVE Constructs'
  BY <1>2, NoneIsNoSession DEF Injects, Deliver
<1>3. ASSUME NEW m \in Message, Kept(m) PROVE Constructs'
  BY <1>3, NoneIsNoSession, KeptDoes, ResolveDoes
<1>4. ASSUME NEW m \in Message, Parked(m) PROVE Constructs'
  BY <1>4, NoneIsNoSession, ResolveDoes DEF Parked
<1>5. ASSUME NEW x \in Releaser, ReleaseGoesOn(x) PROVE Constructs'
  BY <1>5, NoneIsNoSession, ReleaseGoesOnDoes DEF Dispose
<1>6. ASSUME NEW s \in Session, SessionGone(s) PROVE Constructs'
  BY <1>6, NoneIsNoSession, SessionGoneDoes
<1>7. ASSUME NEW r \in Ref, FactoryReturns(r) PROVE Constructs'
  BY <1>7, NoneIsNoSession, FactoryReturnsDoes, RevivalFailsDoes
<1>8. ASSUME NEW r \in Ref, BuildEnds(r) PROVE Constructs'
  BY <1>8, NoneIsNoSession, BuildEndsDoes, RevivalFailsDoes DEF Claims
<1>9. ASSUME NEW r \in Ref, ReviverThrows(r) PROVE Constructs'
  BY <1>9, NoneIsNoSession, ReviverThrowsDoes, RevivalFailsDoes
<1>10. ASSUME NEW r \in Ref, ReviveEnds(r) PROVE Constructs'
  BY <1>10, NoneIsNoSession, ReviveEndsDoes, RevivalFailsDoes DEF ReviveFails, ReviveLands,
     Dispose
<1>11. ASSUME NEW x \in Releaser, TombstonePersisted(x) PROVE Constructs'
  BY <1>11, NoneIsNoSession, TombstoneDoes DEF Dispose
<1>12. ASSUME NEW x \in Releaser, CleanupEnds(x) PROVE Constructs'
  BY <1>12, NoneIsNoSession, CleanupEndsDoes, UnregisterDoes
<1>13. CASE SpawnAttaches
  BY <1>13, NoneIsNoSession, SpawnAttachesDoes, UnregisterDoes DEF SpawnBuilds
<1>14. CASE ProbeEnds
  BY <1>14, NoneIsNoSession DEF ProbeEnds, Unregister, OnRemoved, Corpse
<1>15. CASE TimerFires
  BY <1>15, NoneIsNoSession, TimerFiresDoes
<1>16. ASSUME NEW m \in Message, SameTick, Send(m) PROVE Constructs'
  BY <1>16, NoneIsNoSession, SendDoes, ResolveDoes DEF Deliver
<1>17. ASSUME NEW s \in Session, TurnStarts(s) \/ TurnEnds(s) PROVE Constructs'
  BY <1>17, NoneIsNoSession, TurnsDo
<1>18. CASE Finalize
  BY <1>18, NoneIsNoSession, FinalizeDoes DEF Dispose
<1>19. CASE FinalizeAborted
  <2>1. /\ Quiet /\ run # None /\ run.sess \in Session /\ run' = None /\ rel["exec"] = None
        /\ UNCHANGED <<registry, own, turn, synced, rev, revivals, disposed, con, probe,
                       senders, history>>
    BY <1>19, FinalizeAbortedDoes
  <2>2. CASE RunKilled
    BY <2>1, <2>2, NoneIsNoSession DEF RunKilled, Begins, Releaser
  <2>3. CASE RunDropped
    BY <2>1, <2>3, NoneIsNoSession DEF RunDropped, Dispose
  <2> QED BY <1>19, <2>2, <2>3, FinalizeAbortedDoes
<1>20. ASSUME NEW kill \in BOOLEAN, HubReleases(kill) PROVE Constructs'
  BY <1>20, NoneIsNoSession, HubReleasesDoes DEF Begins, Releaser
<1>21. CASE DisposeManager
  <2>1. /\ Quiet /\ ~disposed /\ disposed' = TRUE
        /\ UNCHANGED <<registry, sessions, rev, callers, senders, history>>
    BY <1>21, DisposeManagerDoes
  <2>2. CASE TeardownReleases /\ UNCHANGED revivals
    BY <2>1, <2>2, NoneIsNoSession DEF TeardownReleases, Begins, Releaser
  <2>3. CASE revivals' = None /\ UNCHANGED <<adopted, park, rel>>
    BY <2>1, <2>3, NoneIsNoSession
  <2> QED BY <1>21, <2>2, <2>3, DisposeManagerDoes
<1>22. CASE Spawn
  BY <1>22, NoneIsNoSession, NewOnes DEF Spawn
<1>23. CASE Restore
  BY <1>23, NoneIsNoSession, NewOnes DEF Restore, OnRemoved
<1>24. CASE Probe
  BY <1>24, NoneIsNoSession DEF Probe
<1>25. CASE UNCHANGED vars
  BY <1>25, NoneIsNoSession DEF vars
<1>26. CASE OrphanFires
  BY <1>26, NoneIsNoSession, OrphanFiresDoes
<1> QED
  BY <1>1, <1>2, <1>3, <1>4, <1>5, <1>6, <1>7, <1>8, <1>9, <1>10, <1>11, <1>12, <1>13,
     <1>14, <1>15, <1>16, <1>17, <1>18, <1>19, <1>20, <1>21, <1>22, <1>23, <1>24, <1>25, <1>26
     DEF Next, Continuation, IO

LEMMA RevivesStep ==
  ASSUME TypeOK, Tame, FreshRefs, FreshSessions, Owned, Detached, Constructs, Timed, Revives,
         [Next]_vars
  PROVE  Revives'
<1> USE DEF registry, sessions, manager, callers, senders, history, TypeOK, Refs, Sessions,
        Attached, FreshRefs, FreshSessions, Owned, Detached, Constructs, Timed, Revives
<1>1. CASE ParkCommits
  BY <1>1, NoneIsNoSession, ParkCommitsDoes DEF ParkStops, ParkDetaches, Dispose
<1>2. ASSUME NEW m \in Message, Injects(m) PROVE Revives'
  BY <1>2, NoneIsNoSession DEF Injects, Deliver
<1>3. ASSUME NEW m \in Message, Kept(m) PROVE Revives'
  BY <1>3, NoneIsNoSession, KeptDoes, ResolveDoes
<1>4. ASSUME NEW m \in Message, Parked(m) PROVE Revives'
  BY <1>4, NoneIsNoSession, ResolveDoes DEF Parked
<1>5. ASSUME NEW x \in Releaser, ReleaseGoesOn(x) PROVE Revives'
  BY <1>5, NoneIsNoSession, ReleaseGoesOnDoes DEF Dispose
<1>6. ASSUME NEW s \in Session, SessionGone(s) PROVE Revives'
  <2>1. /\ life[s] = "disposing"
        /\ life' = [life EXCEPT ![s] = "gone"]
        /\ run' = None <=> run = None
        /\ run # None => run'.sess = run.sess
        /\ park' = IF park # None /\ park.sess = s THEN None ELSE park
        /\ UNCHANGED <<status, att, own, synced, rev, revivals, disposed, con, probe,
                       senders, history>>
    BY <1>6, SessionGoneDoes
  <2>2. CASE reg' = reg /\ adopted' = adopted
    BY <2>1, <2>2, NoneIsNoSession
  <2>3. CASE reg' = None /\ adopted' \in {adopted, None}
    BY <2>1, <2>3, NoneIsNoSession
  <2> QED BY <1>6, <2>2, <2>3, SessionGoneDoes
<1>7. ASSUME NEW r \in Ref, FactoryReturns(r) PROVE Revives'
  BY <1>7, NoneIsNoSession, FactoryReturnsDoes, RevivalFailsDoes
<1>8. ASSUME NEW r \in Ref, BuildEnds(r) PROVE Revives'
  BY <1>8, NoneIsNoSession, BuildEndsDoes, RevivalFailsDoes DEF Claims
<1>9. ASSUME NEW r \in Ref, ReviverThrows(r) PROVE Revives'
  BY <1>9, NoneIsNoSession, ReviverThrowsDoes, RevivalFailsDoes
<1>10. ASSUME NEW r \in Ref, ReviveEnds(r) PROVE Revives'
  <2>1. /\ Quiet /\ rev[r] # None /\ rev[r].step = "claimed" /\ rev[r].sess \in Session
        /\ synced' = [synced EXCEPT ![rev[r].sess] = TRUE]
        /\ UNCHANGED <<reg, att, own, turn, park, disposed, rel, callers, history>>
    BY <1>10, ReviveEndsDoes
  <2>2. CASE ReviveFails(r)
    <3>1. /\ rev' = [rev EXCEPT ![r] = None]
          /\ \A m \in Message : \/ pc'[m] = pc[m] /\ arg'[m] = arg[m]
                                \/ pc[m] = "revive" /\ pc'[m] = "failed" /\ arg'[m] = None
      BY <2>2, RevivalFailsDoes DEF ReviveFails
    <3> QED BY <2>1, <2>2, <3>1, NoneIsNoSession DEF ReviveFails, Dispose
  <2>3. CASE ReviveLands(r)
    BY <2>1, <2>3, NoneIsNoSession DEF ReviveLands
  <2> QED BY <1>10, <2>2, <2>3, ReviveEndsDoes
<1>11. ASSUME NEW x \in Releaser, TombstonePersisted(x) PROVE Revives'
  BY <1>11, NoneIsNoSession, TombstoneDoes DEF Dispose
<1>12. ASSUME NEW x \in Releaser, CleanupEnds(x) PROVE Revives'
  <2>1. /\ rel[x] # None /\ rel[x].ref \in Ref /\ rel' = [rel EXCEPT ![x] = None]
        /\ UNCHANGED <<status, att, sessions, park, rev, disposed, callers, senders, untimed>>
    BY <1>12, CleanupEndsDoes
  <2>2. reg' \in {reg, None} /\ adopted' \in {adopted, None}
    BY <1>12, CleanupEndsDoes, UnregisterDoes
  <2> QED BY <2>1, <2>2, NoneIsNoSession
<1>13. CASE SpawnAttaches
  <2>1. /\ Quiet /\ con \in Ref /\ con' = None
        /\ NewSession \in Session /\ life[NewSession] = "none"
        /\ UNCHANGED <<status, park, rev, revivals, disposed, rel, probe, senders, history>>
    BY <1>13, SpawnAttachesDoes
  <2>2. CASE SpawnBuilds
    BY <2>1, <2>2, NoneIsNoSession DEF SpawnBuilds, Parks, Revivals
  <2>3. CASE reg = con /\ Unregister(con) /\ UNCHANGED <<sessions, att, run>>
    <3>1. reg' = None /\ adopted' \in {adopted, None}
      BY <2>1, <2>3, UnregisterDoes
    <3> QED BY <2>1, <2>3, <3>1, NoneIsNoSession
  <2>4. CASE /\ ~(reg = con /\ status[con] # "aborted")
             /\ UNCHANGED <<reg, adopted, sessions, att, run>>
    BY <2>1, <2>4, NoneIsNoSession
  <2> QED BY <1>13, <2>2, <2>3, <2>4, SpawnAttachesDoes
<1>14. CASE ProbeEnds
  BY <1>14, NoneIsNoSession DEF ProbeEnds, Unregister, OnRemoved, Corpse
<1>15. CASE TimerFires
  BY <1>15, NoneIsNoSession, TimerFiresDoes
<1>16. ASSUME NEW m \in Message, SameTick, Send(m) PROVE Revives'
  BY <1>16, NoneIsNoSession, SendDoes, ResolveDoes DEF Deliver
<1>17. ASSUME NEW s \in Session, TurnStarts(s) \/ TurnEnds(s) PROVE Revives'
  BY <1>17, NoneIsNoSession, TurnsDo
<1>18. CASE Finalize
  BY <1>18, NoneIsNoSession, FinalizeDoes DEF Dispose
<1>19. CASE FinalizeAborted
  <2>1. /\ Quiet /\ run # None /\ run.sess \in Session /\ run' = None /\ rel["exec"] = None
        /\ UNCHANGED <<registry, own, turn, synced, rev, revivals, disposed, con, probe,
                       senders, history>>
    BY <1>19, FinalizeAbortedDoes
  <2>2. CASE RunKilled
    BY <2>1, <2>2, NoneIsNoSession DEF RunKilled, Begins, Releaser
  <2>3. CASE RunDropped
    BY <2>1, <2>3, NoneIsNoSession DEF RunDropped, Dispose
  <2> QED BY <1>19, <2>2, <2>3, FinalizeAbortedDoes
<1>20. ASSUME NEW kill \in BOOLEAN, HubReleases(kill) PROVE Revives'
  BY <1>20, NoneIsNoSession, HubReleasesDoes DEF Begins, Releaser
<1>21. CASE DisposeManager
  <2>1. /\ Quiet /\ ~disposed /\ disposed' = TRUE
        /\ UNCHANGED <<registry, sessions, rev, callers, senders, history>>
    BY <1>21, DisposeManagerDoes
  <2>2. CASE TeardownReleases /\ UNCHANGED revivals
    BY <2>1, <2>2, NoneIsNoSession DEF TeardownReleases, Begins, Releaser
  <2>3. CASE revivals' = None /\ UNCHANGED <<adopted, park, rel>>
    BY <2>1, <2>3, NoneIsNoSession
  <2> QED BY <1>21, <2>2, <2>3, DisposeManagerDoes
<1>22. CASE Spawn
  BY <1>22, NoneIsNoSession, NewOnes DEF Spawn
<1>23. CASE Restore
  BY <1>23, NoneIsNoSession, NewOnes DEF Restore, OnRemoved
<1>24. CASE Probe
  BY <1>24, NoneIsNoSession DEF Probe
<1>25. CASE UNCHANGED vars
  BY <1>25, NoneIsNoSession DEF vars
<1>26. CASE OrphanFires
  BY <1>26, NoneIsNoSession, OrphanFiresDoes
<1> QED
  BY <1>1, <1>2, <1>3, <1>4, <1>5, <1>6, <1>7, <1>8, <1>9, <1>10, <1>11, <1>12, <1>13,
     <1>14, <1>15, <1>16, <1>17, <1>18, <1>19, <1>20, <1>21, <1>22, <1>23, <1>24, <1>25, <1>26
     DEF Next, Continuation, IO

LEMMA TimedStep ==
  ASSUME TypeOK, Tame, FreshRefs, Detached, Constructs, Revives, Disowned, Timed, [Next]_vars
  PROVE  Timed'
<1> USE DEF registry, sessions, manager, callers, senders, history, TypeOK, Refs, Sessions,
        Attached, FreshRefs, Detached, Constructs, Revives, Disowned, Timed, Quiet, SameTick
<1>1. CASE ParkCommits
  BY <1>1, NoneIsNoSession, ParkCommitsDoes DEF ParkStops, ParkDetaches, Dispose
<1>2. ASSUME NEW m \in Message, Injects(m) PROVE Timed'
  BY <1>2, NoneIsNoSession DEF Injects, Deliver
<1>3. ASSUME NEW m \in Message, Kept(m) PROVE Timed'
  BY <1>3, NoneIsNoSession, KeptDoes, ResolveDoes
<1>4. ASSUME NEW m \in Message, Parked(m) PROVE Timed'
  BY <1>4, NoneIsNoSession, ResolveDoes DEF Parked
<1>5. ASSUME NEW x \in Releaser, ReleaseGoesOn(x) PROVE Timed'
  BY <1>5, NoneIsNoSession, ReleaseGoesOnDoes DEF Dispose
<1>6. ASSUME NEW s \in Session, SessionGone(s) PROVE Timed'
  <2>1. /\ life[s] = "disposing"
        /\ life' = [life EXCEPT ![s] = "gone"]
        /\ run' = None <=> run = None
        /\ run # None => run'.sess = run.sess
        /\ park' = IF park # None /\ park.sess = s THEN None ELSE park
        /\ UNCHANGED <<status, att, own, synced, rev, revivals, disposed, con, probe,
                       senders, history>>
    BY <1>6, SessionGoneDoes
  <2>2. CASE reg' = reg /\ adopted' = adopted
    BY <2>1, <2>2, NoneIsNoSession
  <2>3. CASE reg' = None /\ adopted' \in {adopted, None}
    BY <2>1, <2>3, NoneIsNoSession
  <2> QED BY <1>6, <2>2, <2>3, SessionGoneDoes
<1>7. ASSUME NEW r \in Ref, FactoryReturns(r) PROVE Timed'
  BY <1>7, NoneIsNoSession, FactoryReturnsDoes, RevivalFailsDoes
<1>8. ASSUME NEW r \in Ref, BuildEnds(r) PROVE Timed'
  <2>1. /\ Quiet /\ rev[r] # None /\ rev[r].step = "build"
        /\ NewSession \in Session /\ life[NewSession] = "none"
        /\ UNCHANGED <<reg, turn, synced, park, disposed, rel, callers, history>>
    BY <1>8, BuildEndsDoes
  <2>2. CASE Claims(r)
    BY <2>1, <2>2, NoneIsNoSession DEF Claims
  <2>3. CASE ~Claims(r)
    BY <1>8, <2>1, <2>3, NoneIsNoSession, BuildEndsDoes, RevivalFailsDoes
  <2> QED BY <2>2, <2>3
<1>9. ASSUME NEW r \in Ref, ReviverThrows(r) PROVE Timed'
  BY <1>9, NoneIsNoSession, ReviverThrowsDoes, RevivalFailsDoes
<1>10. ASSUME NEW r \in Ref, ReviveEnds(r) PROVE Timed'
  <2>1. /\ Quiet /\ rev[r] # None /\ rev[r].step = "claimed" /\ rev[r].sess \in Session
        /\ synced' = [synced EXCEPT ![rev[r].sess] = TRUE]
        /\ UNCHANGED <<reg, att, own, turn, park, disposed, rel, callers, history>>
    BY <1>10, ReviveEndsDoes
  <2>2. CASE ReviveFails(r)
    <3>1. /\ rev' = [rev EXCEPT ![r] = None]
          /\ \A m \in Message : \/ pc'[m] = pc[m] /\ arg'[m] = arg[m]
                                \/ pc[m] = "revive" /\ pc'[m] = "failed" /\ arg'[m] = None
      BY <2>2, RevivalFailsDoes DEF ReviveFails
    <3> QED BY <2>1, <2>2, <3>1, NoneIsNoSession DEF ReviveFails, Dispose
  <2>3. CASE ReviveLands(r)
    BY <2>1, <2>3, NoneIsNoSession DEF ReviveLands
  <2> QED BY <1>10, <2>2, <2>3, ReviveEndsDoes
<1>11. ASSUME NEW x \in Releaser, TombstonePersisted(x) PROVE Timed'
  BY <1>11, NoneIsNoSession, TombstoneDoes DEF Dispose
<1>12. ASSUME NEW x \in Releaser, CleanupEnds(x) PROVE Timed'
  <2>1. /\ rel[x] # None /\ rel[x].ref \in Ref /\ rel' = [rel EXCEPT ![x] = None]
        /\ UNCHANGED <<status, att, sessions, park, rev, disposed, callers, senders, untimed>>
    BY <1>12, CleanupEndsDoes
  <2>2. reg' \in {reg, None} /\ adopted' \in {adopted, None}
    BY <1>12, CleanupEndsDoes, UnregisterDoes
  <2> QED BY <2>1, <2>2, NoneIsNoSession
<1>13. CASE SpawnAttaches
  <2>1. /\ Quiet /\ con \in Ref /\ con' = None
        /\ NewSession \in Session /\ life[NewSession] = "none"
        /\ UNCHANGED <<status, park, rev, revivals, disposed, rel, probe, senders, history>>
    BY <1>13, SpawnAttachesDoes
  <2>2. CASE SpawnBuilds
    BY <2>1, <2>2, NoneIsNoSession DEF SpawnBuilds
  <2>3. CASE reg = con /\ Unregister(con) /\ UNCHANGED <<sessions, att, run>>
    <3>1. reg' = None /\ adopted' \in {adopted, None}
      BY <2>1, <2>3, UnregisterDoes
    <3> QED BY <2>1, <2>3, <3>1, NoneIsNoSession
  <2>4. CASE /\ ~(reg = con /\ status[con] # "aborted")
             /\ UNCHANGED <<reg, adopted, sessions, att, run>>
    BY <2>1, <2>4, NoneIsNoSession
  <2> QED BY <1>13, <2>2, <2>3, <2>4, SpawnAttachesDoes
<1>14. CASE ProbeEnds
  BY <1>14, NoneIsNoSession DEF ProbeEnds, Unregister, OnRemoved, Corpse
<1>15. CASE TimerFires
  BY <1>15, NoneIsNoSession, TimerFiresDoes
<1>16. ASSUME NEW m \in Message, SameTick, Send(m) PROVE Timed'
  BY <1>16, NoneIsNoSession, SendDoes, ResolveDoes DEF Deliver
<1>17. ASSUME NEW s \in Session, TurnStarts(s) \/ TurnEnds(s) PROVE Timed'
  BY <1>17, NoneIsNoSession, TurnsDo
<1>18. CASE Finalize
  BY <1>18, NoneIsNoSession, FinalizeDoes DEF Dispose
<1>19. CASE FinalizeAborted
  <2>1. /\ Quiet /\ run # None /\ run.sess \in Session /\ run' = None /\ rel["exec"] = None
        /\ UNCHANGED <<registry, own, turn, synced, rev, revivals, disposed, con, probe,
                       senders, history>>
    BY <1>19, FinalizeAbortedDoes
  <2>2. CASE RunKilled
    BY <2>1, <2>2, NoneIsNoSession DEF RunKilled, Begins, Releaser
  <2>3. CASE RunDropped
    BY <2>1, <2>3, NoneIsNoSession DEF RunDropped, Dispose
  <2> QED BY <1>19, <2>2, <2>3, FinalizeAbortedDoes
<1>20. ASSUME NEW kill \in BOOLEAN, HubReleases(kill) PROVE Timed'
  BY <1>20, NoneIsNoSession, HubReleasesDoes DEF Begins, Releaser
<1>21. CASE DisposeManager
  <2>1. /\ Quiet /\ ~disposed /\ disposed' = TRUE
        /\ UNCHANGED <<registry, sessions, rev, callers, senders, history>>
    BY <1>21, DisposeManagerDoes
  <2>2. CASE TeardownReleases /\ UNCHANGED revivals
    BY <2>1, <2>2, NoneIsNoSession DEF TeardownReleases, Begins, Releaser
  <2>3. CASE revivals' = None /\ UNCHANGED <<adopted, park, rel>>
    BY <2>1, <2>3, NoneIsNoSession
  <2> QED BY <1>21, <2>2, <2>3, DisposeManagerDoes
<1>22. CASE Spawn
  BY <1>22, NoneIsNoSession, NewOnes DEF Spawn
<1>23. CASE Restore
  BY <1>23, NoneIsNoSession, NewOnes DEF Restore, OnRemoved
<1>24. CASE Probe
  BY <1>24, NoneIsNoSession DEF Probe
<1>25. CASE UNCHANGED vars
  BY <1>25, NoneIsNoSession DEF vars
<1>26. CASE OrphanFires
  BY <1>26, NoneIsNoSession, OrphanFiresDoes
<1> QED
  BY <1>1, <1>2, <1>3, <1>4, <1>5, <1>6, <1>7, <1>8, <1>9, <1>10, <1>11, <1>12, <1>13,
     <1>14, <1>15, <1>16, <1>17, <1>18, <1>19, <1>20, <1>21, <1>22, <1>23, <1>24, <1>25, <1>26
     DEF Next, Continuation, IO

LEMMA DisownedStep ==
  ASSUME TypeOK, Tame, FreshRefs, Detached, Constructs, Revives, Disowned, [Next]_vars
  PROVE  Disowned'
<1> USE DEF registry, sessions, manager, callers, senders, history, TypeOK, Refs, Sessions,
        Attached, FreshRefs, Detached, Constructs, Revives, Disowned, Quiet, SameTick
<1>1. CASE ParkCommits
  BY <1>1, NoneIsNoSession, ParkCommitsDoes DEF ParkStops, ParkDetaches, Dispose
<1>2. ASSUME NEW m \in Message, Injects(m) PROVE Disowned'
  BY <1>2, NoneIsNoSession DEF Injects, Deliver
<1>3. ASSUME NEW m \in Message, Kept(m) PROVE Disowned'
  BY <1>3, NoneIsNoSession, KeptDoes, ResolveDoes
<1>4. ASSUME NEW m \in Message, Parked(m) PROVE Disowned'
  BY <1>4, NoneIsNoSession, ResolveDoes DEF Parked
<1>5. ASSUME NEW x \in Releaser, ReleaseGoesOn(x) PROVE Disowned'
  BY <1>5, NoneIsNoSession, ReleaseGoesOnDoes DEF Dispose
<1>6. ASSUME NEW s \in Session, SessionGone(s) PROVE Disowned'
  BY <1>6, NoneIsNoSession, SessionGoneDoes
<1>7. ASSUME NEW r \in Ref, FactoryReturns(r) PROVE Disowned'
  BY <1>7, NoneIsNoSession, FactoryReturnsDoes, RevivalFailsDoes
<1>8. ASSUME NEW r \in Ref, BuildEnds(r) PROVE Disowned'
  BY <1>8, NoneIsNoSession, BuildEndsDoes, RevivalFailsDoes DEF Claims
<1>9. ASSUME NEW r \in Ref, ReviverThrows(r) PROVE Disowned'
  BY <1>9, NoneIsNoSession, ReviverThrowsDoes, RevivalFailsDoes
<1>10. ASSUME NEW r \in Ref, ReviveEnds(r) PROVE Disowned'
  BY <1>10, NoneIsNoSession, ReviveEndsDoes, RevivalFailsDoes DEF ReviveFails, ReviveLands,
     Dispose
<1>11. ASSUME NEW x \in Releaser, TombstonePersisted(x) PROVE Disowned'
  BY <1>11, NoneIsNoSession, TombstoneDoes DEF Dispose
<1>12. ASSUME NEW x \in Releaser, CleanupEnds(x) PROVE Disowned'
  BY <1>12, NoneIsNoSession, CleanupEndsDoes, UnregisterDoes
<1>13. CASE SpawnAttaches
  BY <1>13, NoneIsNoSession, SpawnAttachesDoes, UnregisterDoes DEF SpawnBuilds
<1>14. CASE ProbeEnds
  BY <1>14, NoneIsNoSession DEF ProbeEnds, Unregister, OnRemoved, Corpse
<1>15. CASE TimerFires
  BY <1>15, NoneIsNoSession, TimerFiresDoes
<1>16. ASSUME NEW m \in Message, SameTick, Send(m) PROVE Disowned'
  BY <1>16, NoneIsNoSession, SendDoes, ResolveDoes DEF Deliver
<1>17. ASSUME NEW s \in Session, TurnStarts(s) \/ TurnEnds(s) PROVE Disowned'
  BY <1>17, NoneIsNoSession, TurnsDo
<1>18. CASE Finalize
  BY <1>18, NoneIsNoSession, FinalizeDoes DEF Dispose, Parks
<1>19. CASE FinalizeAborted
  <2>1. /\ Quiet /\ run # None /\ run.sess \in Session /\ run' = None /\ rel["exec"] = None
        /\ UNCHANGED <<registry, own, turn, synced, rev, revivals, disposed, con, probe,
                       senders, history>>
    BY <1>19, FinalizeAbortedDoes
  <2>2. CASE RunKilled
    BY <2>1, <2>2, NoneIsNoSession DEF RunKilled, Begins, Releaser
  <2>3. CASE RunDropped
    BY <2>1, <2>3, NoneIsNoSession DEF RunDropped, Dispose
  <2> QED BY <1>19, <2>2, <2>3, FinalizeAbortedDoes
<1>20. ASSUME NEW kill \in BOOLEAN, HubReleases(kill) PROVE Disowned'
  BY <1>20, NoneIsNoSession, HubReleasesDoes DEF Begins, Releaser
<1>21. CASE DisposeManager
  <2>1. /\ Quiet /\ ~disposed /\ disposed' = TRUE
        /\ UNCHANGED <<registry, sessions, rev, callers, senders, history>>
    BY <1>21, DisposeManagerDoes
  <2>2. CASE TeardownReleases /\ UNCHANGED revivals
    BY <2>1, <2>2, NoneIsNoSession DEF TeardownReleases, Begins, Releaser
  <2>3. CASE revivals' = None /\ UNCHANGED <<adopted, park, rel>>
    BY <2>1, <2>3, NoneIsNoSession
  <2> QED BY <1>21, <2>2, <2>3, DisposeManagerDoes
<1>22. CASE Spawn
  BY <1>22, NoneIsNoSession, NewOnes DEF Spawn
<1>23. CASE Restore
  BY <1>23, NoneIsNoSession, NewOnes DEF Restore, OnRemoved
<1>24. CASE Probe
  BY <1>24, NoneIsNoSession DEF Probe
<1>25. CASE UNCHANGED vars
  BY <1>25, NoneIsNoSession DEF vars
<1>26. CASE OrphanFires
  BY <1>26, NoneIsNoSession, OrphanFiresDoes
<1> QED
  BY <1>1, <1>2, <1>3, <1>4, <1>5, <1>6, <1>7, <1>8, <1>9, <1>10, <1>11, <1>12, <1>13,
     <1>14, <1>15, <1>16, <1>17, <1>18, <1>19, <1>20, <1>21, <1>22, <1>23, <1>24, <1>25, <1>26
     DEF Next, Continuation, IO

(***************************************************************************)
(* What a step may never do to sessions, refs and releases.                *)
(***************************************************************************)
\* A session is built once, for one ref, and is disposed of once.
LifeGoesOn ==
    \A s \in Session :
        /\ life[s] # "none" => own'[s] = own[s] /\ life'[s] # "none"
        /\ life[s] = "gone" => life'[s] = "gone"
        /\ life[s] = "disposing" => life'[s] \in {"disposing", "gone"}
        /\ life[s] = "none" => life'[s] \in {"none", "live"}

\* A killed agent stays killed.
AbortedStays == \A r \in Ref : status[r] = "aborted" => status'[r] = "aborted"

\* The steps of a release.
RelGoesOn ==
    \A y \in Releaser : rel'[y] # None =>
        \/ rel'[y] = rel[y]
        \/ rel[y] = None /\ rel'[y].step = "park" /\ rel'[y].sess = None
        \/ ReleaseGoesOn(y)
        \/ TombstonePersisted(y)
        \/ /\ rel[y] # None /\ rel[y].step = "dispose" /\ rel'[y].step = "cleanup"
           /\ rel'[y].ref = rel[y].ref /\ rel'[y].kill = rel[y].kill
           /\ rel'[y].owned = rel[y].owned /\ rel'[y].sess = rel[y].sess
           /\ life[rel[y].sess] = "disposing" /\ life'[rel[y].sess] = "gone"

LEMMA LifeStep ==
  ASSUME TypeOK, Tame, [Next]_vars
  PROVE  LifeGoesOn
<1> USE DEF registry, sessions, manager, callers, senders, history, TypeOK, LifeGoesOn,
        Refs, Sessions
<1>1. CASE ParkCommits
  BY <1>1, NoneIsNoSession, ParkCommitsDoes DEF ParkStops, ParkDetaches, Dispose
<1>2. ASSUME NEW m \in Message, Injects(m) PROVE LifeGoesOn
  BY <1>2, NoneIsNoSession DEF Injects, Deliver
<1>3. ASSUME NEW m \in Message, Kept(m) PROVE LifeGoesOn
  BY <1>3, NoneIsNoSession, KeptDoes, ResolveDoes
<1>4. ASSUME NEW m \in Message, Parked(m) PROVE LifeGoesOn
  BY <1>4, NoneIsNoSession, ResolveDoes DEF Parked
<1>5. ASSUME NEW x \in Releaser, ReleaseGoesOn(x) PROVE LifeGoesOn
  BY <1>5, NoneIsNoSession, ReleaseGoesOnDoes DEF Dispose
<1>6. ASSUME NEW s \in Session, SessionGone(s) PROVE LifeGoesOn
  BY <1>6, NoneIsNoSession, SessionGoneDoes
<1>7. ASSUME NEW r \in Ref, FactoryReturns(r) PROVE LifeGoesOn
  BY <1>7, NoneIsNoSession, FactoryReturnsDoes, RevivalFailsDoes
<1>8. ASSUME NEW r \in Ref, BuildEnds(r) PROVE LifeGoesOn
  BY <1>8, NoneIsNoSession, BuildEndsDoes, RevivalFailsDoes DEF Claims
<1>9. ASSUME NEW r \in Ref, ReviverThrows(r) PROVE LifeGoesOn
  BY <1>9, NoneIsNoSession, ReviverThrowsDoes, RevivalFailsDoes
<1>10. ASSUME NEW r \in Ref, ReviveEnds(r) PROVE LifeGoesOn
  BY <1>10, NoneIsNoSession, ReviveEndsDoes, RevivalFailsDoes DEF ReviveFails, ReviveLands,
     Dispose
<1>11. ASSUME NEW x \in Releaser, TombstonePersisted(x) PROVE LifeGoesOn
  BY <1>11, NoneIsNoSession, TombstoneDoes DEF Dispose
<1>12. ASSUME NEW x \in Releaser, CleanupEnds(x) PROVE LifeGoesOn
  BY <1>12, NoneIsNoSession, CleanupEndsDoes, UnregisterDoes
<1>13. CASE SpawnAttaches
  BY <1>13, NoneIsNoSession, SpawnAttachesDoes, UnregisterDoes DEF SpawnBuilds
<1>14. CASE ProbeEnds
  BY <1>14, NoneIsNoSession DEF ProbeEnds, Unregister, OnRemoved, Corpse
<1>15. CASE TimerFires
  BY <1>15, NoneIsNoSession, TimerFiresDoes
<1>16. ASSUME NEW m \in Message, SameTick, Send(m) PROVE LifeGoesOn
  BY <1>16, NoneIsNoSession, SendDoes, ResolveDoes DEF Deliver
<1>17. ASSUME NEW s \in Session, TurnStarts(s) \/ TurnEnds(s) PROVE LifeGoesOn
  BY <1>17, NoneIsNoSession, TurnsDo
<1>18. CASE Finalize
  BY <1>18, NoneIsNoSession, FinalizeDoes DEF Dispose
<1>19. CASE FinalizeAborted
  <2>1. /\ Quiet /\ run # None /\ run.sess \in Session /\ run' = None /\ rel["exec"] = None
        /\ UNCHANGED <<registry, own, turn, synced, rev, revivals, disposed, con, probe,
                       senders, history>>
    BY <1>19, FinalizeAbortedDoes
  <2>2. CASE RunKilled
    BY <2>1, <2>2, NoneIsNoSession DEF RunKilled, Begins, Releaser
  <2>3. CASE RunDropped
    BY <2>1, <2>3, NoneIsNoSession DEF RunDropped, Dispose
  <2> QED BY <1>19, <2>2, <2>3, FinalizeAbortedDoes
<1>20. ASSUME NEW kill \in BOOLEAN, HubReleases(kill) PROVE LifeGoesOn
  BY <1>20, NoneIsNoSession, HubReleasesDoes DEF Begins, Releaser
<1>21. CASE DisposeManager
  BY <1>21, NoneIsNoSession, DisposeManagerDoes DEF TeardownReleases, Begins, Releaser
<1>22. CASE Spawn
  BY <1>22, NoneIsNoSession, NewOnes DEF Spawn
<1>23. CASE Restore
  BY <1>23, NoneIsNoSession, NewOnes DEF Restore, OnRemoved
<1>24. CASE Probe
  BY <1>24, NoneIsNoSession DEF Probe
<1>25. CASE UNCHANGED vars
  BY <1>25, NoneIsNoSession DEF vars
<1>26. CASE OrphanFires
  BY <1>26, NoneIsNoSession, OrphanFiresDoes
<1> QED
  BY <1>1, <1>2, <1>3, <1>4, <1>5, <1>6, <1>7, <1>8, <1>9, <1>10, <1>11, <1>12, <1>13,
     <1>14, <1>15, <1>16, <1>17, <1>18, <1>19, <1>20, <1>21, <1>22, <1>23, <1>24, <1>25, <1>26
     DEF Next, Continuation, IO

LEMMA AbortedStep ==
  ASSUME TypeOK, Tame, Detached, [Next]_vars
  PROVE  AbortedStays
<1> USE DEF registry, sessions, manager, callers, senders, history, TypeOK, AbortedStays,
        Detached, Refs, Sessions
<1>1. CASE ParkCommits
  <2>1. /\ park # None /\ park.step = "yield"
        /\ UNCHANGED <<reg, own, turn, synced, adopted, rev, revivals, disposed, rel,
                       callers, senders, history>>
    BY <1>1, ParkCommitsDoes
  <2>2. CASE ParkStops
    BY <2>1, <2>2, NoneIsNoSession DEF ParkStops
  <2>3. CASE ParkDetaches
    BY <2>1, <2>3, NoneIsNoSession DEF ParkDetaches, Dispose, Parks
  <2> QED BY <1>1, <2>2, <2>3, ParkCommitsDoes
<1>2. ASSUME NEW m \in Message, Injects(m) PROVE AbortedStays
  BY <1>2, NoneIsNoSession DEF Injects, Deliver
<1>3. ASSUME NEW m \in Message, Kept(m) PROVE AbortedStays
  BY <1>3, NoneIsNoSession, KeptDoes, ResolveDoes
<1>4. ASSUME NEW m \in Message, Parked(m) PROVE AbortedStays
  BY <1>4, NoneIsNoSession, ResolveDoes DEF Parked
<1>5. ASSUME NEW x \in Releaser, ReleaseGoesOn(x) PROVE AbortedStays
  BY <1>5, NoneIsNoSession, ReleaseGoesOnDoes DEF Dispose
<1>6. ASSUME NEW s \in Session, SessionGone(s) PROVE AbortedStays
  BY <1>6, NoneIsNoSession, SessionGoneDoes
<1>7. ASSUME NEW r \in Ref, FactoryReturns(r) PROVE AbortedStays
  BY <1>7, NoneIsNoSession, FactoryReturnsDoes, RevivalFailsDoes
<1>8. ASSUME NEW r \in Ref, BuildEnds(r) PROVE AbortedStays
  BY <1>8, NoneIsNoSession, BuildEndsDoes, RevivalFailsDoes DEF Claims
<1>9. ASSUME NEW r \in Ref, ReviverThrows(r) PROVE AbortedStays
  BY <1>9, NoneIsNoSession, ReviverThrowsDoes, RevivalFailsDoes
<1>10. ASSUME NEW r \in Ref, ReviveEnds(r) PROVE AbortedStays
  BY <1>10, NoneIsNoSession, ReviveEndsDoes, RevivalFailsDoes DEF ReviveFails, ReviveLands,
     Dispose
<1>11. ASSUME NEW x \in Releaser, TombstonePersisted(x) PROVE AbortedStays
  BY <1>11, NoneIsNoSession, TombstoneDoes DEF Dispose
<1>12. ASSUME NEW x \in Releaser, CleanupEnds(x) PROVE AbortedStays
  BY <1>12, NoneIsNoSession, CleanupEndsDoes, UnregisterDoes
<1>13. CASE SpawnAttaches
  BY <1>13, NoneIsNoSession, SpawnAttachesDoes, UnregisterDoes DEF SpawnBuilds
<1>14. CASE ProbeEnds
  BY <1>14, NoneIsNoSession DEF ProbeEnds, Unregister, OnRemoved, Corpse
<1>15. CASE TimerFires
  BY <1>15, NoneIsNoSession, TimerFiresDoes
<1>16. ASSUME NEW m \in Message, SameTick, Send(m) PROVE AbortedStays
  BY <1>16, NoneIsNoSession, SendDoes, ResolveDoes DEF Deliver
<1>17. ASSUME NEW s \in Session, TurnStarts(s) \/ TurnEnds(s) PROVE AbortedStays
  BY <1>17, NoneIsNoSession, TurnsDo
<1>18. CASE Finalize
  BY <1>18, NoneIsNoSession, FinalizeDoes DEF Dispose
<1>19. CASE FinalizeAborted
  BY <1>19, NoneIsNoSession, FinalizeAbortedDoes DEF RunKilled, RunDropped, Dispose,
     Begins, Releaser
<1>20. ASSUME NEW kill \in BOOLEAN, HubReleases(kill) PROVE AbortedStays
  BY <1>20, NoneIsNoSession, HubReleasesDoes DEF Begins, Releaser
<1>21. CASE DisposeManager
  BY <1>21, NoneIsNoSession, DisposeManagerDoes DEF TeardownReleases, Begins, Releaser
<1>22. CASE Spawn
  BY <1>22, NoneIsNoSession, NewOnes DEF Spawn
<1>23. CASE Restore
  BY <1>23, NoneIsNoSession, NewOnes DEF Restore, OnRemoved
<1>24. CASE Probe
  BY <1>24, NoneIsNoSession DEF Probe
<1>25. CASE UNCHANGED vars
  BY <1>25, NoneIsNoSession DEF vars
<1>26. CASE OrphanFires
  BY <1>26, NoneIsNoSession, OrphanFiresDoes
<1> QED
  BY <1>1, <1>2, <1>3, <1>4, <1>5, <1>6, <1>7, <1>8, <1>9, <1>10, <1>11, <1>12, <1>13,
     <1>14, <1>15, <1>16, <1>17, <1>18, <1>19, <1>20, <1>21, <1>22, <1>23, <1>24, <1>25, <1>26
     DEF Next, Continuation, IO

LEMMA RelStep ==
  ASSUME TypeOK, Tame, ReleaseSteps, [Next]_vars
  PROVE  RelGoesOn
<1> USE DEF registry, sessions, manager, callers, senders, history, TypeOK, RelGoesOn,
        Refs, Sessions, ReleaseSteps
<1>1. CASE ParkCommits
  BY <1>1, NoneIsNoSession, ParkCommitsDoes DEF ParkStops, ParkDetaches, Dispose
<1>2. ASSUME NEW m \in Message, Injects(m) PROVE RelGoesOn
  BY <1>2, NoneIsNoSession DEF Injects, Deliver
<1>3. ASSUME NEW m \in Message, Kept(m) PROVE RelGoesOn
  BY <1>3, NoneIsNoSession, KeptDoes, ResolveDoes
<1>4. ASSUME NEW m \in Message, Parked(m) PROVE RelGoesOn
  BY <1>4, NoneIsNoSession, ResolveDoes DEF Parked
<1>5. ASSUME NEW x \in Releaser, ReleaseGoesOn(x) PROVE RelGoesOn
  BY <1>5, ReleaseGoesOnDoes
<1>6. ASSUME NEW s \in Session, SessionGone(s) PROVE RelGoesOn
  BY <1>6, NoneIsNoSession, SessionGoneDoes DEF Releases
<1>7. ASSUME NEW r \in Ref, FactoryReturns(r) PROVE RelGoesOn
  BY <1>7, NoneIsNoSession, FactoryReturnsDoes, RevivalFailsDoes
<1>8. ASSUME NEW r \in Ref, BuildEnds(r) PROVE RelGoesOn
  BY <1>8, NoneIsNoSession, BuildEndsDoes, RevivalFailsDoes DEF Claims
<1>9. ASSUME NEW r \in Ref, ReviverThrows(r) PROVE RelGoesOn
  BY <1>9, NoneIsNoSession, ReviverThrowsDoes, RevivalFailsDoes
<1>10. ASSUME NEW r \in Ref, ReviveEnds(r) PROVE RelGoesOn
  BY <1>10, NoneIsNoSession, ReviveEndsDoes, RevivalFailsDoes DEF ReviveFails, ReviveLands,
     Dispose
<1>11. ASSUME NEW x \in Releaser, TombstonePersisted(x) PROVE RelGoesOn
  BY <1>11, TombstoneDoes
<1>12. ASSUME NEW x \in Releaser, CleanupEnds(x) PROVE RelGoesOn
  BY <1>12, NoneIsNoSession, CleanupEndsDoes, UnregisterDoes
<1>13. CASE SpawnAttaches
  BY <1>13, NoneIsNoSession, SpawnAttachesDoes, UnregisterDoes DEF SpawnBuilds
<1>14. CASE ProbeEnds
  BY <1>14, NoneIsNoSession DEF ProbeEnds, Unregister, OnRemoved, Corpse
<1>15. CASE TimerFires
  BY <1>15, NoneIsNoSession, TimerFiresDoes
<1>16. ASSUME NEW m \in Message, SameTick, Send(m) PROVE RelGoesOn
  BY <1>16, NoneIsNoSession, SendDoes, ResolveDoes DEF Deliver
<1>17. ASSUME NEW s \in Session, TurnStarts(s) \/ TurnEnds(s) PROVE RelGoesOn
  BY <1>17, NoneIsNoSession, TurnsDo
<1>18. CASE Finalize
  BY <1>18, NoneIsNoSession, FinalizeDoes DEF Dispose
<1>19. CASE FinalizeAborted
  BY <1>19, NoneIsNoSession, FinalizeAbortedDoes DEF RunKilled, RunDropped, Dispose,
     Begins, Releaser
<1>20. ASSUME NEW kill \in BOOLEAN, HubReleases(kill) PROVE RelGoesOn
  BY <1>20, NoneIsNoSession, HubReleasesDoes DEF Begins, Releaser
<1>21. CASE DisposeManager
  BY <1>21, NoneIsNoSession, DisposeManagerDoes DEF TeardownReleases, Begins, Releaser
<1>22. CASE Spawn
  BY <1>22, NoneIsNoSession, NewOnes DEF Spawn
<1>23. CASE Restore
  BY <1>23, NoneIsNoSession, NewOnes DEF Restore, OnRemoved
<1>24. CASE Probe
  BY <1>24, NoneIsNoSession DEF Probe
<1>25. CASE UNCHANGED vars
  BY <1>25, NoneIsNoSession DEF vars
<1>26. CASE OrphanFires
  BY <1>26, NoneIsNoSession, OrphanFiresDoes
<1> QED
  BY <1>1, <1>2, <1>3, <1>4, <1>5, <1>6, <1>7, <1>8, <1>9, <1>10, <1>11, <1>12, <1>13,
     <1>14, <1>15, <1>16, <1>17, <1>18, <1>19, <1>20, <1>21, <1>22, <1>23, <1>24, <1>25, <1>26
     DEF Next, Continuation, IO

\* Before the teardown nothing is released by it.
MainIdle == ~disposed => rel["main"] = None

LEMMA MainStep ==
  ASSUME TypeOK, Tame, ReleaseSteps, [Next]_vars
  PROVE  MainIdle'
<1> USE DEF registry, sessions, manager, callers, senders, history, TypeOK, MainIdle,
        ReleaseSteps, Refs, Sessions, Releaser
<1>1. CASE ParkCommits
  BY <1>1, NoneIsNoSession, ParkCommitsDoes DEF ParkStops, ParkDetaches, Dispose
<1>2. ASSUME NEW m \in Message, Injects(m) PROVE MainIdle'
  BY <1>2, NoneIsNoSession DEF Injects, Deliver
<1>3. ASSUME NEW m \in Message, Kept(m) PROVE MainIdle'
  BY <1>3, NoneIsNoSession, KeptDoes, ResolveDoes
<1>4. ASSUME NEW m \in Message, Parked(m) PROVE MainIdle'
  BY <1>4, NoneIsNoSession, ResolveDoes DEF Parked
<1>5. ASSUME NEW x \in Releaser, ReleaseGoesOn(x) PROVE MainIdle'
  BY <1>5, NoneIsNoSession, ReleaseGoesOnDoes DEF Dispose
<1>6. ASSUME NEW s \in Session, SessionGone(s) PROVE MainIdle'
  BY <1>6, NoneIsNoSession, SessionGoneDoes
<1>7. ASSUME NEW r \in Ref, FactoryReturns(r) PROVE MainIdle'
  BY <1>7, NoneIsNoSession, FactoryReturnsDoes, RevivalFailsDoes
<1>8. ASSUME NEW r \in Ref, BuildEnds(r) PROVE MainIdle'
  BY <1>8, NoneIsNoSession, BuildEndsDoes, RevivalFailsDoes DEF Claims
<1>9. ASSUME NEW r \in Ref, ReviverThrows(r) PROVE MainIdle'
  BY <1>9, NoneIsNoSession, ReviverThrowsDoes, RevivalFailsDoes
<1>10. ASSUME NEW r \in Ref, ReviveEnds(r) PROVE MainIdle'
  BY <1>10, NoneIsNoSession, ReviveEndsDoes, RevivalFailsDoes DEF ReviveFails, ReviveLands,
     Dispose
<1>11. ASSUME NEW x \in Releaser, TombstonePersisted(x) PROVE MainIdle'
  BY <1>11, NoneIsNoSession, TombstoneDoes DEF Dispose
<1>12. ASSUME NEW x \in Releaser, CleanupEnds(x) PROVE MainIdle'
  BY <1>12, NoneIsNoSession, CleanupEndsDoes, UnregisterDoes
<1>13. CASE SpawnAttaches
  BY <1>13, NoneIsNoSession, SpawnAttachesDoes, UnregisterDoes DEF SpawnBuilds
<1>14. CASE ProbeEnds
  BY <1>14, NoneIsNoSession DEF ProbeEnds, Unregister, OnRemoved, Corpse
<1>15. CASE TimerFires
  BY <1>15, NoneIsNoSession, TimerFiresDoes
<1>16. ASSUME NEW m \in Message, SameTick, Send(m) PROVE MainIdle'
  BY <1>16, NoneIsNoSession, SendDoes, ResolveDoes DEF Deliver
<1>17. ASSUME NEW s \in Session, TurnStarts(s) \/ TurnEnds(s) PROVE MainIdle'
  BY <1>17, NoneIsNoSession, TurnsDo
<1>18. CASE Finalize
  BY <1>18, NoneIsNoSession, FinalizeDoes DEF Dispose
<1>19. CASE FinalizeAborted
  BY <1>19, NoneIsNoSession, FinalizeAbortedDoes DEF RunKilled, RunDropped, Dispose,
     Begins, Releaser
<1>20. ASSUME NEW kill \in BOOLEAN, HubReleases(kill) PROVE MainIdle'
  BY <1>20, NoneIsNoSession, HubReleasesDoes DEF Begins, Releaser
<1>21. CASE DisposeManager
  BY <1>21, NoneIsNoSession, DisposeManagerDoes DEF TeardownReleases, Begins, Releaser
<1>22. CASE Spawn
  BY <1>22, NoneIsNoSession, NewOnes DEF Spawn
<1>23. CASE Restore
  BY <1>23, NoneIsNoSession, NewOnes DEF Restore, OnRemoved
<1>24. CASE Probe
  BY <1>24, NoneIsNoSession DEF Probe
<1>25. CASE UNCHANGED vars
  BY <1>25, NoneIsNoSession DEF vars
<1>26. CASE OrphanFires
  BY <1>26, NoneIsNoSession, OrphanFiresDoes
<1> QED
  BY <1>1, <1>2, <1>3, <1>4, <1>5, <1>6, <1>7, <1>8, <1>9, <1>10, <1>11, <1>12, <1>13,
     <1>14, <1>15, <1>16, <1>17, <1>18, <1>19, <1>20, <1>21, <1>22, <1>23, <1>24, <1>25, <1>26
     DEF Next, Continuation, IO

LEMMA ReleaseStepsStep ==
  ASSUME TypeOK, Tame, FreshSessions, Detached, ReleaseSteps, [Next]_vars
  PROVE  ReleaseSteps'
<1> DEFINE Body(y) ==
       /\ rel[y].step = "park" => rel[y].sess = None
       /\ rel[y].step = "persist" => rel[y].kill
       /\ rel[y].step = "dispose" => rel[y].sess # None /\ life[rel[y].sess] \in {"disposing", "gone"}
       /\ rel[y].step = "cleanup" /\ rel[y].sess # None => life[rel[y].sess] = "gone"
       /\ rel[y].kill /\ rel[y].sess # None => status[rel[y].ref] = "aborted"
<1>1. LifeGoesOn /\ AbortedStays /\ RelGoesOn
  BY LifeStep, AbortedStep, RelStep
<1>2. ASSUME NEW y \in Releaser, rel'[y] # None PROVE Body(y)'
  <2>0. rel[y] # None => /\ Body(y) /\ rel[y].ref \in Ref /\ rel[y].sess \in Session \cup {None}
    BY DEF ReleaseSteps, TypeOK, Releases
  <2>1. CASE rel'[y] = rel[y]
    BY <1>1, <1>2, <2>0, <2>1 DEF LifeGoesOn, AbortedStays
  <2>2. CASE rel[y] = None /\ rel'[y].step = "park" /\ rel'[y].sess = None
    BY <2>2
  <2>3. CASE ReleaseGoesOn(y)
    <3>1. reg = rel[y].ref /\ att[reg] # None => att[reg] \in Session /\ life[att[reg]] # "none"
      BY <2>0, <2>3, ReleaseGoesOnDoes DEF TypeOK, Sessions, FreshSessions
    <3>2. CASE rel[y].kill
      BY <2>0, <2>3, <3>1, <3>2, ReleaseGoesOnDoes DEF TypeOK
    <3>3. CASE ~rel[y].kill
      BY <2>0, <2>3, <3>1, <3>3, ReleaseGoesOnDoes DEF TypeOK, Dispose
    <3> QED BY <3>2, <3>3
  <2>4. CASE TombstonePersisted(y)
    <3>1. rel[y].sess # None => life[rel[y].sess] # "none"
      BY <2>0, <2>4, TombstoneDoes DEF FreshSessions
    <3> QED BY <2>0, <2>4, <3>1, TombstoneDoes DEF TypeOK, Dispose, registry
  <2>5. CASE /\ rel[y] # None /\ rel[y].step = "dispose" /\ rel'[y].step = "cleanup"
             /\ rel'[y].ref = rel[y].ref /\ rel'[y].kill = rel[y].kill
             /\ rel'[y].sess = rel[y].sess /\ life'[rel[y].sess] = "gone"
    BY <1>1, <2>0, <2>5 DEF AbortedStays
  <2> QED BY <1>1, <1>2, <2>1, <2>2, <2>3, <2>4, <2>5 DEF RelGoesOn
<1>3. (~disposed => rel["main"] = None)'
  BY MainStep DEF MainIdle
<1> QED BY <1>2, <1>3 DEF ReleaseSteps

\* A release keeps the session it holds until the session is gone.
HeldStays ==
    \A y \in Releaser :
        rel[y] # None /\ rel[y].sess # None /\ life[rel[y].sess] # "gone"
          => rel'[y] # None /\ rel'[y].sess = rel[y].sess

\* Only the continuation of a kill marks a ref aborted.
KillsOnly ==
    \A r \in Ref :
        status[r] # "aborted" /\ status'[r] = "aborted"
          => \E x \in Releaser : ReleaseGoesOn(x) /\ rel[x].kill /\ rel[x].ref = r /\ reg = r

\* A new session is attached to the ref the id leads to.
BornAttached ==
    \A s \in Session : life[s] = "none" /\ life'[s] # "none" =>
        /\ reg \in Ref /\ reg' = reg /\ own'[s] = reg /\ att'[reg] = s
        /\ status'[reg] = "running"

LEMMA HeldStep ==
  ASSUME TypeOK, Tame, ReleaseSteps, [Next]_vars
  PROVE  HeldStays
<1> USE DEF registry, sessions, manager, callers, senders, history, TypeOK, Refs, Sessions,
        HeldStays, ReleaseSteps
<1>1. CASE ParkCommits
  BY <1>1, NoneIsNoSession, ParkCommitsDoes DEF ParkStops, ParkDetaches, Dispose
<1>2. ASSUME NEW m \in Message, Injects(m) PROVE HeldStays
  BY <1>2, NoneIsNoSession DEF Injects, Deliver
<1>3. ASSUME NEW m \in Message, Kept(m) PROVE HeldStays
  BY <1>3, NoneIsNoSession, KeptDoes, ResolveDoes
<1>4. ASSUME NEW m \in Message, Parked(m) PROVE HeldStays
  BY <1>4, NoneIsNoSession, ResolveDoes DEF Parked
<1>5. ASSUME NEW x \in Releaser, ReleaseGoesOn(x) PROVE HeldStays
  BY <1>5, NoneIsNoSession, ReleaseGoesOnDoes DEF Dispose
<1>6. ASSUME NEW s \in Session, SessionGone(s) PROVE HeldStays
  BY <1>6, NoneIsNoSession, SessionGoneDoes
<1>7. ASSUME NEW r \in Ref, FactoryReturns(r) PROVE HeldStays
  BY <1>7, NoneIsNoSession, FactoryReturnsDoes, RevivalFailsDoes
<1>8. ASSUME NEW r \in Ref, BuildEnds(r) PROVE HeldStays
  BY <1>8, NoneIsNoSession, BuildEndsDoes, RevivalFailsDoes DEF Claims
<1>9. ASSUME NEW r \in Ref, ReviverThrows(r) PROVE HeldStays
  BY <1>9, NoneIsNoSession, ReviverThrowsDoes, RevivalFailsDoes
<1>10. ASSUME NEW r \in Ref, ReviveEnds(r) PROVE HeldStays
  BY <1>10, NoneIsNoSession, ReviveEndsDoes, RevivalFailsDoes DEF ReviveFails, ReviveLands,
     Dispose
<1>11. ASSUME NEW x \in Releaser, TombstonePersisted(x) PROVE HeldStays
  BY <1>11, NoneIsNoSession, TombstoneDoes DEF Dispose
<1>12. ASSUME NEW x \in Releaser, CleanupEnds(x) PROVE HeldStays
  BY <1>12, NoneIsNoSession, CleanupEndsDoes, UnregisterDoes
<1>13. CASE SpawnAttaches
  BY <1>13, NoneIsNoSession, SpawnAttachesDoes, UnregisterDoes DEF SpawnBuilds
<1>14. CASE ProbeEnds
  BY <1>14, NoneIsNoSession DEF ProbeEnds, Unregister, OnRemoved, Corpse
<1>15. CASE TimerFires
  BY <1>15, NoneIsNoSession, TimerFiresDoes
<1>16. ASSUME NEW m \in Message, SameTick, Send(m) PROVE HeldStays
  BY <1>16, NoneIsNoSession, SendDoes, ResolveDoes DEF Deliver
<1>17. ASSUME NEW s \in Session, TurnStarts(s) \/ TurnEnds(s) PROVE HeldStays
  BY <1>17, NoneIsNoSession, TurnsDo
<1>18. CASE Finalize
  BY <1>18, NoneIsNoSession, FinalizeDoes DEF Dispose
<1>19. CASE FinalizeAborted
  BY <1>19, NoneIsNoSession, FinalizeAbortedDoes DEF RunKilled, RunDropped, Dispose,
     Begins, Releaser
<1>20. ASSUME NEW kill \in BOOLEAN, HubReleases(kill) PROVE HeldStays
  BY <1>20, NoneIsNoSession, HubReleasesDoes DEF Begins, Releaser
<1>21. CASE DisposeManager
  BY <1>21, NoneIsNoSession, DisposeManagerDoes DEF TeardownReleases, Begins, Releaser
<1>22. CASE Spawn
  BY <1>22, NoneIsNoSession, NewOnes DEF Spawn
<1>23. CASE Restore
  BY <1>23, NoneIsNoSession, NewOnes DEF Restore, OnRemoved
<1>24. CASE Probe
  BY <1>24, NoneIsNoSession DEF Probe
<1>25. CASE UNCHANGED vars
  BY <1>25, NoneIsNoSession DEF vars
<1>26. CASE OrphanFires
  BY <1>26, NoneIsNoSession, OrphanFiresDoes
<1> QED
  BY <1>1, <1>2, <1>3, <1>4, <1>5, <1>6, <1>7, <1>8, <1>9, <1>10, <1>11, <1>12, <1>13,
     <1>14, <1>15, <1>16, <1>17, <1>18, <1>19, <1>20, <1>21, <1>22, <1>23, <1>24, <1>25, <1>26
     DEF Next, Continuation, IO

LEMMA KillsStep ==
  ASSUME TypeOK, Tame, Detached, [Next]_vars
  PROVE  KillsOnly
<1> USE DEF registry, sessions, manager, callers, senders, history, TypeOK, Refs, Sessions,
        KillsOnly, Detached
<1>1. CASE ParkCommits
  BY <1>1, NoneIsNoSession, ParkCommitsDoes DEF ParkStops, ParkDetaches, Dispose
<1>2. ASSUME NEW m \in Message, Injects(m) PROVE KillsOnly
  BY <1>2, NoneIsNoSession DEF Injects, Deliver
<1>3. ASSUME NEW m \in Message, Kept(m) PROVE KillsOnly
  BY <1>3, NoneIsNoSession, KeptDoes, ResolveDoes
<1>4. ASSUME NEW m \in Message, Parked(m) PROVE KillsOnly
  BY <1>4, NoneIsNoSession, ResolveDoes DEF Parked
<1>5. ASSUME NEW x \in Releaser, ReleaseGoesOn(x) PROVE KillsOnly
  <2>1. CASE rel[x].kill
    BY <1>5, <2>1, ReleaseGoesOnDoes
  <2>2. CASE ~rel[x].kill
    BY <1>5, <2>2, ReleaseGoesOnDoes
  <2> QED BY <2>1, <2>2
<1>6. ASSUME NEW s \in Session, SessionGone(s) PROVE KillsOnly
  BY <1>6, NoneIsNoSession, SessionGoneDoes
<1>7. ASSUME NEW r \in Ref, FactoryReturns(r) PROVE KillsOnly
  BY <1>7, NoneIsNoSession, FactoryReturnsDoes, RevivalFailsDoes
<1>8. ASSUME NEW r \in Ref, BuildEnds(r) PROVE KillsOnly
  BY <1>8, NoneIsNoSession, BuildEndsDoes, RevivalFailsDoes DEF Claims
<1>9. ASSUME NEW r \in Ref, ReviverThrows(r) PROVE KillsOnly
  BY <1>9, NoneIsNoSession, ReviverThrowsDoes, RevivalFailsDoes
<1>10. ASSUME NEW r \in Ref, ReviveEnds(r) PROVE KillsOnly
  BY <1>10, NoneIsNoSession, ReviveEndsDoes, RevivalFailsDoes DEF ReviveFails, ReviveLands,
     Dispose
<1>11. ASSUME NEW x \in Releaser, TombstonePersisted(x) PROVE KillsOnly
  BY <1>11, NoneIsNoSession, TombstoneDoes DEF Dispose
<1>12. ASSUME NEW x \in Releaser, CleanupEnds(x) PROVE KillsOnly
  BY <1>12, NoneIsNoSession, CleanupEndsDoes, UnregisterDoes
<1>13. CASE SpawnAttaches
  BY <1>13, NoneIsNoSession, SpawnAttachesDoes, UnregisterDoes DEF SpawnBuilds
<1>14. CASE ProbeEnds
  BY <1>14, NoneIsNoSession DEF ProbeEnds, Unregister, OnRemoved, Corpse
<1>15. CASE TimerFires
  BY <1>15, NoneIsNoSession, TimerFiresDoes
<1>16. ASSUME NEW m \in Message, SameTick, Send(m) PROVE KillsOnly
  BY <1>16, NoneIsNoSession, SendDoes, ResolveDoes DEF Deliver
<1>17. ASSUME NEW s \in Session, TurnStarts(s) \/ TurnEnds(s) PROVE KillsOnly
  BY <1>17, NoneIsNoSession, TurnsDo
<1>18. CASE Finalize
  BY <1>18, NoneIsNoSession, FinalizeDoes DEF Dispose
<1>19. CASE FinalizeAborted
  BY <1>19, NoneIsNoSession, FinalizeAbortedDoes DEF RunKilled, RunDropped, Dispose,
     Begins, Releaser
<1>20. ASSUME NEW kill \in BOOLEAN, HubReleases(kill) PROVE KillsOnly
  BY <1>20, NoneIsNoSession, HubReleasesDoes DEF Begins, Releaser
<1>21. CASE DisposeManager
  BY <1>21, NoneIsNoSession, DisposeManagerDoes DEF TeardownReleases, Begins, Releaser
<1>22. CASE Spawn
  BY <1>22, NoneIsNoSession, NewOnes DEF Spawn
<1>23. CASE Restore
  BY <1>23, NoneIsNoSession, NewOnes DEF Restore, OnRemoved
<1>24. CASE Probe
  BY <1>24, NoneIsNoSession DEF Probe
<1>25. CASE UNCHANGED vars
  BY <1>25, NoneIsNoSession DEF vars
<1>26. CASE OrphanFires
  BY <1>26, NoneIsNoSession, OrphanFiresDoes
<1> QED
  BY <1>1, <1>2, <1>3, <1>4, <1>5, <1>6, <1>7, <1>8, <1>9, <1>10, <1>11, <1>12, <1>13,
     <1>14, <1>15, <1>16, <1>17, <1>18, <1>19, <1>20, <1>21, <1>22, <1>23, <1>24, <1>25, <1>26
     DEF Next, Continuation, IO

LEMMA BornStep ==
  ASSUME TypeOK, Tame, Constructs, [Next]_vars
  PROVE  BornAttached
<1> USE DEF registry, sessions, manager, callers, senders, history, TypeOK, Refs, Sessions,
        BornAttached, Constructs
<1>1. CASE ParkCommits
  BY <1>1, NoneIsNoSession, ParkCommitsDoes DEF ParkStops, ParkDetaches, Dispose
<1>2. ASSUME NEW m \in Message, Injects(m) PROVE BornAttached
  BY <1>2, NoneIsNoSession DEF Injects, Deliver
<1>3. ASSUME NEW m \in Message, Kept(m) PROVE BornAttached
  BY <1>3, NoneIsNoSession, KeptDoes, ResolveDoes
<1>4. ASSUME NEW m \in Message, Parked(m) PROVE BornAttached
  BY <1>4, NoneIsNoSession, ResolveDoes DEF Parked
<1>5. ASSUME NEW x \in Releaser, ReleaseGoesOn(x) PROVE BornAttached
  BY <1>5, NoneIsNoSession, ReleaseGoesOnDoes DEF Dispose
<1>6. ASSUME NEW s \in Session, SessionGone(s) PROVE BornAttached
  BY <1>6, NoneIsNoSession, SessionGoneDoes
<1>7. ASSUME NEW r \in Ref, FactoryReturns(r) PROVE BornAttached
  BY <1>7, NoneIsNoSession, FactoryReturnsDoes, RevivalFailsDoes
<1>8. ASSUME NEW r \in Ref, BuildEnds(r) PROVE BornAttached
  <2>1. /\ Quiet /\ rev[r] # None /\ rev[r].step = "build"
        /\ NewSession \in Session /\ life[NewSession] = "none"
        /\ UNCHANGED <<reg, turn, synced, park, disposed, rel, callers, history>>
    BY <1>8, BuildEndsDoes
  <2>2. CASE Claims(r)
    BY <2>1, <2>2, NoneIsNoSession DEF Claims
  <2>3. CASE ~Claims(r)
    BY <1>8, <2>1, <2>3, NoneIsNoSession, BuildEndsDoes, RevivalFailsDoes
  <2> QED BY <2>2, <2>3
<1>9. ASSUME NEW r \in Ref, ReviverThrows(r) PROVE BornAttached
  BY <1>9, NoneIsNoSession, ReviverThrowsDoes, RevivalFailsDoes
<1>10. ASSUME NEW r \in Ref, ReviveEnds(r) PROVE BornAttached
  BY <1>10, NoneIsNoSession, ReviveEndsDoes, RevivalFailsDoes DEF ReviveFails, ReviveLands,
     Dispose
<1>11. ASSUME NEW x \in Releaser, TombstonePersisted(x) PROVE BornAttached
  BY <1>11, NoneIsNoSession, TombstoneDoes DEF Dispose
<1>12. ASSUME NEW x \in Releaser, CleanupEnds(x) PROVE BornAttached
  BY <1>12, NoneIsNoSession, CleanupEndsDoes, UnregisterDoes
<1>13. CASE SpawnAttaches
  <2>1. /\ Quiet /\ con \in Ref /\ con' = None
        /\ NewSession \in Session /\ life[NewSession] = "none"
        /\ UNCHANGED <<status, park, rev, revivals, disposed, rel, probe, senders, history>>
    BY <1>13, SpawnAttachesDoes
  <2>2. CASE SpawnBuilds
    BY <2>1, <2>2, NoneIsNoSession DEF SpawnBuilds
  <2>3. CASE reg = con /\ Unregister(con) /\ UNCHANGED <<sessions, att, run>>
    <3>1. reg' = None /\ adopted' \in {adopted, None}
      BY <2>1, <2>3, UnregisterDoes
    <3> QED BY <2>1, <2>3, <3>1, NoneIsNoSession
  <2>4. CASE /\ ~(reg = con /\ status[con] # "aborted")
             /\ UNCHANGED <<reg, adopted, sessions, att, run>>
    BY <2>1, <2>4, NoneIsNoSession
  <2> QED BY <1>13, <2>2, <2>3, <2>4, SpawnAttachesDoes
<1>14. CASE ProbeEnds
  BY <1>14, NoneIsNoSession DEF ProbeEnds, Unregister, OnRemoved, Corpse
<1>15. CASE TimerFires
  BY <1>15, NoneIsNoSession, TimerFiresDoes
<1>16. ASSUME NEW m \in Message, SameTick, Send(m) PROVE BornAttached
  BY <1>16, NoneIsNoSession, SendDoes, ResolveDoes DEF Deliver
<1>17. ASSUME NEW s \in Session, TurnStarts(s) \/ TurnEnds(s) PROVE BornAttached
  BY <1>17, NoneIsNoSession, TurnsDo
<1>18. CASE Finalize
  BY <1>18, NoneIsNoSession, FinalizeDoes DEF Dispose
<1>19. CASE FinalizeAborted
  <2>1. /\ Quiet /\ run # None /\ run.sess \in Session /\ run' = None /\ rel["exec"] = None
        /\ UNCHANGED <<registry, own, turn, synced, rev, revivals, disposed, con, probe,
                       senders, history>>
    BY <1>19, FinalizeAbortedDoes
  <2>2. CASE RunKilled
    BY <2>1, <2>2, NoneIsNoSession DEF RunKilled, Begins, Releaser
  <2>3. CASE RunDropped
    BY <2>1, <2>3, NoneIsNoSession DEF RunDropped, Dispose
  <2> QED BY <1>19, <2>2, <2>3, FinalizeAbortedDoes
<1>20. ASSUME NEW kill \in BOOLEAN, HubReleases(kill) PROVE BornAttached
  BY <1>20, NoneIsNoSession, HubReleasesDoes DEF Begins, Releaser
<1>21. CASE DisposeManager
  BY <1>21, NoneIsNoSession, DisposeManagerDoes DEF TeardownReleases, Begins, Releaser
<1>22. CASE Spawn
  BY <1>22, NoneIsNoSession, NewOnes DEF Spawn
<1>23. CASE Restore
  BY <1>23, NoneIsNoSession, NewOnes DEF Restore, OnRemoved
<1>24. CASE Probe
  BY <1>24, NoneIsNoSession DEF Probe
<1>25. CASE UNCHANGED vars
  BY <1>25, NoneIsNoSession DEF vars
<1>26. CASE OrphanFires
  BY <1>26, NoneIsNoSession, OrphanFiresDoes
<1> QED
  BY <1>1, <1>2, <1>3, <1>4, <1>5, <1>6, <1>7, <1>8, <1>9, <1>10, <1>11, <1>12, <1>13,
     <1>14, <1>15, <1>16, <1>17, <1>18, <1>19, <1>20, <1>21, <1>22, <1>23, <1>24, <1>25, <1>26
     DEF Next, Continuation, IO

(***************************************************************************)
(* Where the live and the disposing sessions are.                          *)
(***************************************************************************)
LEMMA CurrentStep ==
  ASSUME TypeOK, Tame, FreshRefs, FreshSessions, Owned, Detached, Constructs, Revives,
         ReleaseSteps, Current, [Next]_vars
  PROVE  Current'
<1> USE DEF registry, sessions, manager, callers, senders, history, TypeOK, Refs, Sessions,
        Attached, FreshRefs, FreshSessions, Owned, Detached, Constructs, Revives,
        ReleaseSteps, Current
<1>1. CASE ParkCommits
  <2>1. /\ park # None /\ park.step = "yield"
        /\ UNCHANGED <<reg, own, turn, synced, adopted, rev, revivals, disposed, rel,
                       callers, senders, history>>
    BY <1>1, ParkCommitsDoes
  <2>2. CASE ParkStops
    BY <2>1, <2>2, NoneIsNoSession DEF ParkStops
  <2>3. CASE ParkDetaches
    BY <2>1, <2>3, NoneIsNoSession DEF ParkDetaches, Dispose, Parks
  <2> QED BY <1>1, <2>2, <2>3, ParkCommitsDoes
<1>2. ASSUME NEW m \in Message, Injects(m) PROVE Current'
  BY <1>2, NoneIsNoSession DEF Injects, Deliver
<1>3. ASSUME NEW m \in Message, Kept(m) PROVE Current'
  BY <1>3, NoneIsNoSession, KeptDoes, ResolveDoes
<1>4. ASSUME NEW m \in Message, Parked(m) PROVE Current'
  BY <1>4, NoneIsNoSession, ResolveDoes DEF Parked
<1>5. ASSUME NEW x \in Releaser, ReleaseGoesOn(x) PROVE Current'
  BY <1>5, NoneIsNoSession, ReleaseGoesOnDoes DEF Dispose
<1>6. ASSUME NEW s \in Session, SessionGone(s) PROVE Current'
  <2>1. /\ life[s] = "disposing"
        /\ life' = [life EXCEPT ![s] = "gone"]
        /\ run' = None <=> run = None
        /\ run # None => run'.sess = run.sess
        /\ park' = IF park # None /\ park.sess = s THEN None ELSE park
        /\ UNCHANGED <<status, att, own, synced, rev, revivals, disposed, con, probe,
                       senders, history>>
    BY <1>6, SessionGoneDoes
  <2>2. CASE reg' = reg /\ adopted' = adopted
    BY <2>1, <2>2, NoneIsNoSession
  <2>3. CASE reg' = None /\ adopted' \in {adopted, None}
    BY <2>1, <2>3, NoneIsNoSession
  <2> QED BY <1>6, <2>2, <2>3, SessionGoneDoes
<1>7. ASSUME NEW r \in Ref, FactoryReturns(r) PROVE Current'
  BY <1>7, NoneIsNoSession, FactoryReturnsDoes, RevivalFailsDoes
<1>8. ASSUME NEW r \in Ref, BuildEnds(r) PROVE Current'
  <2>1. /\ Quiet /\ rev[r] # None /\ rev[r].step = "build"
        /\ NewSession \in Session /\ life[NewSession] = "none"
        /\ UNCHANGED <<reg, turn, synced, park, disposed, rel, callers, history>>
    BY <1>8, BuildEndsDoes
  <2>2. CASE Claims(r)
    BY <2>1, <2>2, NoneIsNoSession DEF Claims
  <2>3. CASE ~Claims(r)
    BY <1>8, <2>1, <2>3, NoneIsNoSession, BuildEndsDoes, RevivalFailsDoes
  <2> QED BY <2>2, <2>3
<1>9. ASSUME NEW r \in Ref, ReviverThrows(r) PROVE Current'
  BY <1>9, NoneIsNoSession, ReviverThrowsDoes, RevivalFailsDoes
<1>10. ASSUME NEW r \in Ref, ReviveEnds(r) PROVE Current'
  <2>1. /\ Quiet /\ rev[r] # None /\ rev[r].step = "claimed" /\ rev[r].sess \in Session
        /\ synced' = [synced EXCEPT ![rev[r].sess] = TRUE]
        /\ UNCHANGED <<reg, att, own, turn, park, disposed, rel, callers, history>>
    BY <1>10, ReviveEndsDoes
  <2>2. CASE ReviveFails(r)
    <3>1. /\ rev' = [rev EXCEPT ![r] = None]
          /\ \A m \in Message : \/ pc'[m] = pc[m] /\ arg'[m] = arg[m]
                                \/ pc[m] = "revive" /\ pc'[m] = "failed" /\ arg'[m] = None
      BY <2>2, RevivalFailsDoes DEF ReviveFails
    <3> QED BY <2>1, <2>2, <3>1, NoneIsNoSession DEF ReviveFails, Dispose
  <2>3. CASE ReviveLands(r)
    BY <2>1, <2>3, NoneIsNoSession DEF ReviveLands
  <2> QED BY <1>10, <2>2, <2>3, ReviveEndsDoes
<1>11. ASSUME NEW x \in Releaser, TombstonePersisted(x) PROVE Current'
  BY <1>11, NoneIsNoSession, TombstoneDoes DEF Dispose
<1>12. ASSUME NEW x \in Releaser, CleanupEnds(x) PROVE Current'
  BY <1>12, NoneIsNoSession, CleanupEndsDoes, UnregisterDoes
<1>13. CASE SpawnAttaches
  <2>1. /\ Quiet /\ con \in Ref /\ con' = None
        /\ NewSession \in Session /\ life[NewSession] = "none"
        /\ UNCHANGED <<status, park, rev, revivals, disposed, rel, probe, senders, history>>
    BY <1>13, SpawnAttachesDoes
  <2>2. CASE SpawnBuilds
    BY <2>1, <2>2, NoneIsNoSession DEF SpawnBuilds
  <2>3. CASE reg = con /\ Unregister(con) /\ UNCHANGED <<sessions, att, run>>
    <3>1. reg' = None /\ adopted' \in {adopted, None}
      BY <2>1, <2>3, UnregisterDoes
    <3> QED BY <2>1, <2>3, <3>1, NoneIsNoSession
  <2>4. CASE /\ ~(reg = con /\ status[con] # "aborted")
             /\ UNCHANGED <<reg, adopted, sessions, att, run>>
    BY <2>1, <2>4, NoneIsNoSession
  <2> QED BY <1>13, <2>2, <2>3, <2>4, SpawnAttachesDoes
<1>14. CASE ProbeEnds
  BY <1>14, NoneIsNoSession DEF ProbeEnds, Unregister, OnRemoved, Corpse
<1>15. CASE TimerFires
  BY <1>15, NoneIsNoSession, TimerFiresDoes
<1>16. ASSUME NEW m \in Message, SameTick, Send(m) PROVE Current'
  BY <1>16, NoneIsNoSession, SendDoes, ResolveDoes DEF Deliver
<1>17. ASSUME NEW s \in Session, TurnStarts(s) \/ TurnEnds(s) PROVE Current'
  BY <1>17, NoneIsNoSession, TurnsDo
<1>18. CASE Finalize
  BY <1>18, NoneIsNoSession, FinalizeDoes DEF Dispose
<1>19. CASE FinalizeAborted
  <2>1. /\ Quiet /\ run # None /\ run.sess \in Session /\ run' = None /\ rel["exec"] = None
        /\ UNCHANGED <<registry, own, turn, synced, rev, revivals, disposed, con, probe,
                       senders, history>>
    BY <1>19, FinalizeAbortedDoes
  <2>2. CASE RunKilled
    BY <2>1, <2>2, NoneIsNoSession DEF RunKilled, Begins, Releaser
  <2>3. CASE RunDropped
    BY <2>1, <2>3, NoneIsNoSession DEF RunDropped, Dispose
  <2> QED BY <1>19, <2>2, <2>3, FinalizeAbortedDoes
<1>20. ASSUME NEW kill \in BOOLEAN, HubReleases(kill) PROVE Current'
  BY <1>20, NoneIsNoSession, HubReleasesDoes DEF Begins, Releaser
<1>21. CASE DisposeManager
  <2>1. /\ Quiet /\ ~disposed /\ disposed' = TRUE
        /\ UNCHANGED <<registry, sessions, rev, callers, senders, history>>
    BY <1>21, DisposeManagerDoes
  <2>2. CASE TeardownReleases /\ UNCHANGED revivals
    BY <2>1, <2>2, NoneIsNoSession DEF TeardownReleases, Begins, Releaser
  <2>3. CASE revivals' = None /\ UNCHANGED <<adopted, park, rel>>
    BY <2>1, <2>3, NoneIsNoSession
  <2> QED BY <1>21, <2>2, <2>3, DisposeManagerDoes
<1>22. CASE Spawn
  BY <1>22, NoneIsNoSession, NewOnes DEF Spawn
<1>23. CASE Restore
  BY <1>23, NoneIsNoSession, NewOnes DEF Restore, OnRemoved
<1>24. CASE Probe
  BY <1>24, NoneIsNoSession DEF Probe
<1>25. CASE UNCHANGED vars
  BY <1>25, NoneIsNoSession DEF vars
<1>26. CASE OrphanFires
  BY <1>26, NoneIsNoSession, OrphanFiresDoes
<1> QED
  BY <1>1, <1>2, <1>3, <1>4, <1>5, <1>6, <1>7, <1>8, <1>9, <1>10, <1>11, <1>12, <1>13,
     <1>14, <1>15, <1>16, <1>17, <1>18, <1>19, <1>20, <1>21, <1>22, <1>23, <1>24, <1>25, <1>26
     DEF Next, Continuation, IO

LEMMA KilledStep ==
  ASSUME TypeOK, Tame, FreshSessions, Owned, Detached, Constructs, ReleaseSteps, Current, Killed, [Next]_vars
  PROVE  Killed'
<1> SUFFICES ASSUME NEW s \in Session, life'[s] = "live", status'[own'[s]] = "aborted"
             PROVE  \E x \in Releaser : rel'[x] # None /\ rel'[x].sess = s
  BY DEF Killed
<1>1. LifeGoesOn /\ HeldStays /\ KillsOnly /\ BornAttached
  BY LifeStep, HeldStep, KillsStep, BornStep
<1>2. life[s] # "none"
  BY <1>1 DEF BornAttached
<1>3. life[s] = "live" /\ own'[s] = own[s] /\ own[s] \in Ref
  BY <1>1, <1>2 DEF LifeGoesOn, Owned, TypeOK, Refs
<1>4. CASE status[own[s]] = "aborted"
  <2>1. PICK x \in Releaser : rel[x] # None /\ rel[x].sess = s
    BY <1>3, <1>4 DEF Killed
  <2> QED BY <1>1, <1>3, <2>1, NoneIsNoSession DEF HeldStays
<1>5. CASE status[own[s]] # "aborted"
  <2>1. PICK x \in Releaser : ReleaseGoesOn(x) /\ rel[x].kill /\ rel[x].ref = own[s] /\ reg = own[s]
    BY <1>1, <1>3, <1>5 DEF KillsOnly
  <2>2. att[reg] = s
    BY <1>3, <1>5, <2>1, NoneIsNoSession DEF Current
  <2>3. rel'[x] # None /\ rel'[x].sess = s
    BY <2>1, <2>2, ReleaseGoesOnDoes
  <2> QED BY <2>3
<1> QED BY <1>4, <1>5

LEMMA DesertedStep ==
  ASSUME TypeOK, Tame, [Next]_vars
  PROVE  (Deserted => Deserted')
<1> USE DEF registry, sessions, manager, callers, senders, history, TypeOK, Refs, Sessions,
        Deserted
<1>1. CASE ParkCommits
  BY <1>1, NoneIsNoSession, ParkCommitsDoes DEF ParkStops, ParkDetaches, Dispose
<1>2. ASSUME NEW m \in Message, Injects(m) PROVE (Deserted => Deserted')
  BY <1>2, NoneIsNoSession DEF Injects, Deliver
<1>3. ASSUME NEW m \in Message, Kept(m) PROVE (Deserted => Deserted')
  BY <1>3, NoneIsNoSession, KeptDoes, ResolveDoes
<1>4. ASSUME NEW m \in Message, Parked(m) PROVE (Deserted => Deserted')
  BY <1>4, NoneIsNoSession, ResolveDoes DEF Parked
<1>5. ASSUME NEW x \in Releaser, ReleaseGoesOn(x) PROVE (Deserted => Deserted')
  BY <1>5, NoneIsNoSession, ReleaseGoesOnDoes DEF Dispose
<1>6. ASSUME NEW s \in Session, SessionGone(s) PROVE (Deserted => Deserted')
  BY <1>6, NoneIsNoSession, SessionGoneDoes
<1>7. ASSUME NEW r \in Ref, FactoryReturns(r) PROVE (Deserted => Deserted')
  BY <1>7, NoneIsNoSession, FactoryReturnsDoes, RevivalFailsDoes
<1>8. ASSUME NEW r \in Ref, BuildEnds(r) PROVE (Deserted => Deserted')
  BY <1>8, NoneIsNoSession, BuildEndsDoes, RevivalFailsDoes DEF Claims
<1>9. ASSUME NEW r \in Ref, ReviverThrows(r) PROVE (Deserted => Deserted')
  BY <1>9, NoneIsNoSession, ReviverThrowsDoes, RevivalFailsDoes
<1>10. ASSUME NEW r \in Ref, ReviveEnds(r) PROVE (Deserted => Deserted')
  BY <1>10, NoneIsNoSession, ReviveEndsDoes, RevivalFailsDoes DEF ReviveFails, ReviveLands,
     Dispose
<1>11. ASSUME NEW x \in Releaser, TombstonePersisted(x) PROVE (Deserted => Deserted')
  BY <1>11, NoneIsNoSession, TombstoneDoes DEF Dispose
<1>12. ASSUME NEW x \in Releaser, CleanupEnds(x) PROVE (Deserted => Deserted')
  BY <1>12, NoneIsNoSession, CleanupEndsDoes, UnregisterDoes
<1>13. CASE SpawnAttaches
  BY <1>13, NoneIsNoSession, SpawnAttachesDoes, UnregisterDoes DEF SpawnBuilds
<1>14. CASE ProbeEnds
  BY <1>14, NoneIsNoSession DEF ProbeEnds, Unregister, OnRemoved, Corpse
<1>15. CASE TimerFires
  BY <1>15, NoneIsNoSession, TimerFiresDoes
<1>16. ASSUME NEW m \in Message, SameTick, Send(m) PROVE (Deserted => Deserted')
  BY <1>16, NoneIsNoSession, SendDoes, ResolveDoes DEF Deliver
<1>17. ASSUME NEW s \in Session, TurnStarts(s) \/ TurnEnds(s) PROVE (Deserted => Deserted')
  BY <1>17, NoneIsNoSession, TurnsDo
<1>18. CASE Finalize
  BY <1>18, NoneIsNoSession, FinalizeDoes DEF Dispose
<1>19. CASE FinalizeAborted
  BY <1>19, NoneIsNoSession, FinalizeAbortedDoes DEF RunKilled, RunDropped, Dispose,
     Begins, Releaser
<1>20. ASSUME NEW kill \in BOOLEAN, HubReleases(kill) PROVE (Deserted => Deserted')
  BY <1>20, NoneIsNoSession, HubReleasesDoes DEF Begins, Releaser
<1>21. CASE DisposeManager
  BY <1>21, NoneIsNoSession, DisposeManagerDoes DEF TeardownReleases, Begins, Releaser
<1>22. CASE Spawn
  BY <1>22, NoneIsNoSession, NewOnes DEF Spawn
<1>23. CASE Restore
  BY <1>23, NoneIsNoSession, NewOnes DEF Restore, OnRemoved
<1>24. CASE Probe
  BY <1>24, NoneIsNoSession DEF Probe
<1>25. CASE UNCHANGED vars
  BY <1>25, NoneIsNoSession DEF vars
<1>26. CASE OrphanFires
  BY <1>26, NoneIsNoSession, OrphanFiresDoes
<1> QED
  BY <1>1, <1>2, <1>3, <1>4, <1>5, <1>6, <1>7, <1>8, <1>9, <1>10, <1>11, <1>12, <1>13,
     <1>14, <1>15, <1>16, <1>17, <1>18, <1>19, <1>20, <1>21, <1>22, <1>23, <1>24, <1>25, <1>26
     DEF Next, Continuation, IO

LEMMA AccountedStep ==
  ASSUME TypeOK, Tame, FreshRefs, FreshSessions, Owned, Detached, Constructs, Revives,
         ReleaseSteps, Current, Killed, SessionsAccounted, [Next]_vars
  PROVE  SessionsAccounted'
<1> USE DEF registry, sessions, manager, callers, senders, history, TypeOK, Refs, Sessions,
        Attached, FreshRefs, FreshSessions, Owned, Detached, Constructs, Revives,
        ReleaseSteps, Current, Killed, SessionsAccounted
<1>1. CASE ParkCommits
  <2>1. /\ park # None /\ park.step = "yield"
        /\ UNCHANGED <<reg, own, turn, synced, adopted, rev, revivals, disposed, rel,
                       callers, senders, history>>
    BY <1>1, ParkCommitsDoes
  <2>2. CASE ParkStops
    BY <2>1, <2>2, NoneIsNoSession DEF ParkStops
  <2>3. CASE ParkDetaches
    BY <2>1, <2>3, NoneIsNoSession DEF ParkDetaches, Dispose, Parks
  <2> QED BY <1>1, <2>2, <2>3, ParkCommitsDoes
<1>2. ASSUME NEW m \in Message, Injects(m) PROVE SessionsAccounted'
  BY <1>2, NoneIsNoSession DEF Injects, Deliver
<1>3. ASSUME NEW m \in Message, Kept(m) PROVE SessionsAccounted'
  BY <1>3, NoneIsNoSession, KeptDoes, ResolveDoes
<1>4. ASSUME NEW m \in Message, Parked(m) PROVE SessionsAccounted'
  BY <1>4, NoneIsNoSession, ResolveDoes DEF Parked
<1>5. ASSUME NEW x \in Releaser, ReleaseGoesOn(x) PROVE SessionsAccounted'
  BY <1>5, NoneIsNoSession, ReleaseGoesOnDoes DEF Dispose
<1>6. ASSUME NEW s \in Session, SessionGone(s) PROVE SessionsAccounted'
  BY <1>6, NoneIsNoSession, SessionGoneDoes
<1>7. ASSUME NEW r \in Ref, FactoryReturns(r) PROVE SessionsAccounted'
  BY <1>7, NoneIsNoSession, FactoryReturnsDoes, RevivalFailsDoes
<1>8. ASSUME NEW r \in Ref, BuildEnds(r) PROVE SessionsAccounted'
  <2>1. /\ Quiet /\ rev[r] # None /\ rev[r].step = "build"
        /\ NewSession \in Session /\ life[NewSession] = "none"
        /\ UNCHANGED <<reg, turn, synced, park, disposed, rel, callers, history>>
    BY <1>8, BuildEndsDoes
  <2>2. CASE Claims(r)
    BY <2>1, <2>2, NoneIsNoSession DEF Claims
  <2>3. CASE ~Claims(r)
    BY <1>8, <2>1, <2>3, NoneIsNoSession, BuildEndsDoes, RevivalFailsDoes
  <2> QED BY <2>2, <2>3
<1>9. ASSUME NEW r \in Ref, ReviverThrows(r) PROVE SessionsAccounted'
  BY <1>9, NoneIsNoSession, ReviverThrowsDoes, RevivalFailsDoes
<1>10. ASSUME NEW r \in Ref, ReviveEnds(r) PROVE SessionsAccounted'
  <2>1. /\ Quiet /\ rev[r] # None /\ rev[r].step = "claimed" /\ rev[r].sess \in Session
        /\ synced' = [synced EXCEPT ![rev[r].sess] = TRUE]
        /\ UNCHANGED <<reg, att, own, turn, park, disposed, rel, callers, history>>
    BY <1>10, ReviveEndsDoes
  <2>2. CASE ReviveFails(r)
    <3>1. /\ rev' = [rev EXCEPT ![r] = None]
          /\ \A m \in Message : \/ pc'[m] = pc[m] /\ arg'[m] = arg[m]
                                \/ pc[m] = "revive" /\ pc'[m] = "failed" /\ arg'[m] = None
      BY <2>2, RevivalFailsDoes DEF ReviveFails
    <3> QED BY <2>1, <2>2, <3>1, NoneIsNoSession DEF ReviveFails, Dispose
  <2>3. CASE ReviveLands(r)
    BY <2>1, <2>3, NoneIsNoSession DEF ReviveLands
  <2> QED BY <1>10, <2>2, <2>3, ReviveEndsDoes
<1>11. ASSUME NEW x \in Releaser, TombstonePersisted(x) PROVE SessionsAccounted'
  BY <1>11, NoneIsNoSession, TombstoneDoes DEF Dispose
<1>12. ASSUME NEW x \in Releaser, CleanupEnds(x) PROVE SessionsAccounted'
  BY <1>12, NoneIsNoSession, CleanupEndsDoes, UnregisterDoes
<1>13. CASE SpawnAttaches
  <2>1. /\ Quiet /\ con \in Ref /\ con' = None
        /\ NewSession \in Session /\ life[NewSession] = "none"
        /\ UNCHANGED <<status, park, rev, revivals, disposed, rel, probe, senders, history>>
    BY <1>13, SpawnAttachesDoes
  <2>2. CASE SpawnBuilds
    BY <2>1, <2>2, NoneIsNoSession DEF SpawnBuilds
  <2>3. CASE reg = con /\ Unregister(con) /\ UNCHANGED <<sessions, att, run>>
    <3>1. reg' = None /\ adopted' \in {adopted, None}
      BY <2>1, <2>3, UnregisterDoes
    <3> QED BY <2>1, <2>3, <3>1, NoneIsNoSession
  <2>4. CASE /\ ~(reg = con /\ status[con] # "aborted")
             /\ UNCHANGED <<reg, adopted, sessions, att, run>>
    BY <2>1, <2>4, NoneIsNoSession
  <2> QED BY <1>13, <2>2, <2>3, <2>4, SpawnAttachesDoes
<1>14. CASE ProbeEnds
  BY <1>14, NoneIsNoSession DEF ProbeEnds, Unregister, OnRemoved, Corpse
<1>15. CASE TimerFires
  BY <1>15, NoneIsNoSession, TimerFiresDoes
<1>16. ASSUME NEW m \in Message, SameTick, Send(m) PROVE SessionsAccounted'
  BY <1>16, NoneIsNoSession, SendDoes, ResolveDoes DEF Deliver
<1>17. ASSUME NEW s \in Session, TurnStarts(s) \/ TurnEnds(s) PROVE SessionsAccounted'
  BY <1>17, NoneIsNoSession, TurnsDo
<1>18. CASE Finalize
  BY <1>18, NoneIsNoSession, FinalizeDoes DEF Dispose
<1>19. CASE FinalizeAborted
  <2>1. /\ Quiet /\ run # None /\ run.sess \in Session /\ run' = None /\ rel["exec"] = None
        /\ UNCHANGED <<registry, own, turn, synced, rev, revivals, disposed, con, probe,
                       senders, history>>
    BY <1>19, FinalizeAbortedDoes
  <2>2. CASE RunKilled
    BY <2>1, <2>2, NoneIsNoSession DEF RunKilled, Begins, Releaser
  <2>3. CASE RunDropped
    BY <2>1, <2>3, NoneIsNoSession DEF RunDropped, Dispose
  <2> QED BY <1>19, <2>2, <2>3, FinalizeAbortedDoes
<1>20. ASSUME NEW kill \in BOOLEAN, HubReleases(kill) PROVE SessionsAccounted'
  BY <1>20, NoneIsNoSession, HubReleasesDoes DEF Begins, Releaser
<1>21. CASE DisposeManager
  <2>1. /\ Quiet /\ ~disposed /\ disposed' = TRUE
        /\ UNCHANGED <<registry, sessions, rev, callers, senders, history>>
    BY <1>21, DisposeManagerDoes
  <2>2. CASE TeardownReleases /\ UNCHANGED revivals
    BY <2>1, <2>2, NoneIsNoSession DEF TeardownReleases, Begins, Releaser
  <2>3. CASE revivals' = None /\ UNCHANGED <<adopted, park, rel>>
    BY <2>1, <2>3, NoneIsNoSession
  <2> QED BY <1>21, <2>2, <2>3, DisposeManagerDoes
<1>22. CASE Spawn
  BY <1>22, NoneIsNoSession, NewOnes DEF Spawn
<1>23. CASE Restore
  BY <1>23, NoneIsNoSession, NewOnes DEF Restore, OnRemoved
<1>24. CASE Probe
  BY <1>24, NoneIsNoSession DEF Probe
<1>25. CASE UNCHANGED vars
  BY <1>25, NoneIsNoSession DEF vars
<1>26. CASE OrphanFires
  BY <1>26, NoneIsNoSession, OrphanFiresDoes
<1> QED
  BY <1>1, <1>2, <1>3, <1>4, <1>5, <1>6, <1>7, <1>8, <1>9, <1>10, <1>11, <1>12, <1>13,
     <1>14, <1>15, <1>16, <1>17, <1>18, <1>19, <1>20, <1>21, <1>22, <1>23, <1>24, <1>25, <1>26
     DEF Next, Continuation, IO

(***************************************************************************)
(* What is attached, and what a caller is handed, is live.                 *)
(***************************************************************************)
LEMMA AttachedStep ==
  ASSUME TypeOK, Tame, FreshRefs, FreshSessions, Owned, Detached, Constructs, Revives,
         ReleaseSteps, AttachedLives, [Next]_vars
  PROVE  AttachedLives'
<1> USE DEF registry, sessions, manager, callers, senders, history, TypeOK, Refs, Sessions,
        Attached, Doomed, Deserted, FreshRefs, FreshSessions, Owned, Detached, Constructs,
        Revives, ReleaseSteps, AttachedLives
<1>1. CASE ParkCommits
  <2>1. /\ park # None /\ park.step = "yield"
        /\ UNCHANGED <<reg, own, turn, synced, adopted, rev, revivals, disposed, rel,
                       callers, senders, history>>
    BY <1>1, ParkCommitsDoes
  <2>2. CASE ParkStops
    BY <2>1, <2>2, NoneIsNoSession DEF ParkStops
  <2>3. CASE ParkDetaches
    BY <2>1, <2>3, NoneIsNoSession DEF ParkDetaches, Dispose, Parks
  <2> QED BY <1>1, <2>2, <2>3, ParkCommitsDoes
<1>2. ASSUME NEW m \in Message, Injects(m) PROVE AttachedLives'
  BY <1>2, NoneIsNoSession DEF Injects, Deliver
<1>3. ASSUME NEW m \in Message, Kept(m) PROVE AttachedLives'
  BY <1>3, NoneIsNoSession, KeptDoes, ResolveDoes
<1>4. ASSUME NEW m \in Message, Parked(m) PROVE AttachedLives'
  BY <1>4, NoneIsNoSession, ResolveDoes DEF Parked
<1>5. ASSUME NEW x \in Releaser, ReleaseGoesOn(x) PROVE AttachedLives'
  BY <1>5, NoneIsNoSession, ReleaseGoesOnDoes DEF Dispose
<1>6. ASSUME NEW s \in Session, SessionGone(s) PROVE AttachedLives'
  <2>1. /\ Quiet /\ life' = [life EXCEPT ![s] = "gone"]
        /\ own[s] = reg => reg = None \/ Spared(reg) \/ reg' = None
        /\ reg' \in {reg, None}
        /\ UNCHANGED <<att, own, disposed, pc>>
    BY <1>6, SessionGoneDoes
  <2>2. CASE reg \in Ref /\ att[reg] = s
    <3>1. own[s] = reg
      BY <2>2, NoneIsNoSession
    <3>2. ~Spared(reg)
      BY <2>1, <2>2, NoneIsNoSession DEF Spared, Quiet, Parks
    <3> QED BY <2>1, <2>2, <3>1, <3>2, NoneIsNoSession
  <2>3. CASE ~(reg \in Ref /\ att[reg] = s)
    <3>1. \A t \in Session : t # s /\ Doomed(t) => Doomed(t)'
      BY <1>6, SessionGoneDoes
    <3> QED BY <2>1, <2>3, <3>1
  <2> QED BY <2>2, <2>3
<1>7. ASSUME NEW r \in Ref, FactoryReturns(r) PROVE AttachedLives'
  BY <1>7, NoneIsNoSession, FactoryReturnsDoes, RevivalFailsDoes
<1>8. ASSUME NEW r \in Ref, BuildEnds(r) PROVE AttachedLives'
  <2>1. /\ Quiet /\ rev[r] # None /\ rev[r].step = "build"
        /\ NewSession \in Session /\ life[NewSession] = "none"
        /\ UNCHANGED <<reg, turn, synced, park, disposed, rel, callers, history>>
    BY <1>8, BuildEndsDoes
  <2>2. CASE Claims(r)
    BY <2>1, <2>2, NoneIsNoSession DEF Claims
  <2>3. CASE ~Claims(r)
    BY <1>8, <2>1, <2>3, NoneIsNoSession, BuildEndsDoes, RevivalFailsDoes
  <2> QED BY <2>2, <2>3
<1>9. ASSUME NEW r \in Ref, ReviverThrows(r) PROVE AttachedLives'
  BY <1>9, NoneIsNoSession, ReviverThrowsDoes, RevivalFailsDoes
<1>10. ASSUME NEW r \in Ref, ReviveEnds(r) PROVE AttachedLives'
  <2>1. /\ Quiet /\ rev[r] # None /\ rev[r].step = "claimed" /\ rev[r].sess \in Session
        /\ synced' = [synced EXCEPT ![rev[r].sess] = TRUE]
        /\ UNCHANGED <<reg, att, own, turn, park, disposed, rel, callers, history>>
    BY <1>10, ReviveEndsDoes
  <2>2. CASE ReviveFails(r)
    <3>1. /\ rev' = [rev EXCEPT ![r] = None]
          /\ \A m \in Message : \/ pc'[m] = pc[m] /\ arg'[m] = arg[m]
                                \/ pc[m] = "revive" /\ pc'[m] = "failed" /\ arg'[m] = None
      BY <2>2, RevivalFailsDoes DEF ReviveFails
    <3>2. CASE reg \in Ref /\ att[reg] = rev[r].sess
      <4>1. reg = r /\ status[r] = "running" /\ disposed
        BY <2>1, <2>2, <3>2, NoneIsNoSession DEF ReviveFails
      <4>2. Deserted
        BY <2>1, <4>1 DEF Quiet, SameTick, Ready
      <4>3. Deserted'
        BY <2>1, <3>1, <4>2
      <4> QED BY <2>1, <2>2, <3>2, <4>3, NoneIsNoSession DEF ReviveFails, Dispose
    <3>3. CASE ~(reg \in Ref /\ att[reg] = rev[r].sess)
      <4>1. Deserted => Deserted'
        BY <2>1, <3>1
      <4> QED BY <2>1, <2>2, <3>3, <4>1, NoneIsNoSession DEF ReviveFails, Dispose
    <3> QED BY <3>2, <3>3
  <2>3. CASE ReviveLands(r)
    BY <2>1, <2>3, NoneIsNoSession DEF ReviveLands
  <2> QED BY <1>10, <2>2, <2>3, ReviveEndsDoes
<1>11. ASSUME NEW x \in Releaser, TombstonePersisted(x) PROVE AttachedLives'
  BY <1>11, NoneIsNoSession, TombstoneDoes DEF Dispose
<1>12. ASSUME NEW x \in Releaser, CleanupEnds(x) PROVE AttachedLives'
  BY <1>12, NoneIsNoSession, CleanupEndsDoes, UnregisterDoes
<1>13. CASE SpawnAttaches
  <2>1. /\ Quiet /\ con \in Ref /\ con' = None
        /\ NewSession \in Session /\ life[NewSession] = "none"
        /\ UNCHANGED <<status, park, rev, revivals, disposed, rel, probe, senders, history>>
    BY <1>13, SpawnAttachesDoes
  <2>2. CASE SpawnBuilds
    BY <2>1, <2>2, NoneIsNoSession DEF SpawnBuilds
  <2>3. CASE reg = con /\ Unregister(con) /\ UNCHANGED <<sessions, att, run>>
    <3>1. reg' = None /\ adopted' \in {adopted, None}
      BY <2>1, <2>3, UnregisterDoes
    <3> QED BY <2>1, <2>3, <3>1, NoneIsNoSession
  <2>4. CASE /\ ~(reg = con /\ status[con] # "aborted")
             /\ UNCHANGED <<reg, adopted, sessions, att, run>>
    BY <2>1, <2>4, NoneIsNoSession
  <2> QED BY <1>13, <2>2, <2>3, <2>4, SpawnAttachesDoes
<1>14. CASE ProbeEnds
  BY <1>14, NoneIsNoSession DEF ProbeEnds, Unregister, OnRemoved, Corpse
<1>15. CASE TimerFires
  BY <1>15, NoneIsNoSession, TimerFiresDoes
<1>16. ASSUME NEW m \in Message, SameTick, Send(m) PROVE AttachedLives'
  BY <1>16, NoneIsNoSession, SendDoes, ResolveDoes DEF Deliver
<1>17. ASSUME NEW s \in Session, TurnStarts(s) \/ TurnEnds(s) PROVE AttachedLives'
  BY <1>17, NoneIsNoSession, TurnsDo
<1>18. CASE Finalize
  BY <1>18, NoneIsNoSession, FinalizeDoes DEF Dispose
<1>19. CASE FinalizeAborted
  <2>1. /\ Quiet /\ run # None /\ run.sess \in Session /\ run' = None /\ rel["exec"] = None
        /\ UNCHANGED <<registry, own, turn, synced, rev, revivals, disposed, con, probe,
                       senders, history>>
    BY <1>19, FinalizeAbortedDoes
  <2>2. CASE RunKilled
    BY <2>1, <2>2, NoneIsNoSession DEF RunKilled, Begins, Releaser
  <2>3. CASE RunDropped
    BY <2>1, <2>3, NoneIsNoSession DEF RunDropped, Dispose
  <2> QED BY <1>19, <2>2, <2>3, FinalizeAbortedDoes
<1>20. ASSUME NEW kill \in BOOLEAN, HubReleases(kill) PROVE AttachedLives'
  BY <1>20, NoneIsNoSession, HubReleasesDoes DEF Begins, Releaser
<1>21. CASE DisposeManager
  <2>1. /\ Quiet /\ ~disposed /\ disposed' = TRUE
        /\ UNCHANGED <<registry, sessions, rev, callers, senders, history>>
    BY <1>21, DisposeManagerDoes
  <2>2. CASE TeardownReleases /\ UNCHANGED revivals
    BY <2>1, <2>2, NoneIsNoSession DEF TeardownReleases, Begins, Releaser
  <2>3. CASE revivals' = None /\ UNCHANGED <<adopted, park, rel>>
    BY <2>1, <2>3, NoneIsNoSession
  <2> QED BY <1>21, <2>2, <2>3, DisposeManagerDoes
<1>22. CASE Spawn
  BY <1>22, NoneIsNoSession, NewOnes DEF Spawn
<1>23. CASE Restore
  BY <1>23, NoneIsNoSession, NewOnes DEF Restore, OnRemoved
<1>24. CASE Probe
  BY <1>24, NoneIsNoSession DEF Probe
<1>25. CASE UNCHANGED vars
  BY <1>25, NoneIsNoSession DEF vars
<1>26. CASE OrphanFires
  BY <1>26, NoneIsNoSession, OrphanFiresDoes
<1> QED
  BY <1>1, <1>2, <1>3, <1>4, <1>5, <1>6, <1>7, <1>8, <1>9, <1>10, <1>11, <1>12, <1>13,
     <1>14, <1>15, <1>16, <1>17, <1>18, <1>19, <1>20, <1>21, <1>22, <1>23, <1>24, <1>25, <1>26
     DEF Next, Continuation, IO

LEMMA GotStep ==
  ASSUME TypeOK, Tame, FreshSessions, Owned, Detached, Revives, ReleaseSteps, AttachedLives,
         GotLives, [Next]_vars
  PROVE  GotLives'
<1> USE DEF registry, sessions, manager, callers, senders, history, TypeOK, Refs, Sessions,
        Attached, Quiet, SameTick, Ready, Doomed, Deserted, FreshSessions, Owned, Detached,
        Revives, ReleaseSteps, AttachedLives, GotLives
<1>1. CASE ParkCommits
  <2>1. /\ park # None /\ park.step = "yield"
        /\ UNCHANGED <<reg, own, turn, synced, adopted, rev, revivals, disposed, rel,
                       callers, senders, history>>
    BY <1>1, ParkCommitsDoes
  <2>2. CASE ParkStops
    BY <2>1, <2>2, NoneIsNoSession DEF ParkStops
  <2>3. CASE ParkDetaches
    BY <2>1, <2>3, NoneIsNoSession DEF ParkDetaches, Dispose, Parks
  <2> QED BY <1>1, <2>2, <2>3, ParkCommitsDoes
<1>2. ASSUME NEW m \in Message, Injects(m) PROVE GotLives'
  BY <1>2, NoneIsNoSession DEF Injects, Deliver
<1>3. ASSUME NEW m \in Message, Kept(m) PROVE GotLives'
  BY <1>3, NoneIsNoSession, KeptDoes, ResolveDoes
<1>4. ASSUME NEW m \in Message, Parked(m) PROVE GotLives'
  BY <1>4, NoneIsNoSession, ResolveDoes DEF Parked
<1>5. ASSUME NEW x \in Releaser, ReleaseGoesOn(x) PROVE GotLives'
  BY <1>5, NoneIsNoSession, ReleaseGoesOnDoes DEF Dispose
<1>6. ASSUME NEW s \in Session, SessionGone(s) PROVE GotLives'
  BY <1>6, NoneIsNoSession, SessionGoneDoes
<1>7. ASSUME NEW r \in Ref, FactoryReturns(r) PROVE GotLives'
  BY <1>7, NoneIsNoSession, FactoryReturnsDoes, RevivalFailsDoes
<1>8. ASSUME NEW r \in Ref, BuildEnds(r) PROVE GotLives'
  <2>1. /\ Quiet /\ rev[r] # None /\ rev[r].step = "build"
        /\ NewSession \in Session /\ life[NewSession] = "none"
        /\ UNCHANGED <<reg, turn, synced, park, disposed, rel, callers, history>>
    BY <1>8, BuildEndsDoes
  <2>2. CASE Claims(r)
    BY <2>1, <2>2, NoneIsNoSession DEF Claims
  <2>3. CASE ~Claims(r)
    BY <1>8, <2>1, <2>3, NoneIsNoSession, BuildEndsDoes, RevivalFailsDoes
  <2> QED BY <2>2, <2>3
<1>9. ASSUME NEW r \in Ref, ReviverThrows(r) PROVE GotLives'
  BY <1>9, NoneIsNoSession, ReviverThrowsDoes, RevivalFailsDoes
<1>10. ASSUME NEW r \in Ref, ReviveEnds(r) PROVE GotLives'
  <2>1. /\ Quiet /\ rev[r] # None /\ rev[r].step = "claimed" /\ rev[r].sess \in Session
        /\ synced' = [synced EXCEPT ![rev[r].sess] = TRUE]
        /\ UNCHANGED <<reg, att, own, turn, park, disposed, rel, callers, history>>
    BY <1>10, ReviveEndsDoes
  <2>2. CASE ReviveFails(r)
    <3>1. /\ rev' = [rev EXCEPT ![r] = None]
          /\ \A m \in Message : \/ pc'[m] = pc[m] /\ arg'[m] = arg[m]
                                \/ pc[m] = "revive" /\ pc'[m] = "failed" /\ arg'[m] = None
      BY <2>2, RevivalFailsDoes DEF ReviveFails
    <3> QED BY <2>1, <2>2, <3>1, NoneIsNoSession DEF ReviveFails, Dispose
  <2>3. CASE ReviveLands(r)
    BY <2>1, <2>3, NoneIsNoSession DEF ReviveLands
  <2> QED BY <1>10, <2>2, <2>3, ReviveEndsDoes
<1>11. ASSUME NEW x \in Releaser, TombstonePersisted(x) PROVE GotLives'
  BY <1>11, NoneIsNoSession, TombstoneDoes DEF Dispose
<1>12. ASSUME NEW x \in Releaser, CleanupEnds(x) PROVE GotLives'
  BY <1>12, NoneIsNoSession, CleanupEndsDoes, UnregisterDoes
<1>13. CASE SpawnAttaches
  <2>1. /\ Quiet /\ con \in Ref /\ con' = None
        /\ NewSession \in Session /\ life[NewSession] = "none"
        /\ UNCHANGED <<status, park, rev, revivals, disposed, rel, probe, senders, history>>
    BY <1>13, SpawnAttachesDoes
  <2>2. CASE SpawnBuilds
    BY <2>1, <2>2, NoneIsNoSession DEF SpawnBuilds
  <2>3. CASE reg = con /\ Unregister(con) /\ UNCHANGED <<sessions, att, run>>
    <3>1. reg' = None /\ adopted' \in {adopted, None}
      BY <2>1, <2>3, UnregisterDoes
    <3> QED BY <2>1, <2>3, <3>1, NoneIsNoSession
  <2>4. CASE /\ ~(reg = con /\ status[con] # "aborted")
             /\ UNCHANGED <<reg, adopted, sessions, att, run>>
    BY <2>1, <2>4, NoneIsNoSession
  <2> QED BY <1>13, <2>2, <2>3, <2>4, SpawnAttachesDoes
<1>14. CASE ProbeEnds
  BY <1>14, NoneIsNoSession DEF ProbeEnds, Unregister, OnRemoved, Corpse
<1>15. CASE TimerFires
  BY <1>15, NoneIsNoSession, TimerFiresDoes
<1>16. ASSUME NEW m \in Message, SameTick, Send(m) PROVE GotLives'
  BY <1>16, NoneIsNoSession, SendDoes, ResolveDoes DEF Deliver
<1>17. ASSUME NEW s \in Session, TurnStarts(s) \/ TurnEnds(s) PROVE GotLives'
  BY <1>17, NoneIsNoSession, TurnsDo
<1>18. CASE Finalize
  BY <1>18, NoneIsNoSession, FinalizeDoes DEF Dispose
<1>19. CASE FinalizeAborted
  <2>1. /\ Quiet /\ run # None /\ run.sess \in Session /\ run' = None /\ rel["exec"] = None
        /\ UNCHANGED <<registry, own, turn, synced, rev, revivals, disposed, con, probe,
                       senders, history>>
    BY <1>19, FinalizeAbortedDoes
  <2>2. CASE RunKilled
    BY <2>1, <2>2, NoneIsNoSession DEF RunKilled, Begins, Releaser
  <2>3. CASE RunDropped
    BY <2>1, <2>3, NoneIsNoSession DEF RunDropped, Dispose
  <2> QED BY <1>19, <2>2, <2>3, FinalizeAbortedDoes
<1>20. ASSUME NEW kill \in BOOLEAN, HubReleases(kill) PROVE GotLives'
  BY <1>20, NoneIsNoSession, HubReleasesDoes DEF Begins, Releaser
<1>21. CASE DisposeManager
  <2>1. /\ Quiet /\ ~disposed /\ disposed' = TRUE
        /\ UNCHANGED <<registry, sessions, rev, callers, senders, history>>
    BY <1>21, DisposeManagerDoes
  <2>2. CASE TeardownReleases /\ UNCHANGED revivals
    BY <2>1, <2>2, NoneIsNoSession DEF TeardownReleases, Begins, Releaser
  <2>3. CASE revivals' = None /\ UNCHANGED <<adopted, park, rel>>
    BY <2>1, <2>3, NoneIsNoSession
  <2> QED BY <1>21, <2>2, <2>3, DisposeManagerDoes
<1>22. CASE Spawn
  BY <1>22, NoneIsNoSession, NewOnes DEF Spawn
<1>23. CASE Restore
  BY <1>23, NoneIsNoSession, NewOnes DEF Restore, OnRemoved
<1>24. CASE Probe
  BY <1>24, NoneIsNoSession DEF Probe
<1>25. CASE UNCHANGED vars
  BY <1>25, NoneIsNoSession DEF vars
<1>26. CASE OrphanFires
  BY <1>26, NoneIsNoSession, OrphanFiresDoes
<1> QED
  BY <1>1, <1>2, <1>3, <1>4, <1>5, <1>6, <1>7, <1>8, <1>9, <1>10, <1>11, <1>12, <1>13,
     <1>14, <1>15, <1>16, <1>17, <1>18, <1>19, <1>20, <1>21, <1>22, <1>23, <1>24, <1>25, <1>26
     DEF Next, Continuation, IO

(***************************************************************************)
(* The inductive invariant.                                                *)
(***************************************************************************)
IInv ==
    /\ TypeOK /\ FreshRefs /\ FreshSessions /\ Owned
    /\ Detached /\ Constructs /\ Revives /\ Timed /\ Disowned /\ ReleaseSteps
    /\ Current /\ Killed /\ AttachedLives /\ GotLives /\ SessionsAccounted

LEMMA InitInv == Init => IInv
<1> SUFFICES ASSUME Init PROVE IInv
  OBVIOUS
<1>1. TypeOK
  BY TypeInit
<1>2. /\ FreshRefs /\ FreshSessions /\ Owned
      /\ Detached /\ Constructs /\ Revives /\ Timed /\ Disowned /\ ReleaseSteps
  BY NoneIsNoSession DEF Init, FreshRefs, FreshSessions, Owned, Detached, Constructs, Revives, Timed,
     Disowned, ReleaseSteps, Releaser
<1>3. Current /\ Killed /\ AttachedLives /\ GotLives /\ SessionsAccounted
  BY DEF Init, Current, Killed, AttachedLives, GotLives, SessionsAccounted
<1> QED BY <1>1, <1>2, <1>3 DEF IInv

LEMMA StepInv == IInv /\ strayed' = {} /\ [Next]_vars => IInv'
<1> SUFFICES ASSUME IInv, strayed' = {}, [Next]_vars PROVE IInv'
  OBVIOUS
<1> USE DEF IInv
<1>0. Tame
  BY DEF Tame
<1>1. (TypeOK /\ FreshRefs /\ FreshSessions /\ Owned)'
  BY <1>0, TypeStep, FreshRefsStep, FreshSessionsStep, OwnedStep
<1>2. (Detached /\ Constructs /\ Revives /\ Timed /\ Disowned)'
  BY <1>0, DetachedStep, ConstructsStep, RevivesStep, TimedStep, DisownedStep
<1>3. (ReleaseSteps /\ Current /\ Killed)'
  BY <1>0, ReleaseStepsStep, CurrentStep, KilledStep
<1>4. (AttachedLives /\ GotLives /\ SessionsAccounted)'
  BY <1>0, AttachedStep, GotStep, AccountedStep
<1> QED BY <1>1, <1>2, <1>3, <1>4

\* What was parked by a timer whose adoption was replaced stays on record.
LEMMA StrayedGrows == [Next]_vars => strayed \subseteq strayed'
<1> SUFFICES ASSUME [Next]_vars PROVE strayed \subseteq strayed'
  OBVIOUS
<1> USE DEF history
<1>1. CASE Continuation
  BY <1>1 DEF Continuation, ParkCommits, Injects, Deliver, Kept, Parked, ReleaseGoesOn
<1>2. CASE IO
  BY <1>2 DEF IO, SessionGone, FactoryReturns, BuildEnds, ReviverThrows, ReviveEnds,
     TombstonePersisted, CleanupEnds, SpawnAttaches, ProbeEnds
<1>3. CASE TimerFires \/ OrphanFires
  BY <1>3 DEF TimerFires, OrphanFires
<1>4. ASSUME NEW m \in Message, Send(m) PROVE strayed \subseteq strayed'
  BY <1>4 DEF Send, Deliver
<1>5. ASSUME NEW s \in Session, TurnStarts(s) \/ TurnEnds(s) PROVE strayed \subseteq strayed'
  BY <1>5 DEF TurnStarts, TurnEnds
<1>6. CASE Finalize \/ FinalizeAborted \/ DisposeManager \/ Spawn \/ Restore \/ Probe
  BY <1>6 DEF Finalize, FinalizeAborted, DisposeManager, Spawn, Restore, Probe
<1>7. ASSUME NEW kill \in BOOLEAN, HubReleases(kill) PROVE strayed \subseteq strayed'
  BY <1>7 DEF HubReleases
<1>8. CASE UNCHANGED vars
  BY <1>8 DEF vars
<1> QED BY <1>1, <1>2, <1>3, <1>4, <1>5, <1>6, <1>7, <1>8 DEF Next

\* The invariant holds until a timer whose adoption was replaced parks a revival.
LEMMA InvHolds == Spec => [](strayed = {} => IInv)
<1>1. Init => (strayed = {} => IInv)
  BY InitInv
<1>2. (strayed = {} => IInv) /\ [Next]_vars => (strayed = {} => IInv)'
  <2> SUFFICES ASSUME strayed = {} => IInv, [Next]_vars, strayed' = {} PROVE IInv'
    OBVIOUS
  <2>1. strayed = {}
    BY StrayedGrows
  <2> QED BY <2>1, StepInv
<1> QED BY <1>1, <1>2, PTL DEF Spec

\* "A disposing session is never handed out": the session a caller was handed, and
\* the one its message goes to, is live or of a plain release, for any number of
\* senders, generations and sessions, until a timer whose adoption was replaced
\* (agent-lifecycle.ts:404) parks a revival.
THEOREM HandsOutHolds == Spec => [](strayed = {} => HandsOutLive)
<1>1. IInv => HandsOutLive
  <2> SUFFICES ASSUME IInv, NEW m \in Message, pc[m] = "got",
                      NEW s \in {arg[m], Attached} \ {None}, life[s] # "live"
               PROVE  Releasing(own[s], FALSE)
    BY DEF HandsOutLive
  <2>1. PICK x \in Releaser : rel[x] # None /\ ~rel[x].kill /\ rel[x].ref = own[s]
    <3>1. CASE s = arg[m]
      BY <3>1 DEF IInv, GotLives
    <3>2. CASE s = Attached
      <4>1. reg \in Ref /\ att[reg] = s
        BY <3>2, NoneIsNoSession DEF Attached, IInv, TypeOK, Refs
      <4>2. Doomed(s)
        BY <4>1, NoneIsNoSession DEF IInv, AttachedLives, Deserted
      <4>3. s \in Session
        BY <4>1 DEF IInv, TypeOK, Sessions
      <4> QED BY <4>2, <4>3, NoneIsNoSession DEF Doomed, IInv, Owned
    <3> QED BY <3>1, <3>2
  <2>2. rel[x].kill = FALSE
    BY <2>1 DEF IInv, TypeOK, Releases
  <2> QED BY <2>1, <2>2 DEF Releasing
<1> QED BY <1>1, InvHolds, PTL

\* No live session is lost, but for those a release or a reviver is known to
\* lose (leaked), until a timer whose adoption was replaced parks a revival.
THEOREM AccountedHolds == Spec => [](strayed = {} => SessionsAccounted)
<1>1. IInv => SessionsAccounted
  BY DEF IInv
<1> QED BY <1>1, InvHolds, PTL

\* The refs without a session, and the ones whose session is disposed of, give a
\* send a cause to fail.
LEMMA NoSession ==
  ASSUME IInv, reg # None, att[reg] = None, status[reg] # "parked"
  PROVE  status[reg] = "aborted" \/ con = reg
BY DEF IInv, Detached, TypeOK, Refs

LEMMA SessionEnds ==
  ASSUME IInv, reg # None, att[reg] # None, life[att[reg]] # "live", ~Deserted
  PROVE  Releasing(reg, FALSE)
<1>1. Doomed(att[reg]) /\ reg \in Ref
  BY DEF IInv, AttachedLives, TypeOK, Refs
<1>2. PICK x \in Releaser : rel[x] # None /\ ~rel[x].kill /\ rel[x].sess = att[reg]
  BY <1>1 DEF Doomed
<1>3. rel[x].ref = reg
  BY <1>1, <1>2 DEF IInv, Owned
<1>4. rel[x].kill = FALSE
  BY <1>2 DEF IInv, TypeOK, Releases
<1> QED BY <1>2, <1>3, <1>4 DEF Releasing

Cause == \/ reg = None
         \/ status[reg] = "aborted"
         \/ con = reg
         \/ Releasing(reg, TRUE) \/ Releasing(reg, FALSE)

(***************************************************************************)
(* Why a send may fail.                                                    *)
(***************************************************************************)
\* A deliver that fails, or leaves its message, had a cause.
FailsNow ==
    \A m \in Message :
        pc[m] # "revive" /\ pc[m] # pc'[m] /\ pc'[m] \in {"failed", "buffered"} => Cause

LEMMA DeliverFails ==
  ASSUME IInv, NEW m \in Message, Deliver(m), ~Deserted,
         reg # None => status[reg] # "parked"
  PROVE  FailsNow
<1> SUFFICES ASSUME ~Cause PROVE pc'[m] = "delivered" /\ \A n \in Message : n # m => pc'[n] = pc[n]
  BY DEF FailsNow
<1>1. reg # None /\ att[reg] # None
  BY NoSession DEF Cause
<1>2. life[att[reg]] = "live"
  BY <1>1, SessionEnds DEF Cause
<1> QED BY <1>1, <1>2 DEF Deliver, Attached, IInv, TypeOK

LEMMA ResolveFails ==
  ASSUME IInv, NEW m \in Message, Resolve(m)
  PROVE  FailsNow
<1>1. TypeOK
  BY DEF IInv
<1> QED BY <1>1, ResolveDoes, NoSession DEF FailsNow, Cause

LEMMA CauseStep ==
  ASSUME TypeOK, Tame, IInv, [Next]_vars
  PROVE  FailsNow
<1> USE DEF registry, sessions, manager, callers, senders, history, FailsNow
<1>1. CASE ParkCommits
  BY <1>1, ParkCommitsDoes DEF ParkStops, ParkDetaches, Dispose
<1>2. ASSUME NEW m \in Message, Injects(m) PROVE FailsNow
  BY <1>2, DeliverFails DEF Injects, IInv, GotLives, Deserted
<1>3. ASSUME NEW m \in Message, Kept(m) PROVE FailsNow
  <2>1. CASE Resolve(m)
    BY <2>1, ResolveFails
  <2>2. CASE pc' = [pc EXCEPT ![m] = "got"]
    BY <2>2 DEF TypeOK
  <2> QED BY <1>3, <2>1, <2>2, KeptDoes
<1>4. ASSUME NEW m \in Message, Parked(m) PROVE FailsNow
  BY <1>4, ResolveFails DEF Parked
<1>5. ASSUME NEW x \in Releaser, ReleaseGoesOn(x) PROVE FailsNow
  BY <1>5, ReleaseGoesOnDoes DEF Dispose
<1>6. ASSUME NEW s \in Session, SessionGone(s) PROVE FailsNow
  BY <1>6, SessionGoneDoes
<1>7. ASSUME NEW r \in Ref, FactoryReturns(r) PROVE FailsNow
  BY <1>7, FactoryReturnsDoes, RevivalFailsDoes
<1>8. ASSUME NEW r \in Ref, BuildEnds(r) PROVE FailsNow
  BY <1>8, BuildEndsDoes, RevivalFailsDoes DEF Claims
<1>9. ASSUME NEW r \in Ref, ReviverThrows(r) PROVE FailsNow
  BY <1>9, ReviverThrowsDoes, RevivalFailsDoes
<1>10. ASSUME NEW r \in Ref, ReviveEnds(r) PROVE FailsNow
  BY <1>10, ReviveEndsDoes, RevivalFailsDoes DEF ReviveFails, ReviveLands, Dispose
<1>11. ASSUME NEW x \in Releaser, TombstonePersisted(x) PROVE FailsNow
  BY <1>11, TombstoneDoes DEF Dispose
<1>12. ASSUME NEW x \in Releaser, CleanupEnds(x) PROVE FailsNow
  BY <1>12, CleanupEndsDoes, UnregisterDoes
<1>13. CASE SpawnAttaches
  BY <1>13, SpawnAttachesDoes, UnregisterDoes DEF SpawnBuilds
<1>14. CASE ProbeEnds
  BY <1>14 DEF ProbeEnds, Unregister, OnRemoved, Corpse
<1>15. CASE TimerFires
  BY <1>15, TimerFiresDoes
<1>16. ASSUME NEW m \in Message, SameTick, Send(m) PROVE FailsNow
  <2>1. CASE reg \in Ref /\ ~Gated /\ Deliver(m)
    BY <1>16, <2>1, SendDoes, DeliverFails DEF Gated, Deserted
  <2>2. CASE Resolve(m)
    BY <2>2, ResolveFails
  <2>3. CASE /\ reg = None \/ (reg # None /\ status[reg] = "aborted")
             /\ pc' = [pc EXCEPT ![m] = "failed"]
    BY <2>3 DEF Cause
  <2>4. CASE /\ \A n \in Message : n # m => pc'[n] = pc[n]
             /\ pc'[m] \in {"keep", "park"}
    BY <2>4
  <2> QED BY <1>16, <2>1, <2>2, <2>3, <2>4, SendDoes
<1>17. ASSUME NEW s \in Session, TurnStarts(s) \/ TurnEnds(s) PROVE FailsNow
  BY <1>17, TurnsDo
<1>18. CASE Finalize
  BY <1>18, FinalizeDoes DEF Dispose
<1>19. CASE FinalizeAborted
  BY <1>19, FinalizeAbortedDoes DEF RunKilled, RunDropped, Dispose, Begins, Releaser
<1>20. ASSUME NEW kill \in BOOLEAN, HubReleases(kill) PROVE FailsNow
  BY <1>20, HubReleasesDoes DEF Begins, Releaser
<1>21. CASE DisposeManager
  BY <1>21, DisposeManagerDoes DEF TeardownReleases, Begins, Releaser
<1>22. CASE Spawn
  BY <1>22, NewOnes DEF Spawn
<1>23. CASE Restore
  BY <1>23, NewOnes DEF Restore, OnRemoved
<1>24. CASE Probe
  BY <1>24 DEF Probe
<1>25. CASE UNCHANGED vars
  BY <1>25 DEF vars
<1>26. CASE OrphanFires
  BY <1>26, OrphanFiresDoes
<1> QED
  BY <1>1, <1>2, <1>3, <1>4, <1>5, <1>6, <1>7, <1>8, <1>9, <1>10, <1>11, <1>12, <1>13,
     <1>14, <1>15, <1>16, <1>17, <1>18, <1>19, <1>20, <1>21, <1>22, <1>23, <1>24, <1>25, <1>26
     DEF Next, Continuation, IO

\* A park alone never costs a message: a send fails, or is left in the mailbox,
\* only when its agent is gone, killed, released or has no session yet, in a run in
\* which no timer whose adoption was replaced parks a revival.
THEOREM CauseHolds == Spec /\ [](strayed = {}) => FailsForCause
<1>1. IInv /\ (strayed = {})' /\ [Next]_vars => FailsNow
  BY CauseStep DEF IInv, Tame
<1>2. IInv /\ (strayed = {})' /\ [Next]_vars =>
        [\A m \in Message :
           /\ pc[m] # "revive" /\ pc[m] # pc'[m] /\ pc'[m] \in {"failed", "buffered"}
           => \/ reg = None
              \/ status[reg] = "aborted"
              \/ con = reg
              \/ Releasing(reg, TRUE) \/ Releasing(reg, FALSE)
              \/ reg \in strayed]_vars
  BY <1>1 DEF FailsNow, Cause
<1> QED BY <1>2, InvHolds, PTL DEF Spec, FailsForCause
=============================================================================
