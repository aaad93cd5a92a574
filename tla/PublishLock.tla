---------------------------- MODULE PublishLock -----------------------------
(***************************************************************************)
(* The cross-process publish lock of a session file                        *)
(* (coding-agent/src/session/session-storage.ts, #withPublishLock): a      *)
(* process-owned OS gate around a lockfile protocol of open(wx), record,   *)
(* verify and steal.  Each action is one system call, so that processes    *)
(* interleave and die between any two of them.  Processes outside Current  *)
(* run a previous binary that knows the lockfile but not the gate.         *)
(***************************************************************************)
EXTENDS Naturals

CONSTANTS
    Process,        \* the terminals that have the session open
    Current,        \* those whose binary takes the gate first
    None,
    MaxFaults       \* bound: how many times a write or an unlink of the lock fails

ASSUME LockAssumption == /\ Current \subseteq Process
                         /\ None \notin Process
                         /\ MaxFaults \in Nat

VARIABLES
    gate,       \* the process that owns the kernel's lock on the sidecar, or None
    name,       \* the file at the lock's path, or None
    pc,         \* where each process is in #withPublishLock
    second,     \* is it in the second #tryCreatePublishLock of #createPublishLock?
    seen,       \* the content #stealStalePublishLock read first
    up,         \* is the process running?
    faults,     \* write and unlink failures so far
    robbed      \* history: the lock file of a process inside was removed

vars == <<gate, name, pc, second, seen, up, faults, robbed>>

\* A lock file: who created it, whether its record was written, whether its
\* mtime is older than the acquisition budget (SESSION_PUBLISH_LOCK_WAIT_MS),
\* and whether the pid that created it is gone.
LockFiles == [owner : Process, recorded : BOOLEAN, old : BOOLEAN, dead : BOOLEAN]

ASSUME NoLockFile == None \notin LockFiles

\* The text of a lock file: "" until its creator wrote "<pid>:<time>".
Blank == <<>>

\* Mutant: the text that is compared also says how old the file is.
ContentWithAge(f) == <<f.owner, f.dead, f.old>>

Content(f) == IF f.recorded THEN <<f.owner, f.dead>> ELSE Blank

Steps == {"idle", "gate", "create", "record", "verify", "read", "stat",
          "reread", "unlink", "retry", "in", "ungate"}

\* The descriptor p wrote through still names the file at the path.
Mine(p) == name # None /\ name.owner = p /\ ~name.dead

Goto(p, s) == pc' = [pc EXCEPT ![p] = s]

\* An attempt that ends, by success or by throwing, releases the gate.
FreeGate(p) == gate' = IF gate = p THEN None ELSE gate

\* The file at the path goes; it is robbery when its creator is inside: one that
\* is on its way in finds out when it verifies.
RemoveName(p) ==
    /\ name' = None
    /\ robbed' = \/ robbed
                 \/ /\ name # None /\ name.owner # p /\ ~name.dead
                    /\ pc[name.owner] = "in"

Init ==
    /\ gate = None
    /\ name = None
    /\ pc = [p \in Process |-> "idle"]
    /\ second = [p \in Process |-> FALSE]
    /\ seen = [p \in Process |-> Blank]
    /\ up = [p \in Process |-> TRUE]
    /\ faults = 0
    /\ robbed = FALSE

-----------------------------------------------------------------------------
\* Mutant: the gate is not taken.
BeginUngated(p) ==
    /\ up[p]
    /\ pc[p] = "idle"
    /\ Goto(p, "create")
    /\ second' = [second EXCEPT ![p] = FALSE]
    /\ UNCHANGED <<gate, name, seen, up, faults, robbed>>

\* #withPublishLock: a current binary goes to the gate, a previous one to the
\* lock file.
Begin(p) ==
    /\ up[p]
    /\ pc[p] = "idle"
    /\ Goto(p, IF p \in Current THEN "gate" ELSE "create")
    /\ second' = [second EXCEPT ![p] = FALSE]
    /\ UNCHANGED <<gate, name, seen, up, faults, robbed>>

\* Mutant: the gate is taken in shared mode.
TakeGateShared(p) ==
    /\ pc[p] = "gate"
    /\ gate' = p
    /\ Goto(p, "create")
    /\ UNCHANGED <<name, second, seen, up, faults, robbed>>

\* #acquireOsPublishLock: the kernel grants a free gate.
TakeGate(p) ==
    /\ pc[p] = "gate"
    /\ gate = None
    /\ gate' = p
    /\ Goto(p, "create")
    /\ UNCHANGED <<name, second, seen, up, faults, robbed>>

\* Another process held the gate until the deadline: SessionLockError.
GateTimesOut(p) ==
    /\ pc[p] = "gate"
    /\ gate # None
    /\ Goto(p, "idle")
    /\ UNCHANGED <<gate, name, second, seen, up, faults, robbed>>

\* #tryCreatePublishLock, open(wx): claims a free name; an existing file sends
\* the first try to the steal path and ends the second one.
Create(p) ==
    /\ pc[p] = "create"
    /\ IF name = None
         THEN /\ name' = [owner |-> p, recorded |-> FALSE, old |-> FALSE, dead |-> FALSE]
              /\ Goto(p, "record")
         ELSE /\ UNCHANGED name
              /\ Goto(p, IF second[p] THEN "retry" ELSE "read")
    /\ UNCHANGED <<gate, second, seen, up, faults, robbed>>

\* The record is written through the descriptor: to nobody when the file was
\* unlinked meanwhile.
Record(p) ==
    /\ pc[p] = "record"
    /\ name' = IF Mine(p) THEN [name EXCEPT !.recorded = TRUE] ELSE name
    /\ Goto(p, "verify")
    /\ UNCHANGED <<gate, second, seen, up, faults, robbed>>

\* The record cannot be written: the path is unlinked, whoever's file is there,
\* and the attempt throws.
RecordFails(p) ==
    /\ pc[p] = "record"
    /\ faults < MaxFaults
    /\ faults' = faults + 1
    /\ RemoveName(p)
    /\ FreeGate(p)
    /\ Goto(p, "idle")
    /\ UNCHANGED <<second, seen, up>>

\* Mutant: the region is entered without a look at the path.
VerifyNothing(p) ==
    /\ pc[p] = "verify"
    /\ Goto(p, "in")
    /\ UNCHANGED <<gate, name, second, seen, up, faults, robbed>>

\* The record is read back before the region is entered.
Verify(p) ==
    /\ pc[p] = "verify"
    /\ Goto(p, CASE Mine(p)   -> "in"
                 [] second[p] -> "retry"
                 [] OTHER     -> "read")
    /\ UNCHANGED <<gate, name, second, seen, up, faults, robbed>>

-----------------------------------------------------------------------------
\* The steal path returns true: #createPublishLock tries to create once more.
Again(p) == Goto(p, "create") /\ second' = [second EXCEPT ![p] = TRUE]

\* #stealStalePublishLock, first read: a live holder (isPidAlive) is left alone,
\* a dead one is looked at again, a blank file has its age checked.
ReadLock(p) ==
    /\ pc[p] = "read"
    /\ \/ /\ name = None
          /\ Again(p)
          /\ UNCHANGED seen
       \/ /\ name # None /\ name.recorded /\ ~name.dead
          /\ Goto(p, "retry")
          /\ UNCHANGED <<second, seen>>
       \/ /\ name # None /\ (name.recorded => name.dead)
          /\ Goto(p, IF name.recorded THEN "reread" ELSE "stat")
          /\ seen' = [seen EXCEPT ![p] = Content(name)]
          /\ UNCHANGED second
    /\ UNCHANGED <<gate, name, up, faults, robbed>>

\* Mutant: a blank lock file is always taken for one about to be recorded.
StatLockPatient(p) ==
    /\ pc[p] = "stat"
    /\ Goto(p, IF name = None THEN "reread" ELSE "retry")
    /\ UNCHANGED <<gate, name, second, seen, up, faults, robbed>>

\* #isOrphanedPublishLock: old enough, or gone.
StatLock(p) ==
    /\ pc[p] = "stat"
    /\ Goto(p, IF name = None \/ name.old THEN "reread" ELSE "retry")
    /\ UNCHANGED <<gate, name, second, seen, up, faults, robbed>>

\* Only the text that was judged may be removed.
RereadLock(p) ==
    /\ pc[p] = "reread"
    /\ IF name = None
         THEN Again(p)
         ELSE /\ UNCHANGED second
              /\ Goto(p, IF Content(name) = seen[p] THEN "unlink" ELSE "retry")
    /\ seen' = [seen EXCEPT ![p] = Blank]
    /\ UNCHANGED <<gate, name, up, faults, robbed>>

UnlinkStale(p) ==
    /\ pc[p] = "unlink"
    /\ RemoveName(p)
    /\ Again(p)
    /\ UNCHANGED <<gate, seen, up, faults>>

\* #acquirePublishLock: the try failed; poll again before the deadline.
Poll(p) ==
    /\ pc[p] = "retry"
    /\ Goto(p, "create")
    /\ second' = [second EXCEPT ![p] = FALSE]
    /\ UNCHANGED <<gate, name, seen, up, faults, robbed>>

\* ... and throw SessionLockError after it.
GiveUp(p) ==
    /\ pc[p] = "retry"
    /\ FreeGate(p)
    /\ Goto(p, "idle")
    /\ UNCHANGED <<name, second, seen, up, faults, robbed>>

-----------------------------------------------------------------------------
\* The task ended: the lock file is unlinked, then the gate is released.
Unlock(p) ==
    /\ pc[p] = "in"
    /\ RemoveName(p)
    /\ Goto(p, "ungate")
    /\ UNCHANGED <<gate, second, seen, up, faults>>

\* The unlink failed and is only logged: the file outlives the region.
UnlockFails(p) ==
    /\ pc[p] = "in"
    /\ faults < MaxFaults
    /\ faults' = faults + 1
    /\ Goto(p, "ungate")
    /\ UNCHANGED <<gate, name, second, seen, up, robbed>>

ReleaseGate(p) ==
    /\ pc[p] = "ungate"
    /\ FreeGate(p)
    /\ Goto(p, "idle")
    /\ UNCHANGED <<name, second, seen, up, faults, robbed>>

-----------------------------------------------------------------------------
\* A process dies at any instruction: the kernel takes its gate back, the lock
\* file stays and its pid is gone.
Crash(p) ==
    /\ up[p]
    /\ up' = [up EXCEPT ![p] = FALSE]
    /\ name' = IF Mine(p) THEN [name EXCEPT !.dead = TRUE] ELSE name
    /\ FreeGate(p)
    /\ Goto(p, "idle")
    /\ seen' = [seen EXCEPT ![p] = Blank]
    /\ UNCHANGED <<second, faults, robbed>>

\* The terminal is started again, under another pid.
Restart(p) ==
    /\ ~up[p]
    /\ up' = [up EXCEPT ![p] = TRUE]
    /\ UNCHANGED <<gate, name, pc, second, seen, faults, robbed>>

\* A blank file grows older than the budget, also when its creator is alive
\* but descheduled between open and write.
Age ==
    /\ name # None
    /\ ~name.recorded
    /\ ~name.old
    /\ name' = [name EXCEPT !.old = TRUE]
    /\ UNCHANGED <<gate, pc, second, seen, up, faults, robbed>>

Step(p) ==
    \/ TakeGate(p) \/ GateTimesOut(p)
    \/ Create(p) \/ Record(p) \/ RecordFails(p) \/ Verify(p)
    \/ ReadLock(p) \/ StatLock(p) \/ RereadLock(p) \/ UnlinkStale(p)
    \/ Poll(p) \/ GiveUp(p)
    \/ Unlock(p) \/ UnlockFails(p) \/ ReleaseGate(p)

Next ==
    \/ \E p \in Process : Begin(p) \/ Step(p) \/ Crash(p) \/ Restart(p)
    \/ Age

Spec == Init /\ [][Next]_vars

\* A running process takes its next step, time passes, and the terminals keep
\* appending: an idle process that is up publishes again.
Fairness ==
    /\ \A p \in Process : WF_vars(Begin(p)) /\ WF_vars(Step(p))
    /\ WF_vars(Age)

FairSpec == Spec /\ Fairness

-----------------------------------------------------------------------------
TypeOK ==
    /\ gate \in Process \cup {None}
    /\ name \in LockFiles \cup {None}
    /\ pc \in [Process -> Steps]
    /\ second \in [Process -> BOOLEAN]
    /\ seen \in [Process -> {Blank} \cup (Process \X BOOLEAN)]
    /\ up \in [Process -> BOOLEAN]
    /\ faults \in 0..MaxFaults
    /\ robbed \in BOOLEAN

InRegion(p) == pc[p] = "in"

\* The region's lock file, at the path though the process that made it died.
Orphan == name # None /\ name.dead

\* Two terminals on the current binary are never both inside the region, with
\* any number of crashes, steals and previous-binary peers around them: an
\* append of one cannot fall between the size check and the rename of the other.
CurrentExclusive ==
    \A p, q \in Current : InRegion(p) /\ InRegion(q) => p = q

\* With previous-binary peers too, two processes are inside together only after
\* the lock file of one was removed while it was inside: a lock file that is
\* stolen, or unlinked by a failed writer, at any earlier moment is noticed by the
\* process that made it before it enters.
Exclusive ==
    ~robbed => \A p, q \in Process : InRegion(p) /\ InRegion(q) => p = q

\* No current process removes the lock file of another live current one, blank
\* or recorded, however long that one was descheduled after creating it: the
\* steal that looked at a dead holder's file never hits its successor's.
CurrentNeverRobbed ==
    [][\A p \in Current :
          /\ name # None /\ name' = None
          /\ name.owner \in Current \ {p} /\ ~name.dead
          => pc'[p] = pc[p]]_vars

\* A lock file left behind by a process that died, with or without its record,
\* does not block the session: once processes stop dying and a current one is
\* up and keeps publishing, the file is removed.
Settled == \A p \in Process : <>[](up[p]) \/ <>[](~up[p])
OrphanCleared ==
    Settled /\ (\E p \in Current : <>[](up[p])) => (Orphan ~> ~Orphan)

\* The lock among current processes implements RegionLock.
Inside == {p \in Current : InRegion(p)}
Region == INSTANCE RegionLock
             WITH Process <- Current,
                  holder <- IF Inside = {} THEN None ELSE CHOOSE p \in Inside : TRUE

\* Leaving, entering and dying in the region are the steps of a lock held by
\* one process at a time.
ImplementsRegionLock == Region!Spec
=============================================================================
