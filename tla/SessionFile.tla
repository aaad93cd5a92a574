---------------------------- MODULE SessionFile -----------------------------
(***************************************************************************)
(* The JSONL file of one session and the managers that write it            *)
(* (coding-agent/src/session/session-manager.ts and session-storage.ts).   *)
(* A manager lives in a process of its own; it appends lines to the file   *)
(* on the hot path, replaces the whole file synchronously, or replaces it  *)
(* in an asynchronous task that a later synchronous write supersedes.      *)
(* Processes die anywhere; a directory scan promotes the backup that the   *)
(* EPERM path leaves.  The publish lock is the one RegionLock promises.    *)
(*                                                                         *)
(* A line is a number, the header is line 0.  An edit of the transcript    *)
(* outside its entries' order (the header's directories, an entry pruned   *)
(* in place) is the edited header, and no entry; contents a manager writes *)
(* at different times have different sizes.                                *)
(* Inodes that no name and no descriptor refers to are reused.             *)
(***************************************************************************)
EXTENDS Naturals, Sequences, FiniteSets, SequencesExt

CONSTANTS
    Manager,        \* the processes that have, or may resume, the session
    Rewriter,       \* bound: those that also rewrite the file asynchronously
    Task,           \* bound: asynchronous rewrites one manager has at a time
    None,
    Ino,            \* inodes: more than the names and descriptors at one time
    MaxLines,       \* bound: entries ever appended
    MaxCrashes,     \* bound: processes that die
    MaxFaults       \* bound: failed writes, and renames refused with EPERM

ASSUME FileAssumption ==
    /\ None \notin Manager /\ None \notin Nat
    /\ IsFiniteSet(Manager) /\ Rewriter \subseteq Manager
    /\ MaxLines \in Nat /\ MaxCrashes \in Nat /\ MaxFaults \in Nat
    /\ Ino \subseteq Nat /\ IsFiniteSet(Ino)
    /\ 1 \in Ino /\ Cardinality(Ino) > 1 + MaxFaults + Cardinality(Manager)

VARIABLES
    \* the directory
    files,          \* content of each inode: a sequence of lines
    target,         \* the inode at the session's path, or None
    baks,           \* inodes of the .bak names, by mtime, the newest last
    scan,           \* the backup a scan decided to promote, or None
    \* each manager
    up,             \* is its process running with the session loaded?
    mem,            \* #entries, header first
    current,        \* #fileIsCurrent and not #rewriteRequired
    size,           \* #expectedDiskSize
    failed,         \* #diskFailure is latched
    writer,         \* inode of the open append descriptor, or None
    fenced,         \* #atomicRewriteFenceEpoch = #diskEpoch
    tasks,          \* the queued and running #rewriteAtomically
    op,             \* the synchronous write the process is blocked in, or None
    holder,         \* of the publish lock
    \* the environment and the history
    made, crashes, faults,
    raced           \* history: the directory was left to a race (see Raced)

disk == <<files, target, baks, scan>>
env == <<made, crashes, faults>>
vars == <<files, target, baks, scan, up, mem, current, size, failed, writer,
          fenced, tasks, op, holder, made, crashes, faults, raced>>

Lock == INSTANCE RegionLock WITH Process <- Manager

Header == 0
Edited == MaxLines + 1
Entry == 1..MaxLines
Line == 0..Edited

\* The bytes of a file: the edit weighs more than all lines together.
Size(s) == Len(s) + (IF Edited \in ToSet(s) THEN MaxLines + 2 ELSE 0)

\* Where an asynchronous rewrite is; live: its epoch is still #diskEpoch.
NoTask == [st |-> "none", live |-> FALSE, lines |-> <<>>, size |-> 0]
\* After a publish that threw the file is read back: same, it has the task's lines.
TaskSteps == {"none", "queued", "closing", "staging", "reading", "same", "other"}

\* A blocked write: the region is left by Done or Fail.
Op(kind, task, lines, sz) ==
    [kind |-> kind, task |-> task, step |-> "lock", lines |-> lines, size |-> sz,
     bak |-> None]

OpType ==
    [kind : {"append", "rewrite", "publish"}, task : Task \cup {None},
     step : {"lock", "in", "aside", "swapped"}, lines : Seq(Line), size : Nat,
     bak : Ino \cup {None}]

\* No write is taken for the absence of one.
ASSUME NoneIsNoWrite == None \notin OpType

SizeOf(i) == IF i = None THEN None ELSE Size(files[i])

-----------------------------------------------------------------------------
\* The directory after a step: what nothing refers to is gone, and the rename
\* of a backup that is gone will find nothing.
Disk(f, t, b, w) ==
    LET refs == {t} \cup ToSet(b) \cup {w[m] : m \in Manager}
    IN  /\ files' = [i \in Ino |-> IF i \in refs THEN f[i] ELSE <<>>]
        /\ target' = t
        /\ baks' = b
        /\ scan' = IF scan \in ToSet(b) THEN scan ELSE None
        /\ writer' = w

Fresh == CHOOSE i \in Ino : i \notin {target} \cup ToSet(baks) \cup {writer[m] : m \in Manager}

Closed(m) == [writer EXCEPT ![m] = None]

\* Writing to a backup makes it the newest.
Touched(b, i) == IF i \in ToSet(b) THEN Append(RemoveFirst(b, i), i) ELSE b

Others(m) == {n \in Manager \ {m} : up[n]}

\* The failed write is latched and the next append replaces the file.
Fail(m) ==
    /\ failed' = [failed EXCEPT ![m] = TRUE]
    /\ op' = [op EXCEPT ![m] = None]

\* A publish that throws reaches the awaiting task, which reads the file back.
Throw(m) ==
    IF op[m].kind = "publish"
      THEN /\ tasks' = [tasks EXCEPT ![m][op[m].task].st = "reading"]
           /\ op' = [op EXCEPT ![m] = None]
           /\ UNCHANGED <<failed, current>>
      ELSE /\ Fail(m)
           /\ current' = [current EXCEPT ![m] = @ /\ op[m].kind # "append"]
           /\ UNCHANGED tasks

Init ==
    /\ files = [i \in Ino |-> IF i = 1 THEN <<Header>> ELSE <<>>]
    /\ target = 1
    /\ baks = <<>>
    /\ scan = None
    /\ up = [m \in Manager |-> FALSE]
    /\ mem = [m \in Manager |-> <<>>]
    /\ current = [m \in Manager |-> FALSE]
    /\ size = [m \in Manager |-> 0]
    /\ failed = [m \in Manager |-> FALSE]
    /\ writer = [m \in Manager |-> None]
    /\ fenced = [m \in Manager |-> FALSE]
    /\ tasks = [m \in Manager |-> [t \in Task |-> NoTask]]
    /\ op = [m \in Manager |-> None]
    /\ Lock!Init
    /\ made = 0 /\ crashes = 0 /\ faults = 0
    /\ raced = FALSE

-----------------------------------------------------------------------------
\* #setSessionFile: loads an existing file with a valid header; a migrated or
\* repaired transcript asks for a rewrite.
Resume(m) ==
    /\ ~up[m]
    /\ target # None /\ files[target] # <<>> /\ Head(files[target]) \notin Entry
    /\ up' = [up EXCEPT ![m] = TRUE]
    /\ mem' = [mem EXCEPT ![m] = files[target]]
    /\ size' = [size EXCEPT ![m] = Size(files[target])]
    /\ \E migrated \in BOOLEAN : current' = [current EXCEPT ![m] = ~migrated]
    /\ UNCHANGED <<disk, failed, writer, fenced, tasks, op, holder, env, raced>>

\* The process runs its next synchronous piece of code.
Free(m) == up[m] /\ op[m] = None

\* #rewriteSynchronously: closes the writer, moves to a new epoch, which
\* supersedes every task, and publishes the whole transcript.
RewriteSync(m, lines) ==
    /\ op' = [op EXCEPT ![m] = Op("rewrite", None, lines, size[m])]
    /\ tasks' = [tasks EXCEPT ![m] = [t \in Task |-> [@[t] EXCEPT !.live = FALSE]]]
    /\ fenced' = [fenced EXCEPT ![m] = FALSE]
    /\ Disk(files, target, baks, Closed(m))

\* The hot path: the open writer, or a new one, whose open("a") creates a
\* missing file before the lock is taken.
AppendHot(m, e) ==
    /\ op' = [op EXCEPT ![m] = Op("append", None, <<e>>, size[m])]
    /\ UNCHANGED <<tasks, fenced>>
    /\ IF writer[m] # None
         THEN UNCHANGED <<disk, writer>>
         ELSE LET t == IF target = None THEN Fresh ELSE target
              IN  Disk(files, t, baks, [writer EXCEPT ![m] = t])

\* #recordEntry, #appendToSessionFile: the entry joins the transcript; a latched
\* failure, the fence of a running task or a divergent file make it a rewrite.
AppendEntry(m) ==
    /\ Free(m)
    /\ made < MaxLines
    /\ made' = made + 1
    /\ mem' = [mem EXCEPT ![m] = Append(@, made + 1)]
    /\ current' = [current EXCEPT ![m] = @ /\ ~failed[m]]
    /\ IF fenced[m] \/ ~current'[m]
         THEN RewriteSync(m, mem'[m])
         ELSE AppendHot(m, made + 1)
    /\ UNCHANGED <<up, size, failed, holder, crashes, faults, raced>>

\* flushSync: throws on a latched failure, writes only a divergent file.
FlushSync(m) ==
    /\ Free(m)
    /\ ~failed[m] /\ ~current[m]
    /\ RewriteSync(m, mem[m])
    /\ UNCHANGED <<up, mem, current, size, failed, holder, env, raced>>

-----------------------------------------------------------------------------
\* #withPublishLock around the blocked write.
EnterRegion(m) ==
    /\ op[m] # None /\ op[m].step = "lock"
    /\ Lock!Enter(m)
    /\ op' = [op EXCEPT ![m].step = "in"]
    /\ UNCHANGED <<disk, up, mem, current, size, failed, writer, fenced,
                   tasks, env, raced>>

\* The bounded wait ends with SessionLockError.
LockTimesOut(m) ==
    /\ op[m] # None /\ op[m].step = "lock"
    /\ ~Lock!Free
    /\ Throw(m)
    /\ UNCHANGED <<disk, up, mem, size, writer, fenced, holder, env, raced>>

At(m, kinds, step) == op[m] # None /\ op[m].kind \in kinds /\ op[m].step = step

\* Mutant: the descriptor is used as it was opened.
WriteLineUnfollowed(m) ==
    /\ At(m, {"append"}, "in")
    /\ Disk([files EXCEPT ![writer[m]] = @ \o op[m].lines], target,
            Touched(baks, writer[m]), writer)
    /\ size' = [size EXCEPT ![m] = @ + 1]
    /\ op' = [op EXCEPT ![m] = None]
    /\ Lock!Leave(m)
    /\ UNCHANGED <<up, mem, current, failed, fenced, tasks, env, raced>>

\* #reopenIfReplaced, then #writeNow: the descriptor follows a replaced path;
\* when the path is missing the line goes to the inode the descriptor has.
WriteLine(m) ==
    /\ At(m, {"append"}, "in")
    /\ LET i == IF target = None THEN writer[m] ELSE target
       IN  Disk([files EXCEPT ![i] = @ \o op[m].lines], target, Touched(baks, i),
                [writer EXCEPT ![m] = i])
    /\ size' = [size EXCEPT ![m] = @ + 1]
    /\ op' = [op EXCEPT ![m] = None]
    /\ Lock!Leave(m)
    /\ UNCHANGED <<up, mem, current, failed, fenced, tasks, env, raced>>

\* The write fails and its partial bytes are truncated away.
WriteLineFails(m) ==
    /\ At(m, {"append"}, "in")
    /\ faults < MaxFaults
    /\ faults' = faults + 1
    /\ Disk(files, target, baks, [writer EXCEPT ![m] = IF target = None THEN @ ELSE target])
    /\ Throw(m)
    /\ Lock!Leave(m)
    /\ UNCHANGED <<up, mem, size, fenced, made, crashes, raced>>

\* #assertExpectedSize fails: SessionWriteConflictError.
Conflict(m) ==
    /\ At(m, {"rewrite", "publish"}, "in")
    /\ SizeOf(target) # op[m].size
    /\ Throw(m)
    /\ Lock!Leave(m)
    /\ UNCHANGED <<disk, up, mem, size, writer, fenced, env, raced>>

Clear(m, t) == tasks' = [tasks EXCEPT ![m][t] = NoTask]

\* Mutant: any task lowers the fence.
EndTaskLowers(m, t) ==
    /\ Clear(m, t)
    /\ fenced' = [fenced EXCEPT ![m] = FALSE]

\* The task ends: it lowers the fence only when the fence is still its own.
EndTask(m, t) ==
    /\ Clear(m, t)
    /\ fenced' = [fenced EXCEPT ![m] = @ /\ ~tasks[m][t].live]

\* Mutant: a rewrite does not record what it wrote.
DoneUnrecorded(m) ==
    /\ op' = [op EXCEPT ![m] = None]
    /\ current' = [current EXCEPT ![m] = TRUE]
    /\ UNCHANGED size
    /\ IF op[m].kind = "publish"
         THEN EndTask(m, op[m].task) /\ UNCHANGED failed
         ELSE /\ failed' = [failed EXCEPT ![m] = FALSE]
              /\ UNCHANGED <<tasks, fenced>>

\* The staged file is at the path, and its size is recorded.  A task is resumed for
\* that: writeTextAtomic awaits nothing after its rename, so that nothing else of
\* the process runs in between, and the task's epoch has not passed.
Done(m) ==
    /\ op' = [op EXCEPT ![m] = None]
    /\ size' = [size EXCEPT ![m] = Size(op[m].lines)]
    /\ current' = [current EXCEPT ![m] = TRUE]
    /\ IF op[m].kind = "publish"
         THEN EndTask(m, op[m].task) /\ UNCHANGED failed
         ELSE /\ failed' = [failed EXCEPT ![m] = FALSE]
              /\ UNCHANGED <<tasks, fenced>>

Replace(m, b) == Disk([files EXCEPT ![Fresh] = op[m].lines], Fresh, b, writer)

\* Mutant: rename without the size check.
RenameUnchecked(m) ==
    /\ At(m, {"rewrite", "publish"}, "in")
    /\ Replace(m, baks)
    /\ Done(m)
    /\ Lock!Leave(m)
    /\ UNCHANGED <<up, mem, env, raced>>

\* The check passed and rename replaced the file.
Rename(m) ==
    /\ At(m, {"rewrite", "publish"}, "in")
    /\ SizeOf(target) = op[m].size
    /\ Replace(m, baks)
    /\ Done(m)
    /\ Lock!Leave(m)
    /\ UNCHANGED <<up, mem, env, raced>>

\* #replaceSessionFileAfterEpermSync: rename was refused, the file is moved
\* aside to a .bak name.
MoveAside(m) ==
    /\ faults < MaxFaults
    /\ faults' = faults + 1
    /\ At(m, {"rewrite", "publish"}, "in")
    /\ SizeOf(target) = op[m].size
    /\ Disk(files, None, Append(baks, target), writer)
    /\ op' = [op EXCEPT ![m].step = "aside", ![m].bak = target]
    /\ UNCHANGED <<up, mem, current, size, failed, fenced, tasks, holder, made, crashes, raced>>

\* The second rename puts the staged file at the path ...
RenameAgain(m) ==
    /\ At(m, {"rewrite", "publish"}, "aside")
    /\ Replace(m, baks)
    /\ op' = [op EXCEPT ![m].step = "swapped"]
    /\ UNCHANGED <<up, mem, current, size, failed, fenced, tasks, holder, env, raced>>

\* ... and the backup is unlinked.
UnlinkBackup(m) ==
    /\ At(m, {"rewrite", "publish"}, "swapped")
    /\ Disk(files, target, RemoveFirst(baks, op[m].bak), writer)
    /\ Done(m)
    /\ Lock!Leave(m)
    /\ UNCHANGED <<up, mem, env, raced>>

\* The second rename failed: the backup goes back and the write throws.
RollBack(m) ==
    /\ At(m, {"rewrite", "publish"}, "aside")
    /\ IF op[m].bak \in ToSet(baks)
         THEN Disk(files, op[m].bak, RemoveFirst(baks, op[m].bak), writer)
         ELSE UNCHANGED <<disk, writer>>
    /\ Throw(m)
    /\ Lock!Leave(m)
    /\ UNCHANGED <<up, mem, size, fenced, env, raced>>

-----------------------------------------------------------------------------
\* rewriteEntries, #persistWorkspaceDirectoriesChange, ensureOnDisk: the
\* transcript may have been edited, and #rewriteAtomically is scheduled at the
\* present epoch.
Schedule(m, t) ==
    /\ Free(m)
    /\ m \in Rewriter
    /\ tasks[m][t] = NoTask
    /\ \A u \in Task : tasks[m][u].st # "queued"
    /\ tasks' = [tasks EXCEPT ![m][t] = [NoTask EXCEPT !.st = "queued", !.live = TRUE]]
    /\ \/ UNCHANGED <<mem, current>>
       \/ /\ Head(mem[m]) = Header
          /\ mem' = [mem EXCEPT ![m][1] = Edited]
          /\ \E required \in BOOLEAN : current' = [current EXCEPT ![m] = @ /\ ~required]
    /\ UNCHANGED <<disk, up, size, failed, writer, fenced,
                   op, holder, env, raced>>

\* The disk chain reaches the task: a stale one and one behind a failure do
\* nothing; the others raise the fence and close the writer.
StartTask(m, t) ==
    /\ Free(m)
    /\ tasks[m][t].st = "queued"
    /\ \A u \in Task \ {t} : tasks[m][u] = NoTask \/ ~tasks[m][u].live
    /\ IF tasks[m][t].live /\ ~failed[m]
         THEN /\ tasks' = [tasks EXCEPT ![m][t].st = "closing"]
              /\ fenced' = [fenced EXCEPT ![m] = TRUE]
              /\ Disk(files, target, baks, Closed(m))
         ELSE /\ Clear(m, t)
              /\ UNCHANGED <<disk, writer, fenced>>
    /\ UNCHANGED <<up, mem, current, size, failed, op, holder, env, raced>>

\* The writer is closed: the body and the expected size are taken.
Stage(m, t) ==
    /\ Free(m)
    /\ tasks[m][t].st = "closing"
    /\ IF tasks[m][t].live
         THEN /\ tasks' = [tasks EXCEPT ![m][t] =
                             [@ EXCEPT !.st = "staging", !.lines = mem[m], !.size = size[m]]]
              /\ UNCHANGED fenced
         ELSE EndTask(m, t)
    /\ UNCHANGED <<disk, up, mem, current, size, failed, writer, op,
                   holder, env, raced>>

\* Mutant: a superseded task waits for its epoch.
PublishLive(m, t) ==
    /\ Free(m)
    /\ tasks[m][t].st = "staging"
    /\ tasks[m][t].live
    /\ op' = [op EXCEPT ![m] = Op("publish", t, tasks[m][t].lines, tasks[m][t].size)]
    /\ UNCHANGED <<disk, up, mem, current, size, failed, writer, holder,
                   env, raced, tasks, fenced>>

\* writeTextAtomic after its temp file is written: commitGuard discards the
\* body of a superseded task; the others go for the lock without a yield.
Publish(m, t) ==
    /\ Free(m)
    /\ tasks[m][t].st = "staging"
    /\ IF tasks[m][t].live
         THEN /\ op' = [op EXCEPT ![m] =
                          Op("publish", t, tasks[m][t].lines, tasks[m][t].size)]
              /\ UNCHANGED <<tasks, fenced>>
         ELSE EndTask(m, t) /\ UNCHANGED op
    /\ UNCHANGED <<disk, up, mem, current, size, failed, writer, holder,
                   env, raced>>

\* The publish threw and the file was asked for: whatever is at the path when it is
\* read, also while the process is blocked.
ReadBack(m, t) ==
    /\ up[m] /\ tasks[m][t].st = "reading"
    /\ LET same == target # None /\ files[target] = tasks[m][t].lines
       IN  tasks' = [tasks EXCEPT ![m][t].st = IF same THEN "same" ELSE "other"]
    /\ UNCHANGED <<disk, up, mem, current, size, failed, writer, fenced, op, holder,
                   env, raced>>

\* Mutant: the size of whatever is at the path is recorded.
SettleFailedAnySize(m, t) ==
    /\ Free(m)
    /\ tasks[m][t].st \in {"same", "other"}
    /\ size' = [size EXCEPT ![m] = SizeOf(target)]
    /\ failed' = [failed EXCEPT ![m] = TRUE]
    /\ EndTask(m, t)
    /\ UNCHANGED <<disk, up, mem, current, writer, op, holder, env, raced>>

\* The task is resumed with what was read: when that was its body, its size is
\* recorded; the failure is latched, also when the epoch has passed meanwhile.
SettleFailed(m, t) ==
    /\ Free(m)
    /\ tasks[m][t].st \in {"same", "other"}
    /\ size' = IF tasks[m][t].st = "same"
                 THEN [size EXCEPT ![m] = Size(tasks[m][t].lines)] ELSE size
    /\ failed' = [failed EXCEPT ![m] = TRUE]
    /\ EndTask(m, t)
    /\ UNCHANGED <<disk, up, mem, current, writer, op, holder, env, raced>>

-----------------------------------------------------------------------------
\* A directory left without its primary file is safe as long as nobody else
\* works in it.  raced records that somebody did: a process that dies, or
\* cannot roll back, between the two renames while another terminal has the
\* session open or created the path, or a scan whose rename comes too late: the
\* primary is back, or a newer backup was left.
Raced(m) ==
    /\ op[m] # None /\ op[m].step = "aside"
    /\ Others(m) # {} \/ target \notin {None, op[m].bak}

\* The rollback fails too: only the backup is left.
RollBackFails(m) ==
    /\ At(m, {"rewrite", "publish"}, "aside")
    /\ raced' = (raced \/ Raced(m))
    /\ Throw(m)
    /\ Lock!Leave(m)
    /\ UNCHANGED <<disk, up, mem, size, writer, fenced, env>>

\* A process dies at any point; the kernel closes its descriptor and its gate.
Crash(m) ==
    /\ up[m]
    /\ crashes < MaxCrashes
    /\ crashes' = crashes + 1
    /\ up' = [up EXCEPT ![m] = FALSE]
    /\ mem' = [mem EXCEPT ![m] = <<>>]
    /\ current' = [current EXCEPT ![m] = FALSE]
    /\ size' = [size EXCEPT ![m] = 0]
    /\ failed' = [failed EXCEPT ![m] = FALSE]
    /\ fenced' = [fenced EXCEPT ![m] = FALSE]
    /\ tasks' = [tasks EXCEPT ![m] = [t \in Task |-> NoTask]]
    /\ op' = [op EXCEPT ![m] = None]
    /\ Disk(files, target, baks, Closed(m))
    /\ IF holder = m THEN Lock!Leave(m) ELSE UNCHANGED holder
    /\ raced' = (raced \/ Raced(m))
    /\ UNCHANGED <<made, faults>>

\* recoverOrphanedBackups, in any terminal that lists the sessions: the newest
\* backup of a missing primary is chosen ...
Scan ==
    /\ scan = None
    /\ target = None /\ baks # <<>>
    /\ scan' = baks[Len(baks)]
    /\ UNCHANGED <<files, target, baks, up, mem, current, size, failed, writer,
                   fenced, tasks, op, holder, env, raced>>

\* ... and renamed to the path, without the publish lock.
Promote ==
    /\ scan # None
    /\ Disk(files, scan, RemoveFirst(baks, scan), writer)
    /\ raced' = (raced \/ target # None \/ scan # baks[Len(baks)])
    /\ UNCHANGED <<up, mem, current, size, failed, fenced, tasks, op, holder, env>>

-----------------------------------------------------------------------------
Region(m) ==
    \/ EnterRegion(m) \/ LockTimesOut(m)
    \/ WriteLine(m) \/ WriteLineFails(m)
    \/ Conflict(m) \/ Rename(m)
    \/ MoveAside(m) \/ RenameAgain(m) \/ UnlinkBackup(m)
    \/ RollBack(m) \/ RollBackFails(m)

Resumed(m, t) ==
    \/ StartTask(m, t) \/ Stage(m, t) \/ Publish(m, t)
    \/ ReadBack(m, t) \/ SettleFailed(m, t)

Next ==
    \/ \E m \in Manager :
          \/ Resume(m) \/ AppendEntry(m) \/ FlushSync(m)
          \/ Region(m)
          \/ \E t \in Task : Schedule(m, t) \/ Resumed(m, t)
          \/ Crash(m)
    \/ Scan \/ Promote

Spec == Init /\ [][Next]_vars

\* A blocked write of a live process goes on.  Its event loop is fair to the
\* promises that are ready: a rewrite whose close, staging or publish finished is
\* resumed, however many synchronous writes block the process in between.
Fairness ==
    \A m \in Manager :
       /\ WF_vars(Region(m))
       /\ \A t \in Task : SF_vars(Resumed(m, t))

FairSpec == Spec /\ Fairness

-----------------------------------------------------------------------------
TypeOK ==
    /\ files \in [Ino -> Seq(Line)]
    /\ target \in Ino \cup {None}
    /\ baks \in Seq(Ino)
    /\ scan \in Ino \cup {None}
    /\ up \in [Manager -> BOOLEAN]
    /\ mem \in [Manager -> Seq(Line)]
    /\ current \in [Manager -> BOOLEAN]
    /\ size \in [Manager -> Nat]
    /\ failed \in [Manager -> BOOLEAN]
    /\ writer \in [Manager -> Ino \cup {None}]
    /\ fenced \in [Manager -> BOOLEAN]
    /\ tasks \in [Manager -> [Task -> [st : TaskSteps, live : BOOLEAN,
                                       lines : Seq(Line), size : Nat]]]
    /\ op \in [Manager -> OpType \cup {None}]
    /\ holder \in Manager \cup {None}
    /\ made \in 0..MaxLines /\ crashes \in 0..MaxCrashes /\ faults \in 0..MaxFaults
    /\ raced \in BOOLEAN

\* What a recovery finds: the file or, while it is moved aside, its backup.
Aside == {m \in Manager : op[m] # None /\ op[m].step = "aside"}
Visible ==
    IF Aside # {} THEN files[op[CHOOSE m \in Aside : TRUE].bak]
    ELSE IF target # None THEN files[target]
    ELSE IF baks # <<>> THEN files[baks[Len(baks)]]
    ELSE <<>>

\* s has every entry of the transcript t, once and in the order of t.
Holds(s, t) ==
    /\ ToSet(t) \cap Entry \subseteq ToSet(s)
    /\ \A i, j \in DOMAIN t, p, q \in DOMAIN s :
          s[p] = t[i] /\ s[q] = t[j] /\ {t[i], t[j]} \subseteq Entry => (i < j <=> p < q)

AtRest(m) == Free(m) /\ ~failed[m]

\* The publish of the task has thrown: its failure is going to be latched.
Threw(m, t) == tasks[m][t].st \in {"reading", "same", "other"}
FailureFree == \A m \in Manager : ~failed[m] /\ \A t \in Task : ~Threw(m, t)

\* Once an append returned and no failure is latched, the file holds the whole
\* transcript in the order of the conversation and once, between the lines of
\* other terminals, whatever rewrites were queued, superseded, refused or rolled
\* back and whichever process died, as long as no directory was left to a race
\* (raced): between the two renames a process died, or could not roll back, while
\* another terminal had the session open, or a scan promoted the backup too late.
DurableInOrder ==
    ~raced => \A m \in Manager : AtRest(m) => Holds(Visible, mem[m])

\* No step takes away a line that a recovery would have found, not a rewrite by
\* a terminal that does not know the line, nor a crash between two renames, with
\* the exception of DurableInOrder: CrashStrandsNothing says what is left of it.
NothingRemoved ==
    [][~raced' => ToSet(Visible) \cap Entry \subseteq ToSet(Visible')]_vars

\* The backups are promoted "so a crash between the two renames in the EPERM-rewrite
\* path does not leave the user's last good state stranded outside the loader's
\* view" (session-listing.ts, recoverOrphanedBackups): where no terminal has a
\* failed write and no scan is at work, no step takes away a line that a recovery
\* would have found.
CrashStrandsNothing ==
    [][scan = None /\ FailureFree /\ FailureFree'
       => ToSet(Visible) \cap Entry \subseteq ToSet(Visible')]_vars

\* #expectedDiskSize is the size of the manager's own transcript, so that it
\* differs from the size of the file exactly when another terminal wrote to it;
\* only an edit whose rewrite has not ended is missing from it.  It has the
\* exception of DurableInOrder, and is silent while a rewrite is in flight or a
\* failure is latched.
SizeIsOwn ==
    ~raced => \A m \in Manager :
        AtRest(m) /\ (\A t \in Task : tasks[m][t] = NoTask) => size[m] = Size(mem[m])

\* A rewrite whose epoch passed does not touch the file nor lower the fence of its
\* successor.  It ends at its next step without a trace, unless its publish had
\* thrown before: then it reads the file back, may record the size of what it
\* read, and latches its failure although it was superseded.
SupersededIsSilent ==
    [][\A m \in Manager, t \in Task :
          /\ up'[m] /\ ~tasks[m][t].live
          /\ tasks[m][t].st # "none" /\ tasks'[m][t] # tasks[m][t]
          => /\ target' = target /\ files' = files
             /\ current' = current /\ fenced' = fenced
             /\ ~Threw(m, t) =>
                   tasks'[m][t] = NoTask /\ size' = size /\ failed' = failed]_vars

\* A process that keeps running is never blocked in a write for ever: every
\* rewrite it queued ends, and the fence is lowered, also when the rewrite throws.
RewritesEnd ==
    \A m \in Manager :
        /\ \A t \in Task : tasks[m][t] # NoTask ~> tasks[m][t] = NoTask
        /\ fenced[m] ~> ~fenced[m]
=============================================================================
