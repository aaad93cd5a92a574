--------------------------- MODULE AgentLifecycle ---------------------------
(***************************************************************************)
(* The registration of one keep-alive subagent id: the registry            *)
(* (coding-agent/src/registry/agent-registry.ts), the lifecycle manager    *)
(* that parks and revives its session (agent-lifecycle.ts), and the        *)
(* parties that race it: senders of messages (irc/bus.ts), the executor    *)
(* that finishes a run, kills and cancels, the scan that restores parked   *)
(* agents from disk, fresh spawns that want the id, and the teardown.      *)
(*                                                                         *)
(* Timers, I/O and other parties' calls are macrotasks; a continuation     *)
(* that is ready runs before any of them (Quiet).                          *)
(***************************************************************************)
EXTENDS Naturals

CONSTANTS
    Message,        \* messages sent to the agent, one call of #deliver each
    MaxRef,         \* bound: generations (AgentRefs) of the id
    MaxSession,     \* bound: sessions built for it
    Spawned,        \* bound: the refs, by number, that a spawn may register ...
    Restored,       \* bound: ... and those that a scan of the disk may
    None

ASSUME LifecycleAssumption == MaxRef \in Nat /\ MaxSession \in Nat /\ None \notin Nat

Ref == 1..MaxRef
Session == 1..MaxSession
Releaser == {"hub", "exec", "main"}

Adoptions == [ref : Ref, revive : BOOLEAN, owned : BOOLEAN, timer : BOOLEAN]
Parks == [ref : Ref, sess : Session, step : {"yield", "dispose"}, cancelled : BOOLEAN]
Revivals == [step : {"factory", "build"}, cold : BOOLEAN, sess : {None}]
            \cup [step : {"claimed"}, cold : BOOLEAN, sess : Session]
Releases == [ref : Ref, kill : BOOLEAN, owned : BOOLEAN, sess : Session \cup {None},
             step : {"park", "persist", "dispose", "cleanup"}]
Runs == [sess : Session, over : BOOLEAN]

ASSUME NoneInFlight == None \notin Adoptions \cup Parks \cup Revivals \cup Releases \cup Runs

VARIABLES
    \* the registry
    reg,            \* the AgentRef the id resolves to, or None
    status, att,    \* of each ref: its status and its session, or None
    \* the sessions
    life,           \* "none", "live", "disposing", "gone"
    own,            \* the ref a session was built for
    turn,           \* "no", "waking" (a wake turn is scheduled), "on"
    synced,         \* does syncSessionStatus mirror the session's run state?
    \* the lifecycle manager
    adopted,        \* #adopted: ref, has it a reviver, an onRelease, an armed timer
    orphans,        \* armed timers of adoptions that were replaced
    park,           \* #parks: ref, session, step, cancelled
    rev,            \* of each ref: the revival in flight, or None
    revivals,       \* #revivals: the ref whose revival callers join
    disposed,
    rel,            \* the release each releaser is in, or None
    \* its callers
    con,            \* the ref of a spawn whose session is being constructed
    run,            \* the session of an executor run, and is its turn over?
    probe,          \* the ref #reclaimDeadCorpse is probing
    pc, arg,        \* where each #deliver is, and the ref or session it holds
    untimed,        \* history: refs whose adoption a stale revival replaced, or
                    \* whose timer the park of an older ref used up
    leaked,         \* history: sessions a release or a reviver lost with their ref
    strayed         \* history: refs whose revival an orphan timer parked

registry == <<reg, status, att>>
sessions == <<life, own, turn, synced>>
manager == <<adopted, orphans, park, rev, revivals, disposed, rel>>
callers == <<con, run, probe>>
senders == <<pc, arg>>
history == <<untimed, leaked, strayed>>
vars == <<registry, sessions, manager, callers, senders, history>>

Born == {s \in Session : life[s] # "none"}
Known == {r \in Ref : status[r] # "none"}
NewSession == CHOOSE s \in Session : life[s] = "none"
NewRef == CHOOSE r \in Ref : status[r] = "none"

Attached == IF reg = None THEN None ELSE att[reg]

Init ==
    /\ reg = None
    /\ status = [r \in Ref |-> "none"]
    /\ att = [r \in Ref |-> None]
    /\ life = [s \in Session |-> "none"]
    /\ own = [s \in Session |-> None]
    /\ turn = [s \in Session |-> "no"]
    /\ synced = [s \in Session |-> FALSE]
    /\ adopted = None /\ orphans = 0 /\ park = None
    /\ rev = [r \in Ref |-> None]
    /\ revivals = None
    /\ disposed = FALSE
    /\ rel = [x \in Releaser |-> None]
    /\ con = None /\ run = None /\ probe = None
    /\ pc = [m \in Message |-> "new"]
    /\ arg = [m \in Message |-> None]
    /\ untimed = {} /\ leaked = {} /\ strayed = {}

-----------------------------------------------------------------------------
\* The adoption a after #onRegistryEvent for r: a ref that runs is not timed, one
\* that goes idle is, unless a park is in flight; a removed one is not adopted.
Adopts(a, r) == ~disposed /\ a # None /\ a.ref = r
OnStatus(a, r, st) ==
    IF Adopts(a, r) /\ (st = "running" \/ (st = "idle" /\ park = None))
      THEN [a EXCEPT !.timer = (st = "idle")]
      ELSE a
OnRemoved(a, r) == IF Adopts(a, r) THEN None ELSE a

\* setStatus: aborted is terminal, and only a change is an event.
SetStatus(r, st) ==
    IF status[r] \in {st, "aborted"}
      THEN UNCHANGED <<status, adopted>>
      ELSE /\ status' = [status EXCEPT ![r] = st]
           /\ adopted' = OnStatus(adopted, r, st)

\* unregister(id, ref).
Unregister(r) ==
    IF reg = r
      THEN /\ reg' = None
           /\ adopted' = OnRemoved(adopted, r)
      ELSE UNCHANGED <<reg, adopted>>

Dispose(s) == life' = [life EXCEPT ![s] = IF @ = "live" THEN "disposing" ELSE @]

-----------------------------------------------------------------------------
\* A continuation is ready: a park that yielded, or a caller whose promise
\* settled.  Nothing else runs before it, but the rest of the task that called
\* park(id) before the park is resumed (SameTick).
Ready(m) ==
    \/ pc[m] = "got"
    \/ pc[m] \in {"keep", "park"} /\ park = None
SameTick ==
    /\ \A m \in Message : ~Ready(m)
    /\ \A x \in Releaser : rel[x] # None =>
         /\ rel[x].step = "park" => park # None /\ park.ref = rel[x].ref
         /\ rel[x].step = "cleanup" => rel[x].owned
Quiet == SameTick /\ (park # None => park.step # "yield")

\* #deliver ends with a failed receipt.
Fail(m) ==
    /\ pc' = [pc EXCEPT ![m] = "failed"]
    /\ arg' = [arg EXCEPT ![m] = None]

\* ensureLive returns a session; #deliver is resumed in a microtask.
Got(m, s) ==
    /\ pc' = [pc EXCEPT ![m] = "got"]
    /\ arg' = [arg EXCEPT ![m] = s]

Await(m, what, r) ==
    /\ pc' = [pc EXCEPT ![m] = what]
    /\ arg' = [arg EXCEPT ![m] = r]

Warm(r) == adopted # None /\ adopted.ref = r /\ adopted.revive

\* ensureLive with no park in flight: the live session, a revival in flight, or
\* a new one (#resolveAndRevive up to its first await).
Resolve(m) ==
    /\ UNCHANGED <<park, orphans, disposed, rel>>
    /\ \/ /\ Attached # None
          /\ Got(m, Attached)
          /\ UNCHANGED <<rev, revivals>>
       \/ /\ reg # None /\ Attached = None /\ revivals = reg
          /\ Await(m, "revive", reg)
          /\ UNCHANGED <<rev, revivals>>
       \/ /\ reg # None /\ Attached = None /\ revivals # reg
          /\ status[reg] = "parked"
          /\ rev' = [rev EXCEPT ![reg] = [step |-> IF Warm(reg) THEN "build" ELSE "factory",
                                          cold |-> ~Warm(reg), sess |-> None]]
          /\ revivals' = reg
          /\ Await(m, "revive", reg)
       \/ /\ reg # None => Attached = None /\ revivals # reg /\ status[reg] # "parked"
          /\ Fail(m)
          /\ UNCHANGED <<rev, revivals>>

\* Mutant: a park in flight is not looked at before the registry.
EnsureLiveUnparked(m) == Resolve(m) /\ UNCHANGED adopted

\* ensureLive: a park that has not detached yet is cancelled, one that has is
\* awaited.
EnsureLive(m) ==
    IF park = None THEN Resolve(m) /\ UNCHANGED adopted
    ELSE /\ IF Attached # None /\ park.step = "yield"
              THEN /\ park' = [park EXCEPT !.cancelled = TRUE]
                   /\ Await(m, "keep", reg)
              ELSE /\ Await(m, "park", reg)
                   /\ UNCHANGED park
         /\ UNCHANGED <<adopted, rev, revivals, orphans, disposed, rel>>

\* #deliver past the gate: the message goes to the session the id has now; an
\* idle one is woken, a disposed one leaves the message in the mailbox.
Deliver(m) ==
    LET s == Attached
    IN  /\ pc' = [pc EXCEPT ![m] = IF s = None THEN "failed"
                                   ELSE IF life[s] = "live" THEN "delivered"
                                   ELSE "buffered"]
        /\ arg' = [arg EXCEPT ![m] = None]
        /\ turn' = IF s # None /\ life[s] = "live" /\ turn[s] = "no"
                     THEN [turn EXCEPT ![s] = "waking"] ELSE turn
        /\ UNCHANGED <<registry, life, own, synced, manager, callers, history>>

\* #deliver: an unknown or killed agent fails at once, one the manager owns or
\* is parking, and a parked one, goes through ensureLive.
Gated ==
    \/ status[reg] = "parked"
    \/ park # None /\ ~park.cancelled
    \/ adopted # None

Send(m) ==
    /\ pc[m] = "new" /\ ~disposed
    /\ \/ /\ reg = None \/ (reg # None /\ status[reg] = "aborted")
          /\ Fail(m)
          /\ UNCHANGED <<registry, sessions, manager, callers, history>>
       \/ /\ reg # None /\ status[reg] # "aborted"
          /\ IF Gated
               THEN /\ EnsureLive(m)
                    /\ UNCHANGED <<registry, sessions, callers, history>>
               ELSE Deliver(m)

Injects(m) == pc[m] = "got" /\ Deliver(m)

\* Mutant: the timer the park cleared stays cleared.
KeptUntimed(m) ==
    /\ pc[m] = "keep" /\ park = None
    /\ IF Attached # None
         THEN /\ Got(m, Attached)
              /\ UNCHANGED manager
         ELSE Resolve(m) /\ UNCHANGED adopted
    /\ UNCHANGED <<registry, sessions, callers, history>>

\* ensureLive after the park it cancelled: the session is kept, and timed again.
Kept(m) ==
    /\ pc[m] = "keep" /\ park = None
    /\ IF Attached # None
         THEN /\ Got(m, Attached)
              /\ adopted' = IF /\ adopted # None /\ adopted.ref = arg[m]
                               /\ status[arg[m]] = "idle"
                              THEN [adopted EXCEPT !.timer = TRUE] ELSE adopted
              /\ UNCHANGED <<park, rev, revivals, orphans, disposed, rel>>
         ELSE Resolve(m) /\ UNCHANGED adopted
    /\ UNCHANGED <<registry, sessions, callers, history>>

\* ... and after the park it waited for.
Parked(m) ==
    /\ pc[m] = "park" /\ park = None
    /\ Resolve(m)
    /\ UNCHANGED <<adopted, registry, sessions, callers, history>>

-----------------------------------------------------------------------------
\* park(id): a park in flight is joined, be it of an older ref; else the adopted
\* ref is parked, if it is the id's and has a session.
Parking ==
    IF park = None /\ adopted # None /\ reg = adopted.ref /\ Attached # None
      THEN [ref |-> reg, sess |-> Attached, step |-> "yield", cancelled |-> FALSE]
      ELSE park

\* The TTL elapses, and park(id) begins.  Where it joins the park of an older ref
\* the timer is spent.
TimerFires ==
    /\ Quiet
    /\ adopted # None /\ adopted.timer
    /\ adopted' = [adopted EXCEPT !.timer = FALSE]
    /\ park' = Parking
    /\ untimed' = untimed \cup
         IF park # None /\ reg = adopted.ref /\ park.ref # reg THEN {reg} ELSE {}
    /\ UNCHANGED <<registry, sessions, orphans, rev, revivals, disposed, rel, callers,
                   senders, leaked, strayed>>

\* The timer of an adoption that was replaced parks whatever the id is by now,
\* idle or not, also an agent that is being revived.
OrphanFires ==
    /\ Quiet
    /\ orphans > 0
    /\ orphans' = orphans - 1
    /\ park' = Parking
    /\ IF park' = park
         THEN UNCHANGED <<adopted, strayed>>
         ELSE /\ adopted' = [adopted EXCEPT !.timer = FALSE]
              /\ strayed' = strayed \cup IF rev[reg] # None THEN {reg} ELSE {}
    /\ UNCHANGED <<registry, sessions, rev, revivals, disposed, rel, callers, senders,
                   untimed, leaked>>

\* Mutant: the session is disposed before it is detached.
ParkDisposesFirst ==
    /\ park # None /\ park.step = "yield"
    /\ IF park.cancelled THEN park' = None /\ UNCHANGED life
       ELSE /\ park' = [park EXCEPT !.step = "dispose"]
            /\ Dispose(park.sess)
    /\ UNCHANGED <<registry, own, turn, synced, adopted, rev, revivals, orphans, disposed,
                   rel, callers, senders, history>>

\* park, resumed: it gives up when it was cancelled or the agent is another one
\* now; else it detaches, marks the ref parked and starts the disposal.
ParkCommits ==
    /\ park # None /\ park.step = "yield"
    /\ IF \/ park.cancelled
          \/ reg # park.ref \/ Attached # park.sess
          \/ adopted = None \/ adopted.ref # park.ref
         THEN park' = None /\ UNCHANGED <<att, status, life>>
         ELSE /\ park' = IF life[park.sess] = "gone" THEN None
                          ELSE [park EXCEPT !.step = "dispose"]
              /\ att' = [att EXCEPT ![reg] = None]
              /\ status' = [status EXCEPT ![reg] = "parked"]
              /\ Dispose(park.sess)
    /\ UNCHANGED <<reg, own, turn, synced, adopted, rev, revivals, orphans, disposed, rel,
                   callers, senders, history>>

\* unregisterUnlessParked, at the end of a session's disposal.
Spared(r) ==
    \/ status[r] = "parked"
    \/ status[r] = "aborted" /\ att[r] = None
    \/ park # None /\ ~park.cancelled /\ park.ref = r

\* A disposal ends: the ref goes with its session unless it is spared, and the
\* park and the releases that waited for it go on.
SessionGone(s) ==
    /\ Quiet
    /\ life[s] = "disposing"
    /\ life' = [life EXCEPT ![s] = "gone"]
    /\ turn' = [turn EXCEPT ![s] = "no"]
    /\ run' = IF run # None /\ run.sess = s THEN [run EXCEPT !.over = TRUE] ELSE run
    /\ IF reg = own[s] /\ ~Spared(reg)
         THEN Unregister(reg)
         ELSE UNCHANGED <<reg, adopted>>
    /\ park' = IF park # None /\ park.sess = s THEN None ELSE park
    /\ rel' = [x \in Releaser |->
                 IF rel[x] # None /\ rel[x].step = "dispose" /\ rel[x].sess = s
                   THEN [rel[x] EXCEPT !.step = "cleanup"] ELSE rel[x]]
    /\ UNCHANGED <<status, att, own, synced, rev, revivals, orphans, disposed, con, probe,
                   senders, history>>

-----------------------------------------------------------------------------
\* The revival of r ends: its callers get the session, or a failed receipt.
RevivalOver(r) ==
    /\ rev' = [rev EXCEPT ![r] = None]
    /\ revivals' = IF revivals = r THEN None ELSE revivals
Waiting(r) == {m \in Message : pc[m] = "revive" /\ arg[m] = r}
RevivalFails(r) ==
    /\ RevivalOver(r)
    /\ pc' = [m \in Message |-> IF m \in Waiting(r) THEN "failed" ELSE pc[m]]
    /\ arg' = [m \in Message |-> IF m \in Waiting(r) THEN None ELSE arg[m]]

\* The reviver threw, or what it built is stale: a cold adoption is dropped.
Dropped(r) ==
    IF rev[r].cold /\ adopted # None /\ adopted.ref = r THEN None ELSE adopted

At(r, step) == rev[r] # None /\ rev[r].step = step

\* The factory of a cold revival returns a reviver or none.  The adoption is
\* made before the ref is looked at again: it may replace that of a newer ref,
\* whose timer nobody clears.
FactoryReturns(r) ==
    /\ Quiet
    /\ At(r, "factory")
    /\ \E found \in BOOLEAN :
         /\ IF found /\ ~disposed
              THEN /\ adopted' = [ref |-> r, revive |-> TRUE, owned |-> FALSE, timer |-> FALSE]
                   /\ untimed' = untimed \cup
                        IF adopted # None /\ adopted.ref = reg /\ reg # r
                          THEN {reg} ELSE {}
                   /\ orphans' = IF adopted # None /\ adopted.timer
                                   THEN orphans + 1 ELSE orphans
              ELSE UNCHANGED <<adopted, orphans, untimed>>
         /\ IF found /\ ~disposed /\ reg = r /\ status[r] = "parked"
              THEN /\ rev' = [rev EXCEPT ![r].step = "build"]
                   /\ UNCHANGED <<revivals, senders>>
              ELSE RevivalFails(r)
    /\ UNCHANGED <<registry, sessions, park, disposed, rel, callers, leaked, strayed>>

\* createAgentSession claims the parked ref and attaches the new session, which
\* runs from then on; a ref that was replaced or killed is not claimed.
BuildEnds(r) ==
    /\ Quiet
    /\ At(r, "build")
    /\ Session # Born
    /\ IF reg = r /\ status[r] = "parked"
         THEN LET s == NewSession
              IN  /\ life' = [life EXCEPT ![s] = "live"]
                  /\ own' = [own EXCEPT ![s] = r]
                  /\ att' = [att EXCEPT ![r] = s]
                  /\ SetStatus(r, "running")
                  /\ rev' = [rev EXCEPT ![r].step = "claimed", ![r].sess = s]
                  /\ UNCHANGED <<revivals, senders>>
         ELSE /\ RevivalFails(r)
              /\ adopted' = Dropped(r)
              /\ UNCHANGED <<life, own, att, status>>
    /\ UNCHANGED <<reg, turn, synced, park, orphans, disposed, rel, callers, history>>

\* The reviver throws before it has a session, or in initializeExtensions, after
\* the session was attached: nobody disposes of it then.
ReviverThrows(r) ==
    /\ Quiet
    /\ At(r, "build") \/ At(r, "claimed")
    /\ RevivalFails(r)
    /\ adopted' = Dropped(r)
    /\ leaked' = IF At(r, "claimed") /\ reg # r THEN leaked \cup {rev[r].sess} ELSE leaked
    /\ UNCHANGED <<registry, sessions, park, orphans, disposed, rel, callers, untimed, strayed>>

\* Mutant: whatever the reviver built is kept.
ReviveEndsUnchecked(r) ==
    /\ Quiet
    /\ At(r, "claimed")
    /\ synced' = [synced EXCEPT ![rev[r].sess] = TRUE]
    /\ SetStatus(r, "idle")
    /\ RevivalOver(r)
    /\ pc' = [m \in Message |-> IF m \in Waiting(r) THEN "got" ELSE pc[m]]
    /\ arg' = [m \in Message |-> IF m \in Waiting(r) THEN rev[r].sess ELSE arg[m]]
    /\ UNCHANGED <<reg, att, life, own, turn, park, orphans, disposed, rel, callers, history>>

\* The reviver returns.  A ref that was parked meanwhile has the session attached
\* again; a session whose ref is not live any more, or whose manager was disposed,
\* is disposed; else the ref is idle, which arms the timer.
ReviveEnds(r) ==
    LET s == rev[r].sess
        parked == reg = r /\ status[r] = "parked" /\ att[r] = None
        live == reg = r /\ status[r] = "running" /\ att[r] = s
    IN  /\ Quiet
        /\ At(r, "claimed")
        /\ synced' = [synced EXCEPT ![s] = TRUE]
        /\ IF disposed \/ ~(parked \/ live)
             THEN /\ Dispose(s)
                  /\ RevivalFails(r)
                  /\ adopted' = Dropped(r)
                  /\ UNCHANGED <<att, status>>
             ELSE /\ att' = [att EXCEPT ![r] = s]
                  /\ SetStatus(r, "idle")
                  /\ RevivalOver(r)
                  /\ pc' = [m \in Message |-> IF m \in Waiting(r) THEN "got" ELSE pc[m]]
                  /\ arg' = [m \in Message |-> IF m \in Waiting(r) THEN s ELSE arg[m]]
                  /\ UNCHANGED life
        /\ UNCHANGED <<reg, own, turn, orphans, park, disposed, rel, callers, history>>

-----------------------------------------------------------------------------
\* release(id, ref): the adoption goes first; a park of the ref is cancelled if
\* it can be, and awaited.
Release(x, r, kill) ==
    /\ adopted' = IF adopted # None /\ adopted.ref = r THEN None ELSE adopted
    /\ park' = IF park # None /\ park.ref = r /\ park.step = "yield"
                 THEN [park EXCEPT !.cancelled = TRUE] ELSE park
    /\ rel' = [rel EXCEPT ![x] = [ref |-> r, kill |-> kill,
                               owned |-> adopted # None /\ adopted.ref = r /\ adopted.owned,
                               sess |-> None, step |-> "park"]]

\* Without a park the release goes on in the same task: it is modelled as its
\* continuation, which nothing precedes.
ReleaseGoesOn(x) ==
    /\ rel[x] # None /\ rel[x].step = "park"
    /\ park # None => park.ref # rel[x].ref
    /\ LET r == rel[x].ref
           s == IF reg = r THEN att[r] ELSE None
       IN  IF rel[x].kill
             THEN \* a kill detaches and marks the ref before it awaits anything
                  /\ att' = IF reg = r THEN [att EXCEPT ![r] = None] ELSE att
                  /\ IF reg = r THEN SetStatus(r, "aborted") ELSE UNCHANGED <<status, adopted>>
                  /\ rel' = [rel EXCEPT ![x].step = "persist", ![x].sess = s]
                  /\ UNCHANGED life
             ELSE /\ rel' = [rel EXCEPT
                               ![x].step = IF s = None THEN "cleanup"
                                           ELSE IF life[s] = "gone" THEN "cleanup" ELSE "dispose",
                               ![x].sess = s]
                  /\ IF s = None THEN UNCHANGED life ELSE Dispose(s)
                  /\ UNCHANGED <<att, status, adopted>>
    /\ UNCHANGED <<reg, own, turn, synced, park, rev, revivals, orphans, disposed, callers,
                   senders, history>>

\* The tombstone is written, or not: the session is disposed in either case.
TombstonePersisted(x) ==
    /\ Quiet
    /\ rel[x] # None /\ rel[x].step = "persist"
    /\ LET s == rel[x].sess
           waits == s # None /\ life[s] # "gone"
       IN  /\ rel' = [rel EXCEPT ![x].step = IF waits THEN "dispose" ELSE "cleanup"]
           /\ IF waits THEN Dispose(s) ELSE UNCHANGED life
    /\ UNCHANGED <<registry, own, turn, synced, adopted, park, rev, revivals,
                   orphans, disposed, callers, senders, history>>

\* The resources the adoption owned are cleaned up (at once if there was none); a
\* plain release then drops the ref, with any session a revival has attached to
\* it meanwhile.
CleanupEnds(x) ==
    /\ rel[x] # None /\ rel[x].step = "cleanup"
    /\ rel[x].owned => Quiet
    /\ rel' = [rel EXCEPT ![x] = None]
    /\ IF rel[x].kill
         THEN UNCHANGED <<reg, adopted, leaked>>
         ELSE /\ Unregister(rel[x].ref)
              /\ leaked' = leaked \cup
                   IF reg = rel[x].ref /\ Attached # None /\ rev[reg] = None
                     THEN {Attached} ELSE {}
    /\ revivals' = IF x = "main" THEN None ELSE revivals
    /\ UNCHANGED <<status, att, sessions, park, rev, orphans, disposed, callers, senders, untimed,
                   strayed>>

\* hub cancel (plain), or a kill from the agent hub.
HubReleases(kill) ==
    /\ SameTick
    /\ rel["hub"] = None /\ ~disposed
    /\ reg # None /\ status[reg] # "aborted"
    /\ Release("hub", reg, kill)
    /\ UNCHANGED <<registry, sessions, rev, revivals, orphans, disposed, callers, senders, history>>

\* Mutant: only the id's current ref is released.
DisposeManagerCurrent ==
    /\ Quiet /\ ~disposed
    /\ disposed' = TRUE
    /\ IF adopted # None \/ park # None
         THEN Release("main", reg, FALSE) /\ UNCHANGED revivals
         ELSE revivals' = None /\ UNCHANGED <<adopted, park, rel>>
    /\ UNCHANGED <<registry, sessions, orphans, rev, callers, senders, history>>

\* The top-level session ends: the manager leaves the registry and releases
\* every agent it owns.
DisposeManager ==
    /\ Quiet
    /\ ~disposed
    /\ disposed' = TRUE
    /\ IF adopted # None \/ (park # None /\ reg # None)
         THEN /\ Release("main", IF reg # None THEN reg ELSE adopted.ref, FALSE)
              /\ UNCHANGED revivals
         ELSE /\ revivals' = None
              /\ UNCHANGED <<adopted, park, rel>>
    /\ UNCHANGED <<registry, sessions, orphans, rev, callers, senders, history>>

-----------------------------------------------------------------------------
\* A spawn registers a free id before its session is built ...
Spawn ==
    /\ Quiet /\ ~disposed
    /\ reg = None /\ con = None /\ run = None
    /\ Ref # Known /\ NewRef \in Spawned
    /\ reg' = NewRef /\ con' = NewRef
    /\ status' = [status EXCEPT ![NewRef] = "running"]
    /\ UNCHANGED <<att, sessions, manager, run, probe, senders, history>>

\* ... and attaches it when it is, or fails and gives the id back.
SpawnAttaches ==
    /\ Quiet
    /\ con # None /\ Session # Born
    /\ IF reg = con /\ status[con] # "aborted"
         THEN \/ LET s == NewSession
                 IN  /\ life' = [life EXCEPT ![s] = "live"]
                     /\ own' = [own EXCEPT ![s] = con]
                     /\ turn' = [turn EXCEPT ![s] = "on"]
                     /\ synced' = [synced EXCEPT ![s] = TRUE]
                     /\ att' = [att EXCEPT ![con] = s]
                     /\ run' = [sess |-> s, over |-> FALSE]
                     /\ UNCHANGED <<reg, adopted>>
              \/ /\ Unregister(con)
                 /\ UNCHANGED <<sessions, att, run>>
         ELSE UNCHANGED <<reg, adopted, sessions, att, run>>
    /\ con' = None
    /\ UNCHANGED <<status, park, rev, revivals, orphans, disposed, rel, probe, senders, history>>

\* The session's run state is mirrored into the ref that owns it.
Mirror(s, st) ==
    IF synced[s] /\ Attached = s
      THEN SetStatus(reg, st)
      ELSE UNCHANGED <<status, adopted>>

\* A scheduled wake turn starts.
TurnStarts(s) ==
    /\ Quiet
    /\ life[s] = "live" /\ turn[s] = "waking"
    /\ turn' = [turn EXCEPT ![s] = "on"]
    /\ Mirror(s, "running")
    /\ UNCHANGED <<reg, att, life, own, synced, park, rev, revivals, orphans, disposed, rel,
                   callers, senders, history>>

TurnEnds(s) ==
    /\ Quiet
    /\ life[s] \in {"live", "disposing"} /\ turn[s] = "on"
    /\ turn' = [turn EXCEPT ![s] = "no"]
    /\ run' = IF run # None /\ run.sess = s THEN [run EXCEPT !.over = TRUE] ELSE run
    /\ Mirror(s, "idle")
    /\ UNCHANGED <<reg, att, life, own, synced, park, rev, revivals, orphans, disposed, rel,
                   con, probe, senders, history>>

\* finalizeSubagentLifecycle of a finished run: the agent is set idle and adopted,
\* with a reviver unless it has no session file; one that is not the run's any
\* more has its session disposed.
Finalize ==
    /\ Quiet
    /\ run # None /\ run.over
    /\ run' = None
    /\ IF Attached = run.sess /\ status[reg] # "aborted"
         THEN /\ status' = [status EXCEPT ![reg] = "idle"]
              /\ \E b \in BOOLEAN :
                   adopted' = [ref |-> reg, revive |-> b, owned |-> TRUE, timer |-> TRUE]
              /\ UNCHANGED life
         ELSE /\ Dispose(run.sess)
              /\ UNCHANGED <<status, adopted>>
    /\ UNCHANGED <<reg, att, own, turn, synced, park, rev, revivals, orphans, disposed, rel,
                   con, probe, senders, history>>

\* ... of an aborted run: a kill.
FinalizeAborted ==
    /\ Quiet
    /\ run # None /\ run.over /\ rel["exec"] = None
    /\ run' = None
    /\ IF Attached = run.sess
         THEN Release("exec", reg, TRUE) /\ UNCHANGED life
         ELSE Dispose(run.sess) /\ UNCHANGED <<adopted, park, rel>>
    /\ UNCHANGED <<registry, own, turn, synced, rev, revivals, orphans, disposed, con, probe,
                   senders, history>>

\* The scan of the session directory registers a transcript whose id is free, or
\* is that of a parked agent left by another root session.
Restore ==
    /\ Quiet /\ ~disposed
    /\ reg # None => status[reg] = "parked" /\ att[reg] = None
    /\ Ref # Known /\ NewRef \in Restored
    /\ reg' = NewRef
    /\ adopted' = IF reg # None THEN OnRemoved(adopted, reg) ELSE adopted
    /\ status' = [status EXCEPT ![NewRef] = "parked"]
    /\ UNCHANGED <<att, sessions, park, rev, revivals, orphans, disposed, rel, callers, senders,
                   history>>

\* reclaimDeadCorpse: a spawn meets a parked ref that nothing can revive.
Corpse(r) ==
    /\ reg = r /\ status[r] = "parked" /\ att[r] = None
    /\ adopted = None /\ park = None /\ revivals = None

Probe ==
    /\ Quiet /\ ~disposed
    /\ probe = None /\ con = None
    /\ reg # None /\ Corpse(reg)
    /\ probe' = reg
    /\ UNCHANGED <<registry, sessions, manager, con, run, senders, history>>

\* The probe found no reviver: the corpse is removed if it still is one.
ProbeEnds ==
    /\ Quiet
    /\ probe # None
    /\ probe' = None
    /\ \/ UNCHANGED <<reg, adopted>>
       \/ Corpse(probe) /\ Unregister(probe)
    /\ UNCHANGED <<status, att, sessions, park, rev, revivals, orphans, disposed, rel, con, run,
                   senders, history>>

-----------------------------------------------------------------------------
Continuation ==
    \/ ParkCommits
    \/ \E m \in Message : Injects(m) \/ Kept(m) \/ Parked(m)
    \/ \E x \in Releaser : ReleaseGoesOn(x)

IO ==
    \/ \E s \in Session : SessionGone(s)
    \/ \E r \in Ref : FactoryReturns(r) \/ BuildEnds(r) \/ ReviverThrows(r) \/ ReviveEnds(r)
    \/ \E x \in Releaser : TombstonePersisted(x) \/ CleanupEnds(x)
    \/ SpawnAttaches \/ ProbeEnds

Next ==
    \/ Continuation \/ IO \/ TimerFires \/ OrphanFires
    \/ \E m \in Message : SameTick /\ Send(m)
    \/ \E s \in Session : TurnStarts(s) \/ TurnEnds(s)
    \/ Finalize \/ FinalizeAborted
    \/ \E kill \in BOOLEAN : HubReleases(kill)
    \/ DisposeManager \/ Spawn \/ Restore \/ Probe

Spec == Init /\ [][Next]_vars

\* The event loop runs what is ready, timers fire, disposals and cleanups end,
\* and the executor finalizes the runs that are over.
FairSpec ==
    /\ Spec
    /\ WF_vars(Continuation)
    /\ WF_vars(TimerFires)
    /\ WF_vars(\E s \in Session : SessionGone(s))
    /\ WF_vars(\E x \in Releaser : CleanupEnds(x))
    /\ WF_vars(Finalize)

-----------------------------------------------------------------------------
Refs == Ref \cup {None}
Sessions == Session \cup {None}

\* Every variable has its type.
TypeOK ==
    /\ reg \in Refs
    /\ status \in [Ref -> {"none", "running", "idle", "parked", "aborted"}]
    /\ att \in [Ref -> Sessions]
    /\ life \in [Session -> {"none", "live", "disposing", "gone"}]
    /\ own \in [Session -> Refs]
    /\ turn \in [Session -> {"no", "waking", "on"}]
    /\ synced \in [Session -> BOOLEAN]
    /\ adopted \in Adoptions \cup {None} /\ orphans \in Nat
    /\ park \in Parks \cup {None}
    /\ rev \in [Ref -> Revivals \cup {None}]
    /\ revivals \in Refs
    /\ disposed \in BOOLEAN
    /\ rel \in [Releaser -> Releases \cup {None}]
    /\ con \in Refs
    /\ run \in Runs \cup {None}
    /\ probe \in Refs
    /\ pc \in [Message -> {"new", "keep", "park", "revive", "got", "delivered",
                           "buffered", "failed"}]
    /\ arg \in [Message -> Ref \cup Session \cup {None}]
    /\ untimed \subseteq Ref
    /\ leaked \subseteq Session /\ strayed \subseteq Ref

Releasing(r, kill) == \E x \in Releaser : rel[x] # None /\ rel[x].ref = r /\ rel[x].kill = kill

\* "A disposing session is never handed out": the session a sender holds, and the
\* one its message would be injected into, is live, whatever parks, kills,
\* revivals and replacements raced it.  Two exceptions contradict that comment of
\* the code: a plain release, which disposes the session before it drops the ref
\* that leads to it, and a revival that an orphan timer parked (strayed).
HandsOutLive ==
    \A m \in Message : pc[m] = "got" =>
        \A s \in {arg[m], Attached} \ {None} :
            life[s] # "live" => Releasing(own[s], FALSE) \/ own[s] \in strayed

\* No live session is lost: each one is the one its id leads to, or is held by a
\* release, a revival or an unfinished run that is going to dispose of it.  The
\* exceptions (leaked) are a session that a revival attached while a plain release
\* of its ref cleaned up, for the release unregisters the ref whatever it holds by
\* then, and one whose reviver threw after its ref was gone.
SessionsAccounted ==
    \A s \in Session \ leaked : life[s] = "live" =>
        \/ Attached = s
        \/ \E x \in Releaser : rel[x] # None /\ rel[x].sess = s
        \/ rev[own[s]] # None /\ rev[own[s]].sess = s
        \/ run # None /\ run.sess = s

\* A park alone never costs a message: a send that was not waiting for a revival
\* fails, or is left in the mailbox, only when the id is free, killed, released,
\* has no session yet, or was parked by an orphan timer while it was revived.
FailsForCause ==
    [][\A m \in Message :
         /\ pc[m] # "revive" /\ pc[m] # pc'[m] /\ pc'[m] \in {"failed", "buffered"}
         => \/ reg = None
            \/ status[reg] = "aborted"
            \/ con = reg
            \/ Releasing(reg, TRUE) \/ Releasing(reg, FALSE)
            \/ reg \in strayed]_vars

\* An agent that the manager owns does not stay idle with its session attached:
\* it is parked when its time is over, however often a park was cancelled for a
\* sender.  The exceptions are an agent whose adoption the late revival of an older
\* ref of the id replaced, which the code's "a superseded revive can never clobber
\* a newer same-id ref" denies, or whose timer fired during the park of an older
\* ref (untimed), and one whose revival an orphan timer parked (strayed).
IdleParks ==
    \A s \in Session :
        Attached = s /\ status[reg] = "idle"
          ~> \/ Attached # s \/ status[own[s]] # "idle"
             \/ disposed \/ own[s] \in untimed \cup strayed
=============================================================================
