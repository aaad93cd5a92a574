----------------------------- MODULE RegionLock -----------------------------
(***************************************************************************)
(* What the publish lock of a session file promises: at most one process   *)
(* is in the critical region that appends to or replaces the file, and a   *)
(* process that dies inside gives the region up.  PublishLock implements   *)
(* it for the processes that share the gate; SessionFile relies on it.     *)
(***************************************************************************)
CONSTANTS Process, None

VARIABLE holder     \* the process inside the region, or None

Free == holder = None

Enter(p) == Free /\ holder' = p

\* The region is left when its task ends, fails, or its process dies.
Leave(p) == holder = p /\ holder' = None

Init == holder = None
Next == \E p \in Process : Enter(p) \/ Leave(p)
Spec == Init /\ [][Next]_holder
=============================================================================
