----------------------------- MODULE SlotPool ------------------------------
(***************************************************************************)
(* What a concurrency limiter promises, whatever its queue: requests hold  *)
(* slots or wait for one, an admission never takes the holders past the    *)
(* cap in force, and nobody is left waiting beside a free slot. Lowering   *)
(* the cap takes no slot away. A cap of 0 is unlimited.                    *)
(***************************************************************************)
EXTENDS Naturals, FiniteSets

CONSTANTS Requests, Caps

VARIABLES cap, waiting, holding

poolVars == <<cap, waiting, holding>>

Full(n, c) == c # 0 /\ n >= c
Exceeds(n, c) == c # 0 /\ n > c

PoolInit == cap \in Caps /\ waiting = {} /\ holding = {}

\* After a change leaves the holders at H and the candidates at W, those of W
\* that fit are admitted.
Settle(H, W, c) ==
  /\ cap' = c
  /\ holding' \subseteq H \cup W /\ H \subseteq holding'
  /\ waiting' = W \ holding'
  /\ holding' # H => ~Exceeds(Cardinality(holding'), c)
  /\ waiting' # {} => Full(Cardinality(holding'), c)

Arrive(r, c) == r \notin waiting \cup holding /\ Settle(holding, waiting \cup {r}, c)

\* A request that gives up before it waits only brings its own cap along.
Resize(c) == Settle(holding, waiting, c)

Withdraw(r) == r \in waiting /\ Settle(holding, waiting \ {r}, cap)

\* The leaver's slot may be handed on only after the new cap was applied.
Leave(r, c) == r \in holding /\ Settle(holding \ {r}, waiting, c)

PoolNext ==
  \/ \E c \in Caps : Resize(c)
  \/ \E r \in Requests : Withdraw(r) \/ \E c \in Caps : Arrive(r, c) \/ Leave(r, c)

PoolSpec == PoolInit /\ [][PoolNext]_poolVars
=============================================================================
