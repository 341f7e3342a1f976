------------------------------- MODULE MCSync -------------------------------
(* The client online and offline, in one of two worlds: two cards whose    *)
(* priorities may collide, on connections that hold, or one card and a     *)
(* connection that may be lost anywhere. The spared changes and losses are  *)
(* left out of Next, never of what Fairness asks for.                       *)
EXTENDS Sync

VARIABLE world

mcVars == <<world, vars>>

MCInit == world \in {"two cards", "a loss"} /\ Init

\* What the user and the other clients save, and what gets lost.
Spared ==
    /\ world = "two cards" => losses' = 0
    /\ world = "a loss" => \A id \in Ids \ {NoCard.id} : latest'[id] = 0 /\ chain'[id] = Absent

MCNext == Next /\ Spared /\ UNCHANGED world

\* Saves, changes of other clients and losses are all that is spared, and they
\* are what Fairness does not ask for.
MCSpec == MCInit /\ [][MCNext]_mcVars /\ Fairness

\* A third world, where the constants keep the user to saves made offline.
OfflineInit == world = "offline" /\ Init
OfflineNext == Next /\ UNCHANGED world
OfflineSpec == OfflineInit /\ [][OfflineNext]_mcVars
=============================================================================
