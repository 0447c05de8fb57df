----------------------------- MODULE MCImTasks -----------------------------
(***************************************************************************)
(* ImTasks for TLC: two bots, each with an agent of its own.                *)
(***************************************************************************)
EXTENDS ImTasks, TLC

CONSTANTS b1, b2, a1, a2
OwnAgents == b1 :> a1 @@ b2 :> a2
OtherBot == b1 :> b2 @@ b2 :> b1 @@ a1 :> a2 @@ a2 :> a1
Symmetry == Permutations(Messages) \cup Permutations(Ids) \cup {OtherBot}
=============================================================================
