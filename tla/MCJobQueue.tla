----------------------------- MODULE MCJobQueue -----------------------------
(* Up to two jobs of the same priority, for model checking JobQueue.       *)
EXTENDS JobQueue, TLC

CONSTANTS j1, j2

(* Restricted to Jobs, so that a run may leave j2 out. *)
MCPriority == [j \in Jobs |-> 1]
MCMaxAttempts == [j \in Jobs |-> IF j = j1 THEN 2 ELSE 1]

MCOneAttempt == [j \in Jobs |-> 1]

ProcessSymmetry == Permutations(Workers) \union Permutations(Admins)
=============================================================================
