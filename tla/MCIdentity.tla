----------------------------- MODULE MCIdentity -----------------------------
EXTENDS Identity, TLC

(* The halves never run in one behaviour: their sets may share the values,  *)
(* so that one permutation stands for both.                                 *)
IdentitySymmetry == Permutations(Sessions) \union Permutations(Tokens) \union Permutations(Callers)
=============================================================================
