------------------------------ MODULE MCAssets ------------------------------
(* Small instances of Assets for model checking.                           *)
EXTENDS Assets, TLC

AssetSymmetry == Permutations(Callers) \union Permutations(Workers) \union Permutations(Fields)
=============================================================================
