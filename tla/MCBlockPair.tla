---------------------------- MODULE MCBlockPair ----------------------------
(***************************************************************************)
(* Two parents and two dependents: a dependent can move from one parent to *)
(* the other while the second dependent still holds on.                    *)
(***************************************************************************)
EXTENDS BlockPairInv, TLC

Symmetry == Permutations(Parents) \cup Permutations(Dependents)
=============================================================================
