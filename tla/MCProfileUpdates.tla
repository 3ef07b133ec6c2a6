-------------------------- MODULE MCProfileUpdates --------------------------
(* ProfileUpdates with its symmetry for the model checker.                 *)
EXTENDS ProfileUpdates, TLC

Symmetry == Permutations(Request) \union Permutations(Known)

=============================================================================
