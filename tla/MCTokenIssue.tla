---------------------------- MODULE MCTokenIssue ----------------------------
(* TokenIssue with its symmetry for the model checker.                     *)
EXTENDS TokenIssue, TLC

Symmetry == Permutations(Request)

=============================================================================
