----------------------------- MODULE MCAccounts -----------------------------
(* Accounts with its symmetry for the model checker.                       *)
EXTENDS Accounts, TLC

Symmetry == Permutations(Request) \union Permutations(Locale)

=============================================================================
