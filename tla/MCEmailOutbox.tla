--------------------------- MODULE MCEmailOutbox ---------------------------
(* EmailOutbox with the constants the model checker cannot read in a .cfg. *)
EXTENDS EmailOutbox, TLC

OneDelay == <<1>>

Workers == Permutations(Worker)

=============================================================================
