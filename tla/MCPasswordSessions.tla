------------------------- MODULE MCPasswordSessions -------------------------
(* PasswordSessions for the model checker.                                 *)
EXTENDS PasswordSessions

=============================================================================
