--------------------------- MODULE MCResendSender ---------------------------
(* ResendSender with constants for the model checker: delays and times in  *)
(* quarters of a second, as in app/mailer/resend.py, and headers that are  *)
(* negative, within the cap and far beyond it.                             *)
EXTENDS ResendSender, TLC

Hints == {-4, 8, 2400}

Symmetry == Permutations(Caller)

=============================================================================
