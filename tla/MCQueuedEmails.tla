--------------------------- MODULE MCQueuedEmails ---------------------------
(* QueuedEmails with the constants TLC cannot read in a .cfg.              *)
EXTENDS QueuedEmails

OneDelay == <<1>>

=============================================================================
