--------------------------- MODULE MCStreamAttempt ---------------------------
(* An instance of StreamAttempt for TLC; the constants are in the .cfg files. *)
EXTENDS StreamAttempt

=============================================================================
