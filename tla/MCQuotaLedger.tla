--------------------------- MODULE MCQuotaLedger ---------------------------
(* An instance of QuotaLedger for TLC.  Requests are interchangeable, but   *)
(* symmetry is not used: the run checks liveness too.                       *)
EXTENDS QuotaLedger

=============================================================================
