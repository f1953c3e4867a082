----------------------------- MODULE MCProbeRuns -----------------------------
(* Probe runs for TLC.                                                     *)
EXTENDS ProbeRuns

=============================================================================
