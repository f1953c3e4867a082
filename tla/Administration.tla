--------------------------- MODULE Administration ---------------------------
(***************************************************************************)
(* The parts of the administration, and the gateway of what has not been   *)
(* migrated.  They keep different rows and run side by side, so that what  *)
(* each of them keeps on its own is kept by all of them together.          *)
(***************************************************************************)
EXTENDS AccountSync, AdmissionLimits, LegacyMigration, LegacyGateway

\* In one behaviour steps of different parts may come in any order, or together.
AdministrationSpec == SyncSpec /\ LimitsSpec /\ MigrationSpec /\ LegacySpec

\* The rows of all parts keep their columns.
AdminTypeOK == SyncTypeOK /\ LimitsTypeOK /\ MigrationTypeOK /\ LegacyTypeOK
=============================================================================
