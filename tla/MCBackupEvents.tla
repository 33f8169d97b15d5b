--------------------------- MODULE MCBackupEvents ---------------------------
(* Instances of BackupEvents for TLC. *)
EXTENDS BackupEvents

CONSTANTS c1, c2

=============================================================================
