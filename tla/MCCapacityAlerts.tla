--------------------------- MODULE MCCapacityAlerts ---------------------------
(* Instances of CapacityAlerts for TLC. *)
EXTENDS CapacityAlerts

CONSTANTS c1, c2

=============================================================================
