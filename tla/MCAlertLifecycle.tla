--------------------------- MODULE MCAlertLifecycle ---------------------------
(* Instances of AlertLifecycle for TLC. *)
EXTENDS AlertLifecycle

CONSTANTS a1, a2, e1, e2

MCEndpointOf == [i \in Ids |-> IF i = a1 THEN e1 ELSE e2]
AlwaysOn == {[enabled |-> TRUE, since |-> 0]}
OnOrOff == {[enabled |-> TRUE, since |-> 0], [enabled |-> FALSE, since |-> 0]}

=============================================================================
