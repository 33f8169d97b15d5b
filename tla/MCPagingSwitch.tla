---------------------------- MODULE MCPagingSwitch ----------------------------
(* Instances of PagingSwitch for TLC. *)
EXTENDS PagingSwitch

CONSTANTS o1, o2, j1, j2
=============================================================================
