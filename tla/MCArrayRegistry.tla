---------------------------- MODULE MCArrayRegistry ----------------------------
(* Instances of ArrayRegistry for TLC. *)
EXTENDS ArrayRegistry

CONSTANTS a1, j1, j2
=============================================================================
