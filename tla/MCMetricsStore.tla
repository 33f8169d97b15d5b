---------------------------- MODULE MCMetricsStore ----------------------------
(* Instances of MetricsStore for TLC. *)
EXTENDS MetricsStore

CONSTANTS a1, v1

\* Vendors whose collect() may find the same.
ASSUME SameAnswers ==
    /\ StorageGridCapacity = HpeCapacity
    /\ {DellCapacity, HitachiCapacity} = {OracleCapacity}

\* One vendor of each sort, in an estate of its own.
MCFleets == [Arrays -> {"pure", "netapp", "hpe", "oracle"}]
=============================================================================
