--------------------------- MODULE MCVolumeInventory ---------------------------
(* Instances of VolumeInventory for TLC. *)
EXTENDS VolumeInventory

CONSTANTS v1, v2, v3, u1, h1, h2, g1

\* A full array, one that lost a third of its volumes and has a pool offline, one that
\* lost two thirds and a host, one without volumes and one with nothing.
MCConfigurations ==
    LET Has(volumes, offline, hosts, groups) ==
            [volumes |-> volumes, offline |-> offline, hosts |-> hosts, groups |-> groups]
    IN  {Has({v1, v2, v3}, {}, {h1, h2}, {g1}), Has({v1, v3}, {v3}, {h1, h2}, {}),
         Has({v2}, {}, {h1}, {g1}), Has({}, {}, {h1, h2}, {}), Has({}, {}, {}, {})}

\* Three volumes are more than a page for NetApp and Hitachi, two LUNs for Dell.
MCPageLimit == [v \in AllVendors |-> IF v = "dell" THEN 1 ELSE 2]

=============================================================================
