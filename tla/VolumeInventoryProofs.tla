------------------------ MODULE VolumeInventoryProofs ------------------------
(***************************************************************************)
(* Proofs about VolumeInventory, for every set of volumes, hosts and       *)
(* vendors, every ratio and every bound.                                   *)
(***************************************************************************)
EXTENDS VolumeInventory, FiniteSetTheorems, TLAPS

\* The mirror is about to be written with rows SQL Server holds already.
Persisted ==
    pc = "mirror" =>
        /\ data.names # {} => volumes_cache.names = data.names
        /\ data.hosts # {} => hosts_cache = data.hosts

IInv == TypeOK /\ Persisted

USE DEF Fault, Done, Proceed, Nothing, collectorVars, sqlVars

LEMMA InitIInv == Init => IInv
  BY InventoryAssumption DEF Init, IInv, TypeOK, Persisted, Listing, Collected, Names

\* What is read of a list is part of it.
LEMMA PagePart ==
    ASSUME NEW S
    PROVE  \A part \in Page(S) : part \in SUBSET S
  BY DEF Page

LEMMA ListedIInv ==
    ASSUME TypeOK, NEW names \in SUBSET Names, NEW whole \in BOOLEAN,
           Listed(names, whole), faults' \in Nat
    PROVE  IInv'
<1>1. PICK hosts \in HostsOfListing(names) :
          data' = [names |-> names, sized |-> TRUE, hosts |-> hosts,
                   groups |-> {}, listed |-> whole]
  BY DEF Listed
<1>2. hosts \in SUBSET Hosts
  BY DEF HostsOfListing, TypeOK, Inventory
<1>3. data' \in Collected
  BY <1>1, <1>2 DEF Collected
<1>4. QED
  BY <1>3 DEF Listed, IInv, TypeOK, Persisted

LEMMA RestIInv ==
    ASSUME TypeOK, NEW sized \in BOOLEAN, NEW hosts \in SUBSET Hosts,
           NEW groups \in SUBSET Groups, Rest(sized, hosts, groups), faults' \in Nat
    PROVE  IInv'
  BY DEF Rest, IInv, TypeOK, Persisted, Collected

\* Every listing, whole or not, is a set of names.
LEMMA ListingsTyped ==
    ASSUME TypeOK
    PROVE  /\ \A names \in WholeListings[vendor] : names \in SUBSET Names
           /\ \A names \in PartialListings[vendor] : names \in SUBSET Names
<1>1. array.volumes \in SUBSET Volumes /\ vendor \in AllVendors
  BY DEF TypeOK, Inventory
<1>2. /\ array.volumes \in SUBSET Names /\ Undefined \in SUBSET Names
      /\ array.volumes \cup Undefined \in SUBSET Names
      /\ Luns \in SUBSET Names /\ Filesystems \in SUBSET Names
  BY <1>1 DEF Names, Luns, Filesystems
<1>3. /\ Page(array.volumes) \subseteq SUBSET Names /\ Page(Undefined) \subseteq SUBSET Names
      /\ Page(array.volumes \cup Undefined) \subseteq SUBSET Names
      /\ Page(Luns) \subseteq SUBSET Names /\ Page(Filesystems) \subseteq SUBSET Names
  BY <1>2, PagePart
<1>4. /\ PureListings \subseteq SUBSET Names /\ HpeListings \subseteq SUBSET Names
      /\ OracleListings \subseteq SUBSET Names
  BY <1>2 DEF PureListings, HpeListings, OracleListings
<1>5. /\ NetAppListings \subseteq SUBSET Names /\ HitachiListings \subseteq SUBSET Names
      /\ DellListings \subseteq SUBSET Names
  BY <1>3 DEF NetAppListings, HitachiListings, DellListings
<1>6. \A names \in WholeListings[vendor] : names \in SUBSET Names
  BY <1>1, <1>4, <1>5 DEF WholeListings, AllVendors
<1>7. /\ PurePartial \subseteq SUBSET Names /\ HpePartial \subseteq SUBSET Names
      /\ OraclePartial \subseteq SUBSET Names
  BY <1>2 DEF PurePartial, HpePartial, OraclePartial
<1>8. /\ NetAppPartial \subseteq SUBSET Names /\ HitachiPartial \subseteq SUBSET Names
      /\ DellPartial \subseteq SUBSET Names
  <2>1. NetAppPartial \subseteq SUBSET Names
    BY <1>3 DEF NetAppPartial
  <2>2. HitachiPartial \subseteq SUBSET Names
    BY <1>3 DEF HitachiPartial
  <2>3. DellPartial \subseteq SUBSET Names
    BY <1>3 DEF DellPartial
  <2>4. QED
    BY <2>1, <2>2, <2>3
<1>9. \A names \in PartialListings[vendor] : names \in SUBSET Names
  BY <1>1, <1>7, <1>8 DEF PartialListings, AllVendors
<1>10. QED
  BY <1>6, <1>9

\* So are the hosts.
LEMMA WholeHostsTyped ==
    ASSUME TypeOK
    PROVE  /\ \A hosts \in WholeHosts : hosts \in SUBSET Hosts
           /\ \A hosts \in UNION {SUBSET whole : whole \in WholeHosts} : hosts \in SUBSET Hosts
<1>1. array.hosts \in SUBSET Hosts
  BY DEF TypeOK, Inventory
<1>2. \A hosts \in WholeHosts : hosts \in SUBSET Hosts
  BY <1>1, PagePart DEF WholeHosts
<1>3. QED
  BY <1>2

LEMMA SaveIInv ==
    ASSUME IInv, Save
    PROVE  IInv'
<1> USE DEF IInv, TypeOK, Save, Nameless, Measured
<1>1. data \in Collected
  OBVIOUS
<1>2. CASE KeepOnEmpty
  BY <1>1, <1>2 DEF KeepOnEmpty, Persisted
<1>3. CASE RefuseVolumes
  BY <1>3 DEF RefuseVolumes, Persisted, Collected
<1>4. CASE UpsertAll(data.groups)
  BY <1>1, <1>4 DEF UpsertAll, Persisted, Collected, Listing
<1>5. CASE UpsertAll(groups_cache)
  BY <1>1, <1>5 DEF UpsertAll, Persisted, Collected, Listing
<1>6. CASE ReplaceCollected
  <2>1. volumes_cache' \in Listing
    BY <1>1, <1>6 DEF ReplaceCollected, Collected, Listing
  <2>2. CASE HostsRefused
    <3>1. /\ pc' = "idle" /\ result' = "failed" /\ data' = Nothing
          /\ UNCHANGED <<hosts_cache, groups_cache, volumes_history>>
      BY <1>6, <2>2 DEF ReplaceCollected
    <3>2. Nothing \in Collected
      BY DEF Collected
    <3>3. Persisted'
      BY <3>1 DEF Persisted
    <3>4. QED
      BY <2>1, <3>1, <3>2, <3>3
  <2>3. CASE ~HostsRefused
    <3>1. hosts_cache' \subseteq Hosts /\ volumes_history' \in Listing
      BY <1>1, <1>6, <2>1, <2>3 DEF ReplaceCollected, Collected
    <3>2. Persisted'
      BY <1>1, <1>6, <2>3 DEF ReplaceCollected, Persisted, Collected
    <3>3. QED
      BY <1>6, <2>1, <2>3, <3>1, <3>2 DEF ReplaceCollected
  <2>4. QED
    BY <2>2, <2>3
<1>7. QED
  BY <1>2, <1>3, <1>4, <1>5, <1>6
  DEF PureSave, NetAppSave, HpeSave, DellSave, HitachiSave, OracleSave

LEMMA NextIInv ==
    ASSUME IInv, [Next]_vars
    PROVE  IInv'
<1>a. TypeOK /\ Persisted /\ faults \in Nat
  BY DEF IInv, TypeOK
<1>1. CASE Reconfigure
  BY <1>a, <1>1, InventoryAssumption DEF IInv, TypeOK, Reconfigure, Persisted
<1>2. CASE Authenticate
  BY <1>a, <1>2 DEF IInv, TypeOK, Authenticate, Persisted
<1>3. CASE AuthenticationFails
  BY <1>a, <1>3 DEF IInv, TypeOK, AuthenticationFails, Persisted
<1>4. CASE ListVolumes
  <2>1. faults' \in Nat /\ \A names \in WholeListings[vendor] : names \in SUBSET Names
    BY <1>a, <1>4, ListingsTyped DEF ListVolumes
  <2>2. PICK names \in WholeListings[vendor] : Listed(names, TRUE)
    BY <1>4 DEF ListVolumes
  <2>3. QED
    BY <1>a, <2>1, <2>2, ListedIInv
<1>5. CASE ListVolumesDegraded
  <2>1. faults' \in Nat /\ \A names \in PartialListings[vendor] : names \in SUBSET Names
    BY <1>a, <1>5, ListingsTyped DEF ListVolumesDegraded
  <2>2. PICK names \in PartialListings[vendor] : Listed(names, FALSE)
    BY <1>5 DEF ListVolumesDegraded
  <2>3. QED
    BY <1>a, <2>1, <2>2, ListedIInv
<1>6. array.hosts \in SUBSET Hosts /\ array.groups \in SUBSET Groups
  BY <1>a DEF TypeOK, Inventory
<1>7. CASE ReadRest
  <2>1. PICK hosts \in WholeHosts :
            Rest(TRUE, hosts, IF vendor = "pure" THEN array.groups ELSE {})
    BY <1>7 DEF ReadRest
  <2>2. /\ hosts \in SUBSET Hosts /\ faults' \in Nat
        /\ (IF vendor = "pure" THEN array.groups ELSE {}) \in SUBSET Groups
    BY <1>a, <1>6, <1>7, <2>1, WholeHostsTyped DEF ReadRest
  <2>3. QED
    BY <1>a, <2>1, <2>2, RestIInv
<1>8. CASE PureRestDegraded
  <2>1. PICK sized \in BOOLEAN, hosts \in {array.hosts, {}}, groups \in {array.groups, {}} :
            Rest(sized, hosts, groups)
    BY <1>8 DEF PureRestDegraded
  <2>2. hosts \in SUBSET Hosts /\ groups \in SUBSET Groups /\ faults' \in Nat
    BY <1>a, <1>6, <1>8, <2>1 DEF PureRestDegraded
  <2>3. QED
    BY <1>a, <2>1, <2>2, RestIInv
<1>9. CASE NetAppRestDegraded
  <2>1. PICK hosts \in UNION {SUBSET whole : whole \in WholeHosts} : Rest(TRUE, hosts, {})
    BY <1>9 DEF NetAppRestDegraded
  <2>2. hosts \in SUBSET Hosts /\ {} \in SUBSET Groups /\ faults' \in Nat
    BY <1>a, <1>9, <2>1, WholeHostsTyped DEF NetAppRestDegraded
  <2>3. QED
    BY <1>a, <2>1, <2>2, RestIInv
<1>10. CASE HpeRestDegraded \/ DellRestDegraded
  <2>1. Rest(TRUE, {}, {}) /\ faults' = faults + 1
    BY <1>10, Zenon DEF HpeRestDegraded, DellRestDegraded
  <2>2. faults' \in Nat
    BY <1>a, <2>1
  <2>3. {} \in SUBSET Hosts /\ {} \in SUBSET Groups /\ TRUE \in BOOLEAN
    OBVIOUS
  <2>4. QED
    BY <1>a, <2>1, <2>2, <2>3, RestIInv
<1>11. CASE Save
  BY <1>11, SaveIInv
<1>12. CASE SaveFails
  BY <1>a, <1>12 DEF IInv, TypeOK, SaveFails, Persisted, Collected
<1>13. CASE WriteMirror
  BY <1>a, <1>13 DEF IInv, TypeOK, WriteMirror, Persisted, Collected
<1>14. CASE WriteMirrorFails \/ Crash
  <2>1. Nothing \in Collected
    BY DEF Collected
  <2>2. CASE WriteMirrorFails
    BY <1>a, <2>1, <2>2 DEF IInv, TypeOK, WriteMirrorFails, Persisted
  <2>3. CASE Crash
    BY <1>a, <2>1, <2>3 DEF IInv, TypeOK, Crash, Persisted
  <2>4. QED
    BY <1>14, <2>2, <2>3
<1>15. CASE UNCHANGED vars
  BY <1>a, <1>15 DEF IInv, TypeOK, vars, Persisted
<1>16. QED
  BY <1>1, <1>2, <1>3, <1>4, <1>5, <1>7, <1>8, <1>9, <1>10, <1>11, <1>12, <1>13, <1>14, <1>15
  DEF Next, Collector, Degraded

LEMMA SpecIInv == Spec => []IInv
  BY InitIInv, NextIInv, PTL DEF Spec

\* The state of the collector and of the four stores always has its type.
THEOREM TypeCorrect == Spec => []TypeOK
<1>1. IInv => TypeOK
  BY DEF IInv
<1>2. QED
  BY <1>1, SpecIInv, PTL

(***************************************************************************)
(* The two tables implement GuardedTable.                                  *)
(***************************************************************************)

\* Both instances count as this module does.
LEMMA SameCount ==
    /\ \A S : VolumeTable!Cardinality(S) = Cardinality(S)
    /\ \A S : HostTable!Cardinality(S) = Cardinality(S)
  BY DEF Cardinality, IsFiniteSet, VolumeTable!Cardinality, VolumeTable!IsFiniteSet,
     HostTable!Cardinality, HostTable!IsFiniteSet

\* A replacement that would_shrink_below() lets pass is no collapse.
LEMMA NoCollapse ==
    ASSUME NEW S, NEW old \in SUBSET S, NEW new \in SUBSET S, IsFiniteSet(S), new # {},
           ~WouldShrinkBelow(old, new)
    PROVE  ~VolumeTable!Collapse(old, new) /\ ~HostTable!Collapse(old, new)
<1>1. Cardinality(old) \in Nat /\ Cardinality(new) \in Nat
  BY FS_Subset, FS_CardinalityType
<1>2. RatioNum \in Nat /\ RatioDen \in Nat
  BY InventoryAssumption
<1>3. Cardinality(new) * RatioDen \in Nat
  BY <1>1, <1>2
<1>4. CASE RatioNum = 0
  BY <1>1, <1>3, <1>4, SameCount DEF VolumeTable!Collapse, HostTable!Collapse
<1>5. CASE RatioNum > 0
  BY <1>5, SameCount DEF WouldShrinkBelow, VolumeTable!Collapse, HostTable!Collapse
<1>6. QED
  BY <1>2, <1>4, <1>5

LEMMA NamesFinite == IsFiniteSet(Names) /\ IsFiniteSet(Hosts)
  BY InventoryAssumption, FS_Union DEF Names

\* Only save() writes SQL Server, and nobody changes the vendor.
LEMMA OnlySave ==
    ASSUME [Next]_vars, ~Save
    PROVE  UNCHANGED <<vendor, volumes_cache, hosts_cache>>
  BY DEF Next, vars, Reconfigure, Collector, Degraded, Authenticate, AuthenticationFails,
     ListVolumes, ListVolumesDegraded, Listed, ReadRest, Rest, PureRestDegraded,
     NetAppRestDegraded, HpeRestDegraded, DellRestDegraded, SaveFails, WriteMirror,
     WriteMirrorFails, Crash

\* What each vendor's save() may do to the two guarded tables.
LEMMA SaveReplaces ==
    ASSUME Save
    PROVE  /\ UNCHANGED vendor
           /\ \/ volumes_cache' = volumes_cache
              \/ /\ volumes_cache' = Measured
                 /\ ~VolumesRefused
                 /\ data.names = {} => vendor \in Upserts
           /\ \/ hosts_cache' = hosts_cache
              \/ /\ hosts_cache' = data.hosts
                 /\ vendor \notin Upserts => data.hosts # {} /\ ~HostsRefused
  BY DEF Save, PureSave, NetAppSave, HpeSave, DellSave, HitachiSave, OracleSave,
     KeepOnEmpty, RefuseVolumes, UpsertAll, ReplaceCollected, Upserts

LEMMA VolumeStep ==
    ASSUME IInv, [Next]_vars
    PROVE  [VolumeTable!Next]_(VolumeTable!vars)
<1>1. CASE ~Save
  BY <1>1, OnlySave DEF VolumeTable!vars
<1>2. CASE Save
  <2>1. volumes_cache.names \in SUBSET Names /\ data.names \in SUBSET Names
    BY DEF IInv, TypeOK, Listing, Collected
  <2>2. CASE volumes_cache' = volumes_cache
    BY <1>2, <2>2, SaveReplaces DEF VolumeTable!vars
  <2>3. CASE volumes_cache' = Measured /\ ~VolumesRefused /\ data.names # {}
    <3>1. volumes_cache'.names = data.names
      BY <2>3 DEF Measured
    <3>2. ~VolumeTable!Collapse(volumes_cache.names, data.names)
      BY <2>1, <2>3, NoCollapse, NamesFinite DEF VolumesRefused
    <3>3. VolumeTable!Replace
      BY <1>2, <2>1, <2>3, <3>1, <3>2, SaveReplaces DEF VolumeTable!Replace
    <3>4. QED
      BY <3>3 DEF VolumeTable!Next
  <2>4. CASE volumes_cache' = Measured /\ data.names = {} /\ vendor \in Upserts
    <3>1. VolumeTable!Erase
      BY <1>2, <2>4, SaveReplaces DEF VolumeTable!Erase, Measured
    <3>2. QED
      BY <3>1 DEF VolumeTable!Next
  <2>5. QED
    BY <1>2, <2>2, <2>3, <2>4, SaveReplaces
<1>3. QED
  BY <1>1, <1>2

\* The volumes stored for an array implement the abstract table: no save() of any
\* vendor replaces them with a collapse, and only an upserting one empties them.
LEMMA VolumesAreGuarded == Spec => VolumesGuarded
<1>1. Init => VolumeTable!Init
  BY DEF Init, VolumeTable!Init
<1>2. QED
  BY <1>1, SpecIInv, VolumeStep, PTL DEF Spec, VolumesGuarded, VolumeTable!Spec

LEMMA HostStep ==
    ASSUME IInv, [Next]_vars
    PROVE  [HostTable!Next]_(HostTable!vars)
<1>1. CASE ~Save
  BY <1>1, OnlySave DEF HostTable!vars
<1>2. CASE Save
  <2>1. hosts_cache \in SUBSET Hosts /\ data.hosts \in SUBSET Hosts
    BY DEF IInv, TypeOK, Collected
  <2>2. CASE hosts_cache' = hosts_cache
    BY <1>2, <2>2, SaveReplaces DEF HostTable!vars
  <2>3. CASE hosts_cache' = data.hosts /\ data.hosts = {} /\ vendor \in Upserts
    <3>1. HostTable!Erase
      BY <1>2, <2>3, SaveReplaces DEF HostTable!Erase
    <3>2. QED
      BY <3>1 DEF HostTable!Next
  <2>4. CASE hosts_cache' = data.hosts /\ data.hosts # {} /\ (vendor \notin Upserts => ~HostsRefused)
    <3>1. HostsRefused = WouldShrinkBelow(hosts_cache, data.hosts)
      BY DEF HostsRefused
    <3>2. vendor \notin Upserts => ~HostTable!Collapse(hosts_cache, data.hosts)
      BY <2>1, <2>4, <3>1, NoCollapse, NamesFinite
    <3>3. HostTable!Replace
      BY <1>2, <2>1, <2>4, <3>2, SaveReplaces DEF HostTable!Replace
    <3>4. QED
      BY <3>3 DEF HostTable!Next
  <2>5. QED
    BY <1>2, <2>2, <2>3, <2>4, SaveReplaces
<1>3. QED
  BY <1>1, <1>2

\* The hosts stored for an array implement it too: guarded and never emptied where the
\* collector deletes and inserts, neither of the two where it upserts.
LEMMA HostsAreGuarded == Spec => HostsGuarded
<1>1. Init => HostTable!Init
  BY DEF Init, HostTable!Init
<1>2. QED
  BY <1>1, SpecIInv, HostStep, PTL DEF Spec, HostsGuarded, HostTable!Spec

\* Both tables implement the abstract one.
THEOREM TablesAreGuarded == Spec => TablesGuarded
BY VolumesAreGuarded, HostsAreGuarded DEF TablesGuarded

\* SQLite only takes over what SQL Server holds: the collected set it is given is the
\* one the save() of the same run committed, and nobody else writes the array's rows.
THEOREM MirrorSecond == Spec => MirrorFollowsPrimary
<1> DEFINE Second ==
        mirror' # mirror =>
            /\ mirror'.volumes \in {mirror.volumes, volumes_cache.names}
            /\ mirror'.hosts \in {mirror.hosts, hosts_cache}
<1>1. ASSUME IInv, [Next]_vars
      PROVE  Second
  <2>1. CASE WriteMirror
    BY <1>1, <2>1 DEF WriteMirror, IInv, Persisted
  <2>2. CASE ~WriteMirror
    BY <1>1, <2>2 DEF Next, vars, Reconfigure, Collector, Degraded, Authenticate,
       AuthenticationFails, ListVolumes, ListVolumesDegraded, Listed, ReadRest, Rest,
       PureRestDegraded, NetAppRestDegraded, HpeRestDegraded, DellRestDegraded, Save,
       SaveFails, WriteMirrorFails, Crash
  <2>3. QED
    BY <2>1, <2>2
<1>2. QED
  BY <1>1, SpecIInv, PTL DEF Spec, MirrorFollowsPrimary

\* The history is given exactly what was persisted, or the run reports its failure.
THEOREM ChangesRecorded == Spec => ChangeRecorded
<1> DEFINE Recorded ==
        volumes_cache' # volumes_cache =>
            volumes_history' = volumes_cache' \/ result' = "failed"
<1>1. ASSUME [Next]_vars
      PROVE  Recorded
  <2>1. CASE Save
    BY <2>1 DEF Save, PureSave, NetAppSave, HpeSave, DellSave, HitachiSave, OracleSave,
       KeepOnEmpty, RefuseVolumes, UpsertAll, ReplaceCollected
  <2>2. CASE ~Save
    BY <1>1, <2>2, OnlySave
  <2>3. QED
    BY <2>1, <2>2
<1>2. QED
  BY <1>1, PTL DEF Spec, ChangeRecorded

(***************************************************************************)
(* How far a failed request leaves the volumes of an array alone.          *)
(***************************************************************************)

\* The table of volumes is emptied only by a vendor that upserts, and only by a run that
\* found no volume beside hosts it did find: the one case the guard on both misses.
EmptiedBesideHosts ==
    volumes_cache.names # {} /\ volumes_cache'.names = {} =>
        pc = "save" /\ vendor \in Upserts /\ data.names = {} /\ data.hosts # {}

THEOREM OnlyBesideHosts == Spec => [][EmptiedBesideHosts]_vars
<1>1. ASSUME [Next]_vars
      PROVE  EmptiedBesideHosts
  <2>1. CASE Save
    BY <2>1 DEF Save, PureSave, NetAppSave, HpeSave, DellSave, HitachiSave, OracleSave,
       KeepOnEmpty, RefuseVolumes, UpsertAll, ReplaceCollected, Nameless, Measured,
       EmptiedBesideHosts, Upserts
  <2>2. CASE ~Save
    BY <1>1, <2>2, OnlySave DEF EmptiedBesideHosts
  <2> QED BY <2>1, <2>2
<1> QED BY <1>1, PTL DEF Spec

\* So the vendors that delete and insert keep their volumes whatever request fails.
THEOREM InsertersKeepVolumes ==
    ASSUME Vendors \cap Upserts = {}
    PROVE  Spec => FailedRequestKeepsVolumes
<1>1. Init => vendor \in Vendors
  BY DEF Init
<1>2. vendor \in Vendors /\ [Next]_vars => (vendor \in Vendors)'
  BY DEF Next, vars, Reconfigure, Collector, Degraded, Authenticate, AuthenticationFails,
     ListVolumes, ListVolumesDegraded, Listed, ReadRest, Rest, PureRestDegraded,
     NetAppRestDegraded, HpeRestDegraded, DellRestDegraded, Save, SaveFails, WriteMirror,
     WriteMirrorFails, Crash
<1>3. vendor \in Vendors /\ [EmptiedBesideHosts]_vars =>
        [pc = "save" /\ ~data.listed =>
             volumes_cache'.names # {} \/ volumes_cache.names = {}]_vars
  BY DEF EmptiedBesideHosts
<1> QED BY <1>1, <1>2, <1>3, OnlyBesideHosts, PTL DEF Spec, FailedRequestKeepsVolumes

=============================================================================
