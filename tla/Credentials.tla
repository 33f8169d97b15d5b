----------------------------- MODULE Credentials -----------------------------
(***************************************************************************)
(* The KeePass credential cache for one key - that of SQL Server - and the *)
(* connection string built from it.  Collector threads, the refresh thread *)
(* and the midnight job ask KeePass for the key, all outside the lock, and *)
(* write the same entry.                                                   *)
(*                                                                         *)
(* Time is kept in timers that count down with each Tick: what is left of  *)
(* the entry's life, of a call in progress, of the refresh thread's sleep. *)
(***************************************************************************)
EXTENDS Naturals

CONSTANTS
    Threads,        \* worker threads of the collectors and of the API
    Refresher,      \* the thread of _background_refresh_loop()
    Midnight,       \* the job of refresh_all_cached()
    None,           \* no entry, no string, no lock holder
    CacheTTL,       \* _CACHE_TTL
    RefreshBefore,  \* _REFRESH_BEFORE
    StaleExtend,    \* _STALE_EXTEND
    Latency,        \* longest life of a call to KeePass (_FETCH_TIMEOUT)
    Period,         \* longest time between two scans: 60 s and the other keys' calls
    MaxRotations,   \* bound on password changes
    MaxFaults       \* bound on failed requests and restarts

Passwords == 0..MaxRotations
Callers == Threads \cup {Refresher, Midnight}

ASSUME TimingAssumption ==
    /\ {CacheTTL, RefreshBefore, StaleExtend, Latency, Period, MaxRotations, MaxFaults}
          \subseteq Nat
    /\ Period + Latency <= RefreshBefore
    /\ RefreshBefore < StaleExtend
    /\ StaleExtend <= CacheTTL

ASSUME CallersAssumption ==
    /\ Refresher # Midnight
    /\ {Refresher, Midnight} \cap Threads = {}
    /\ None \notin Passwords \cup Callers

VARIABLES
    password,   \* what KeePass holds; SQL Server accepts no other
    cached,     \* the credentials of the cache entry, or None
    left,       \* how long the entry is still valid
    conn_str,   \* the password in _conn_str_cache, or None
    lock,       \* the holder of _conn_str_lock, or None
    pc,         \* where each caller is
    got,        \* the credentials a caller has in hand
    timer,      \* how long a call, or the refresh thread's sleep, may still last
    quiet,      \* time since the last fault or rotation
    faults      \* bounded counter

callerVars == <<pc, got, timer>>
vars == <<password, cached, left, conn_str, lock, pc, got, timer, quiet, faults>>

States == {"idle", "lock", "fetch", "answered", "failed", "extend", "build"}

Init ==
    /\ password = 0
    /\ cached = None
    /\ left = 0
    /\ conn_str = None
    /\ lock = None
    /\ pc = [c \in Callers |-> "idle"]
    /\ got = [c \in Callers |-> None]
    /\ timer = [c \in Callers |-> IF c = Refresher THEN Period ELSE 0]
    /\ quiet = 0
    /\ faults = 0

(***************************************************************************)
(* The world.                                                              *)
(***************************************************************************)

\* Nothing has changed for longer than any property asks about.
Horizon == CacheTTL + Latency + 1

Timed(c) == pc[c] \notin {"idle", "lock"} \/ c = Refresher

\* Time passes unless a call would outlive its timeout or a scan is overdue.
Tick ==
    /\ \A c \in Callers : Timed(c) => timer[c] > 0
    /\ timer' = [c \in Callers |-> IF Timed(c) THEN timer[c] - 1 ELSE timer[c]]
    /\ left' = IF left > 0 THEN left - 1 ELSE 0
    /\ quiet' = IF quiet < Horizon THEN quiet + 1 ELSE quiet
    /\ UNCHANGED <<password, cached, conn_str, lock, pc, got, faults>>

\* Somebody changes the password in KeePass and in SQL Server.
Rotate ==
    /\ password < MaxRotations
    /\ password' = password + 1
    /\ quiet' = 0
    /\ UNCHANGED <<cached, left, conn_str, lock, callerVars, faults>>

Fault ==
    /\ faults < MaxFaults
    /\ faults' = faults + 1
    /\ quiet' = 0

(***************************************************************************)
(* get_credentials(), called by an array client or, with _conn_str_lock    *)
(* held, by _get_conn_str().  A hit of an array client changes nothing.    *)
(***************************************************************************)

Valid == cached # None /\ left > 0

Goto(c, label, creds, time) ==
    /\ pc' = [pc EXCEPT ![c] = label]
    /\ got' = [got EXCEPT ![c] = creds]
    /\ timer' = [timer EXCEPT ![c] = time]

Ask(c) == Goto(c, "fetch", None, Latency)

Miss(t) ==
    /\ pc[t] = "idle"
    /\ ~Valid
    /\ Ask(t)
    /\ UNCHANGED <<password, cached, left, conn_str, lock, quiet, faults>>

\* The unlocked look at _conn_str_cache finds nothing.
UseConnection(t) ==
    /\ pc[t] = "idle"
    /\ conn_str = None
    /\ Goto(t, "lock", None, 0)
    /\ UNCHANGED <<password, cached, left, conn_str, lock, quiet, faults>>

\* Mutant: no second look.
AcquireLockBlindly(t) ==
    /\ pc[t] = "lock"
    /\ lock = None
    /\ lock' = t
    /\ IF Valid THEN Goto(t, "build", cached, Latency) ELSE Ask(t)
    /\ UNCHANGED <<password, cached, left, conn_str, quiet, faults>>

\* The second look, under the lock: somebody else may have built it meanwhile.
AcquireLock(t) ==
    /\ pc[t] = "lock"
    /\ lock = None
    /\ \/ /\ conn_str # None
          /\ Goto(t, "idle", None, 0)
          /\ UNCHANGED lock
       \/ /\ conn_str = None
          /\ lock' = t
          /\ IF Valid THEN Goto(t, "build", cached, Latency) ELSE Ask(t)
    /\ UNCHANGED <<password, cached, left, conn_str, quiet, faults>>

\* KeePass answers with the password of this moment.
Answer(c) ==
    /\ pc[c] = "fetch"
    /\ Goto(c, "answered", password, timer[c])
    /\ UNCHANGED <<password, cached, left, conn_str, lock, quiet, faults>>

\* Back in the caller: _get_conn_str() still has the string to build, the refresh
\* thread sleeps again.
Return(c, creds) ==
    IF lock = c THEN Goto(c, "build", creds, timer[c])
    ELSE Goto(c, "idle", None, IF c = Refresher THEN Period ELSE 0)

\* Mutant: an entry that is there is kept.
StoreIfAbsent(c) ==
    /\ pc[c] = "answered"
    /\ cached' = IF cached = None THEN got[c] ELSE cached
    /\ left' = CacheTTL
    /\ Return(c, got[c])
    /\ UNCHANGED <<password, conn_str, lock, quiet, faults>>

\* _store(): whoever comes last wins.
Store(c) ==
    /\ pc[c] = "answered"
    /\ cached' = got[c]
    /\ left' = CacheTTL
    /\ Return(c, got[c])
    /\ UNCHANGED <<password, conn_str, lock, quiet, faults>>

\* The request fails; the refresh thread and the midnight job leave it at that.
FetchFails(c) ==
    /\ pc[c] = "fetch"
    /\ Fault
    /\ IF c \in Threads THEN Goto(c, "failed", None, timer[c]) ELSE Return(c, None)
    /\ UNCHANGED <<password, cached, left, conn_str, lock>>

\* The entry is looked up under the lock ...
ReadStale(t) ==
    /\ pc[t] = "failed"
    /\ cached # None
    /\ Goto(t, "extend", cached, timer[t])
    /\ UNCHANGED <<password, cached, left, conn_str, lock, quiet, faults>>

\* Mutant: the extension is added to what is left.
ExtendFurther(t) ==
    /\ pc[t] = "extend"
    /\ cached' = got[t]
    /\ left' = left + StaleExtend
    /\ Return(t, got[t])
    /\ UNCHANGED <<password, conn_str, lock, quiet, faults>>

\* ... and written back under the lock taken again, whatever it is by then.
Extend(t) ==
    /\ pc[t] = "extend"
    /\ cached' = got[t]
    /\ left' = StaleExtend
    /\ Return(t, got[t])
    /\ UNCHANGED <<password, conn_str, lock, quiet, faults>>

\* CredentialError, which leaves the with block of _conn_str_lock.
Refuse(t) ==
    /\ pc[t] = "failed"
    /\ cached = None
    /\ Goto(t, "idle", None, 0)
    /\ lock' = IF lock = t THEN None ELSE lock
    /\ UNCHANGED <<password, cached, left, conn_str, quiet, faults>>

\* The string is built and the lock released.
Build(t) ==
    /\ pc[t] = "build"
    /\ conn_str' = got[t]
    /\ lock' = None
    /\ Goto(t, "idle", None, 0)
    /\ UNCHANGED <<password, cached, left, quiet, faults>>

(***************************************************************************)
(* The two refreshers.                                                     *)
(***************************************************************************)

\* Mutant: only what has expired is refreshed.
DueExpired == cached # None /\ left = 0

Due == cached # None /\ left <= RefreshBefore

Scan ==
    /\ pc[Refresher] = "idle"
    /\ IF Due THEN Ask(Refresher) ELSE Goto(Refresher, "idle", None, Period)
    /\ UNCHANGED <<password, cached, left, conn_str, lock, quiet, faults>>

RefreshAllCached ==
    /\ pc[Midnight] = "idle"
    /\ cached # None
    /\ Ask(Midnight)
    /\ UNCHANGED <<password, cached, left, conn_str, lock, quiet, faults>>

\* The process dies and is started again with everything in memory lost.
Restart ==
    /\ Fault
    /\ cached' = None
    /\ left' = 0
    /\ conn_str' = None
    /\ lock' = None
    /\ pc' = [c \in Callers |-> "idle"]
    /\ got' = [c \in Callers |-> None]
    /\ timer' = [c \in Callers |-> IF c = Refresher THEN Period ELSE 0]
    /\ UNCHANGED password

\* What a thread does of itself once it is in a call.
Step(t) ==
    AcquireLock(t) \/ Answer(t) \/ Store(t) \/ ReadStale(t) \/ Extend(t) \/ Refuse(t) \/ Build(t)

Next ==
    \/ Tick \/ Rotate \/ Scan \/ RefreshAllCached \/ Restart
    \/ \E t \in Threads : Miss(t) \/ UseConnection(t) \/ Step(t) \/ FetchFails(t)
    \/ \E c \in {Refresher, Midnight} : Answer(c) \/ Store(c) \/ FetchFails(c)

Spec == Init /\ [][Next]_vars

(***************************************************************************)
(* What is checked.                                                        *)
(***************************************************************************)

\* The type invariant.
TypeOK ==
    /\ password \in Passwords
    /\ cached \in Passwords \cup {None}
    /\ left \in 0..CacheTTL
    /\ conn_str \in Passwords \cup {None}
    /\ lock \in Threads \cup {None}
    /\ pc \in [Callers -> States]
    /\ got \in [Callers -> Passwords \cup {None}]
    /\ timer \in [Callers -> Nat]
    /\ quiet \in Nat
    /\ faults \in Nat

\* The module's promise that collector threads never block waiting on KeePass
\* (keepass.py:7): once KeePass has answered for one scan and one call, the entry of
\* a cached key is valid, whatever the interleaving of the three kinds of callers.
ServedFromCache == quiet > Period + Latency /\ cached # None => left > 0

\* Answers may be stored in another order than they were given, and a failed call may
\* write back an entry it read before a refresh: an outdated password can return to
\* the cache, but none outlives one TTL and one call.
RotationSeen == quiet > CacheTTL + Latency => cached \in {None, password}

\* _get_conn_str() looks twice so that the string is built once: whatever threads find
\* it missing together, a string that is set is never replaced (but by a restart).
BuiltOnce == [][conn_str # None => conn_str' \in {conn_str, None}]_vars
=============================================================================
