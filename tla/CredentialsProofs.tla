--------------------------- MODULE CredentialsProofs ---------------------------
(***************************************************************************)
(* Proofs about Credentials, for any number of threads and any timing that *)
(* satisfies TimingAssumption.                                             *)
(***************************************************************************)
EXTENDS Credentials, TLAPS

\* A caller's timer is bounded by what it is doing.
Timers ==
    /\ \A c \in Callers : pc[c] \notin {"idle", "lock"} => timer[c] <= Latency
    /\ pc[Refresher] = "idle" => timer[Refresher] <= Period
    /\ pc[Refresher] \in {"idle", "fetch", "answered"}
    /\ pc[Midnight] \in {"idle", "fetch", "answered"}

\* Either the entry outlives the next scan and its call, or the scan that is to
\* follow the last fault has not ended yet.
Slack ==
    cached # None =>
        /\ pc[Refresher] = "idle" =>
               left > timer[Refresher] + Latency \/ quiet + timer[Refresher] <= Period
        /\ pc[Refresher] # "idle" =>
               left > timer[Refresher] \/ quiet + timer[Refresher] <= Period + Latency

\* What is outdated, or follows a failure, is as young as the call it belongs to.
Outdated ==
    /\ \A c \in Callers :
           (pc[c] = "answered" /\ got[c] # password) \/ pc[c] \in {"failed", "extend"} =>
               quiet + timer[c] <= Latency
    /\ cached \notin {None, password} => quiet + left <= CacheTTL + Latency

\* Whoever holds the lock is the only one to build the string, and it is not built.
Locked ==
    /\ lock # None => conn_str = None
    /\ \A c \in Callers : pc[c] = "build" => lock = c

\* Whoever has an answer or an entry in hand has one.
InHand == \A c \in Callers : pc[c] \in {"answered", "extend", "build"} => got[c] \in Passwords

IInv == TypeOK /\ Timers /\ Slack /\ Outdated /\ Locked /\ InHand

USE DEF Passwords, Callers, States

\* The assumptions, one by one.
LEMMA Constants ==
    /\ CacheTTL \in Nat /\ RefreshBefore \in Nat /\ StaleExtend \in Nat /\ Latency \in Nat
    /\ Period \in Nat /\ MaxRotations \in Nat /\ MaxFaults \in Nat
    /\ Period + Latency <= RefreshBefore /\ RefreshBefore < StaleExtend
    /\ StaleExtend <= CacheTTL
    /\ Refresher # Midnight /\ Refresher \notin Threads /\ Midnight \notin Threads
    /\ None \notin Threads /\ None # Refresher /\ None # Midnight
    /\ None \notin 0..MaxRotations
  BY TimingAssumption, CallersAssumption

\* What Goto() does to each caller.
LEMMA GotoApplied ==
    ASSUME TypeOK, NEW c \in Callers, NEW label \in States, NEW creds \in Passwords \cup {None},
           NEW time \in Nat, Goto(c, label, creds, time)
    PROVE  /\ pc' \in [Callers -> States] /\ got' \in [Callers -> Passwords \cup {None}]
           /\ timer' \in [Callers -> Nat]
           /\ pc'[c] = label /\ got'[c] = creds /\ timer'[c] = time
           /\ \A d \in Callers : d # c =>
                  pc'[d] = pc[d] /\ got'[d] = got[d] /\ timer'[d] = timer[d]
  BY DEF Goto, TypeOK

LEMMA InitIInv == Init => IInv
<1> SUFFICES ASSUME Init
             PROVE  IInv
  OBVIOUS
<1> USE Constants DEF Init
<1>1. TypeOK
  BY DEF TypeOK
<1>2. Timers
  <2>1. Refresher \in Callers /\ Midnight \in Callers
    OBVIOUS
  <2>2. \A c \in Callers : pc[c] = "idle"
    OBVIOUS
  <2>3. timer[Refresher] = Period
    BY <2>1
  <2>4. pc[Refresher] = "idle" /\ pc[Midnight] = "idle"
    BY <2>1, <2>2
  <2>5. timer[Refresher] <= Period
    BY <2>3
  <2>6. \A c \in Callers : pc[c] \notin {"idle", "lock"} => timer[c] <= Latency
    BY <2>2, Zenon
  <2>7. QED
    BY <2>4, <2>5, <2>6, Zenon DEF Timers
<1>3. Slack /\ Outdated /\ Locked /\ InHand
  BY DEF Slack, Outdated, Locked, InHand
<1>4. QED
  BY <1>1, <1>2, <1>3 DEF IInv

\* Two timers in step, of which the second counts down.
LEMMA InStep ==
    ASSUME NEW a \in Nat, NEW b \in Nat, NEW c \in Nat, NEW d \in Nat, NEW bound \in Nat,
           a <= c + 1, b = d - 1, c + d <= bound
    PROVE  a + b <= bound
  OBVIOUS

LEMMA AtZero ==
    ASSUME NEW a \in Nat, NEW b \in Nat, NEW bound \in Nat, a <= bound, b = 0
    PROVE  a + b <= bound
  OBVIOUS

LEMMA TickIInv ==
    ASSUME IInv, Tick
    PROVE  IInv'
<1>1. TypeOK'
  BY Constants DEF IInv, TypeOK, Tick, Horizon
<1>2. \A c \in Callers : timer'[c] \in Nat /\ timer'[c] <= timer[c]
  BY DEF IInv, TypeOK, Tick
<1>3. \A c \in Callers : Timed(c) => timer[c] > 0 /\ timer'[c] = timer[c] - 1
  BY DEF Tick
<1>4. /\ quiet' \in Nat /\ quiet' <= quiet + 1 /\ quiet \in Nat /\ left \in Nat
      /\ left' = (IF left > 0 THEN left - 1 ELSE 0)
      /\ left <= CacheTTL
  BY Constants DEF IInv, TypeOK, Tick
<1>a. left' \in Nat /\ (left > 0 => left' = left - 1) /\ (left = 0 => left' = 0)
  BY <1>4
<1>c. quiet \in Nat /\ quiet' \in Nat /\ quiet' <= quiet + 1 /\ left \in Nat
  BY <1>4
<1>5. Timers'
  BY <1>2, Constants DEF IInv, TypeOK, Timers, Tick
<1>6. timer[Refresher] \in Nat /\ timer[Refresher] > 0 /\ timer'[Refresher] = timer[Refresher] - 1
  BY <1>3 DEF IInv, TypeOK, Timed
<1>7. Slack'
  BY <1>4, <1>6, Constants DEF IInv, Slack, Tick
<1>8. \A c \in Callers : pc[c] \in {"answered", "failed", "extend"} =>
          timer[c] > 0 /\ timer[c] \in Nat /\ timer'[c] = timer[c] - 1
  BY <1>3 DEF IInv, TypeOK, Timed
<1>b. CacheTTL \in Nat /\ Latency \in Nat /\ CacheTTL + Latency \in Nat /\ Period + Latency <= CacheTTL /\ Period + Latency \in Nat
      /\ CacheTTL <= CacheTTL + Latency
  BY Constants
<1>9. ASSUME cached \notin {None, password}
      PROVE  quiet' + left' <= CacheTTL + Latency
  <2>1. CASE left > 0
    <3>1. quiet + left <= CacheTTL + Latency
      BY <1>9 DEF IInv, Outdated
    <3>2. left' = left - 1
      BY <1>a, <2>1
    <3>3. QED
      BY <1>a, <1>b, <1>c, <3>1, <3>2, InStep
  <2>2. CASE left = 0
    <3>1. quiet + timer[Refresher] <= Period + Latency
      BY <1>6, <1>9, <2>2, Constants DEF IInv, TypeOK, Slack, Timers
    <3>2. quiet' <= Period + Latency
      BY <1>4, <1>6, <3>1, Constants
    <3>3. quiet' <= CacheTTL + Latency
      BY <1>b, <1>c, <3>2, Constants
    <3>4. left' = 0
      BY <1>a, <2>2
    <3>5. QED
      BY <1>b, <1>c, <3>3, <3>4, AtZero
  <2>3. QED
    BY <1>4, <2>1, <2>2
<1>10. Outdated'
  <2>1. ASSUME NEW c \in Callers,
               (pc[c] = "answered" /\ got[c] # password) \/ pc[c] \in {"failed", "extend"}
        PROVE  quiet' + timer'[c] <= Latency
    <3>1. quiet + timer[c] <= Latency
      BY <2>1 DEF IInv, Outdated
    <3>2. timer[c] \in Nat /\ timer'[c] = timer[c] - 1 /\ timer'[c] \in Nat
      BY <1>2, <1>8, <2>1
    <3>3. QED
      BY <1>4, <3>1, <3>2, Constants
  <2>2. QED
    BY <1>9, <2>1 DEF Outdated, Tick
<1>11. Locked' /\ InHand'
  BY DEF IInv, Locked, InHand, Tick
<1>12. QED
  BY <1>1, <1>5, <1>7, <1>10, <1>11 DEF IInv

LEMMA RotateIInv ==
    ASSUME IInv, Rotate
    PROVE  IInv'
<1> USE Constants DEF IInv, Rotate, callerVars
<1>1. TypeOK'
  BY DEF TypeOK
<1>2. Timers' /\ Locked' /\ InHand'
  BY DEF Timers, Locked, InHand
<1>3. Slack'
  BY DEF Slack, Timers, TypeOK
<1>4. Outdated'
  BY DEF Outdated, Timers, TypeOK
<1>5. QED
  BY <1>1, <1>2, <1>3, <1>4

LEMMA RestartIInv ==
    ASSUME IInv, Restart
    PROVE  IInv'
<1> USE Constants DEF IInv, Restart, Fault
<1>1. TypeOK'
  BY DEF TypeOK
<1>2. Timers' /\ Slack'
  BY DEF Timers, Slack
<1>3. Outdated' /\ Locked' /\ InHand'
  BY DEF Outdated, Locked, InHand
<1>4. QED
  BY <1>1, <1>2, <1>3

LEMMA MissIInv ==
    ASSUME IInv, NEW t \in Threads, Miss(t)
    PROVE  IInv'
<1> USE Constants DEF IInv
<1>1. Goto(t, "fetch", None, Latency)
  BY DEF Miss, Ask
<1>2. None \in Passwords \cup {None} /\ Latency \in Nat /\ "fetch" \in States
  BY DEF TypeOK
<1>3. /\ pc' \in [Callers -> States] /\ got' \in [Callers -> Passwords \cup {None}]
      /\ timer' \in [Callers -> Nat]
      /\ pc'[t] = "fetch" /\ got'[t] = None /\ timer'[t] = Latency
      /\ \A d \in Callers : d # t =>
             pc'[d] = pc[d] /\ got'[d] = got[d] /\ timer'[d] = timer[d]
  BY <1>1, <1>2, GotoApplied
<1>4. UNCHANGED <<password, cached, left, conn_str, lock, quiet, faults>>
  BY DEF Miss, Ask
<1>5. pc[t] = "idle"
  BY DEF Miss
<1>10. TypeOK'
  BY <1>2, <1>3, <1>4, <1>5 DEF TypeOK
<1>11. Timers'
  BY <1>2, <1>3, <1>4, <1>5 DEF TypeOK, Timers
<1>12. Slack'
  BY <1>2, <1>3, <1>4, <1>5 DEF TypeOK, Slack, Timers
<1>13. Outdated'
  BY <1>2, <1>3, <1>4, <1>5 DEF TypeOK, Outdated, Timers
<1>14. Locked'
  BY <1>2, <1>3, <1>4, <1>5 DEF TypeOK, Locked
<1>15. InHand'
  BY <1>2, <1>3, <1>4, <1>5 DEF TypeOK, InHand
<1>16. QED
  BY <1>10, <1>11, <1>12, <1>13, <1>14, <1>15

LEMMA UseConnectionIInv ==
    ASSUME IInv, NEW t \in Threads, UseConnection(t)
    PROVE  IInv'
<1> USE Constants DEF IInv
<1>1. Goto(t, "lock", None, 0)
  BY DEF UseConnection
<1>2. None \in Passwords \cup {None} /\ 0 \in Nat /\ "lock" \in States
  BY DEF TypeOK
<1>3. /\ pc' \in [Callers -> States] /\ got' \in [Callers -> Passwords \cup {None}]
      /\ timer' \in [Callers -> Nat]
      /\ pc'[t] = "lock" /\ got'[t] = None /\ timer'[t] = 0
      /\ \A d \in Callers : d # t =>
             pc'[d] = pc[d] /\ got'[d] = got[d] /\ timer'[d] = timer[d]
  BY <1>1, <1>2, GotoApplied
<1>4. UNCHANGED <<password, cached, left, conn_str, lock, quiet, faults>>
  BY DEF UseConnection
<1>5. pc[t] = "idle"
  BY DEF UseConnection
<1>10. TypeOK'
  BY <1>2, <1>3, <1>4, <1>5 DEF TypeOK
<1>11. Timers'
  BY <1>2, <1>3, <1>4, <1>5 DEF TypeOK, Timers
<1>12. Slack'
  BY <1>2, <1>3, <1>4, <1>5 DEF TypeOK, Slack, Timers
<1>13. Outdated'
  BY <1>2, <1>3, <1>4, <1>5 DEF TypeOK, Outdated, Timers
<1>14. Locked'
  BY <1>2, <1>3, <1>4, <1>5 DEF TypeOK, Locked
<1>15. InHand'
  BY <1>2, <1>3, <1>4, <1>5 DEF TypeOK, InHand
<1>16. QED
  BY <1>10, <1>11, <1>12, <1>13, <1>14, <1>15

LEMMA AnswerIInv ==
    ASSUME IInv, NEW c \in Callers, Answer(c)
    PROVE  IInv'
<1> USE Constants DEF IInv
<1>1. Goto(c, "answered", password, timer[c])
  BY DEF Answer
<1>2. password \in Passwords \cup {None} /\ timer[c] \in Nat /\ "answered" \in States
  BY DEF TypeOK
<1>3. /\ pc' \in [Callers -> States] /\ got' \in [Callers -> Passwords \cup {None}]
      /\ timer' \in [Callers -> Nat]
      /\ pc'[c] = "answered" /\ got'[c] = password /\ timer'[c] = timer[c]
      /\ \A d \in Callers : d # c =>
             pc'[d] = pc[d] /\ got'[d] = got[d] /\ timer'[d] = timer[d]
  BY <1>1, <1>2, GotoApplied
<1>4. UNCHANGED <<password, cached, left, conn_str, lock, quiet, faults>>
  BY DEF Answer
<1>5. pc[c] = "fetch"
  BY DEF Answer
<1>10. TypeOK'
  BY <1>2, <1>3, <1>4, <1>5 DEF TypeOK
<1>11. Timers'
  BY <1>2, <1>3, <1>4, <1>5 DEF TypeOK, Timers
<1>12. Slack'
  BY <1>2, <1>3, <1>4, <1>5 DEF TypeOK, Slack, Timers
<1>13. Outdated'
  BY <1>2, <1>3, <1>4, <1>5 DEF TypeOK, Outdated, Timers
<1>14. Locked'
  BY <1>2, <1>3, <1>4, <1>5 DEF TypeOK, Locked
<1>15. InHand'
  BY <1>2, <1>3, <1>4, <1>5 DEF TypeOK, InHand
<1>16. QED
  BY <1>10, <1>11, <1>12, <1>13, <1>14, <1>15

LEMMA ReadStaleIInv ==
    ASSUME IInv, NEW t \in Threads, ReadStale(t)
    PROVE  IInv'
<1> USE Constants DEF IInv
<1>1. Goto(t, "extend", cached, timer[t])
  BY DEF ReadStale
<1>2. cached \in Passwords \cup {None} /\ timer[t] \in Nat /\ "extend" \in States
  BY DEF TypeOK
<1>3. /\ pc' \in [Callers -> States] /\ got' \in [Callers -> Passwords \cup {None}]
      /\ timer' \in [Callers -> Nat]
      /\ pc'[t] = "extend" /\ got'[t] = cached /\ timer'[t] = timer[t]
      /\ \A d \in Callers : d # t =>
             pc'[d] = pc[d] /\ got'[d] = got[d] /\ timer'[d] = timer[d]
  BY <1>1, <1>2, GotoApplied
<1>4. UNCHANGED <<password, cached, left, conn_str, lock, quiet, faults>>
  BY DEF ReadStale
<1>5. pc[t] = "failed" /\ cached # None
  BY DEF ReadStale
<1>10. TypeOK'
  BY <1>2, <1>3, <1>4, <1>5 DEF TypeOK
<1>11. Timers'
  BY <1>2, <1>3, <1>4, <1>5 DEF TypeOK, Timers
<1>12. Slack'
  BY <1>2, <1>3, <1>4, <1>5 DEF TypeOK, Slack, Timers
<1>13. Outdated'
  BY <1>2, <1>3, <1>4, <1>5 DEF TypeOK, Outdated, Timers
<1>14. Locked'
  BY <1>2, <1>3, <1>4, <1>5 DEF TypeOK, Locked
<1>15. InHand'
  BY <1>2, <1>3, <1>4, <1>5 DEF TypeOK, InHand
<1>16. QED
  BY <1>10, <1>11, <1>12, <1>13, <1>14, <1>15

LEMMA RefuseIInv ==
    ASSUME IInv, NEW t \in Threads, Refuse(t)
    PROVE  IInv'
<1> USE Constants DEF IInv
<1>1. Goto(t, "idle", None, 0)
  BY DEF Refuse
<1>2. None \in Passwords \cup {None} /\ 0 \in Nat /\ "idle" \in States
  BY DEF TypeOK
<1>3. /\ pc' \in [Callers -> States] /\ got' \in [Callers -> Passwords \cup {None}]
      /\ timer' \in [Callers -> Nat]
      /\ pc'[t] = "idle" /\ got'[t] = None /\ timer'[t] = 0
      /\ \A d \in Callers : d # t =>
             pc'[d] = pc[d] /\ got'[d] = got[d] /\ timer'[d] = timer[d]
  BY <1>1, <1>2, GotoApplied
<1>4. UNCHANGED <<password, cached, left, conn_str, quiet, faults>>
  BY DEF Refuse
<1>5. pc[t] = "failed" /\ lock' = (IF lock = t THEN None ELSE lock)
  BY DEF Refuse
<1>10. TypeOK'
  BY <1>2, <1>3, <1>4, <1>5 DEF TypeOK
<1>11. Timers'
  BY <1>2, <1>3, <1>4, <1>5 DEF TypeOK, Timers
<1>12. Slack'
  BY <1>2, <1>3, <1>4, <1>5 DEF TypeOK, Slack, Timers
<1>13. Outdated'
  BY <1>2, <1>3, <1>4, <1>5 DEF TypeOK, Outdated, Timers
<1>14. Locked'
  BY <1>2, <1>3, <1>4, <1>5 DEF TypeOK, Locked
<1>15. InHand'
  BY <1>2, <1>3, <1>4, <1>5 DEF TypeOK, InHand
<1>16. QED
  BY <1>10, <1>11, <1>12, <1>13, <1>14, <1>15

LEMMA BuildIInv ==
    ASSUME IInv, NEW t \in Threads, Build(t)
    PROVE  IInv'
<1> USE Constants DEF IInv
<1>1. Goto(t, "idle", None, 0)
  BY DEF Build
<1>2. None \in Passwords \cup {None} /\ 0 \in Nat /\ "idle" \in States
  BY DEF TypeOK
<1>3. /\ pc' \in [Callers -> States] /\ got' \in [Callers -> Passwords \cup {None}]
      /\ timer' \in [Callers -> Nat]
      /\ pc'[t] = "idle" /\ got'[t] = None /\ timer'[t] = 0
      /\ \A d \in Callers : d # t =>
             pc'[d] = pc[d] /\ got'[d] = got[d] /\ timer'[d] = timer[d]
  BY <1>1, <1>2, GotoApplied
<1>4. UNCHANGED <<password, cached, left, quiet, faults>>
  BY DEF Build
<1>5. pc[t] = "build" /\ conn_str' = got[t] /\ lock' = None
  BY DEF Build
<1>10. TypeOK'
  BY <1>2, <1>3, <1>4, <1>5 DEF TypeOK
<1>11. Timers'
  BY <1>2, <1>3, <1>4, <1>5 DEF TypeOK, Timers
<1>12. Slack'
  BY <1>2, <1>3, <1>4, <1>5 DEF TypeOK, Slack, Timers
<1>13. Outdated'
  BY <1>2, <1>3, <1>4, <1>5 DEF TypeOK, Outdated, Timers
<1>14. Locked'
  BY <1>2, <1>3, <1>4, <1>5 DEF TypeOK, Locked
<1>15. InHand'
  BY <1>2, <1>3, <1>4, <1>5 DEF TypeOK, InHand
<1>16. QED
  BY <1>10, <1>11, <1>12, <1>13, <1>14, <1>15

LEMMA RefreshAllCachedIInv ==
    ASSUME IInv, RefreshAllCached
    PROVE  IInv'
<1> USE Constants DEF IInv
<1>1. Goto(Midnight, "fetch", None, Latency)
  BY DEF RefreshAllCached, Ask
<1>2. None \in Passwords \cup {None} /\ Latency \in Nat /\ "fetch" \in States
  BY DEF TypeOK
<1>3. /\ pc' \in [Callers -> States] /\ got' \in [Callers -> Passwords \cup {None}]
      /\ timer' \in [Callers -> Nat]
      /\ pc'[Midnight] = "fetch" /\ got'[Midnight] = None /\ timer'[Midnight] = Latency
      /\ \A d \in Callers : d # Midnight =>
             pc'[d] = pc[d] /\ got'[d] = got[d] /\ timer'[d] = timer[d]
  BY <1>1, <1>2, GotoApplied
<1>4. UNCHANGED <<password, cached, left, conn_str, lock, quiet, faults>>
  BY DEF RefreshAllCached, Ask
<1>5. pc[Midnight] = "idle"
  BY DEF RefreshAllCached
<1>10. TypeOK'
  BY <1>2, <1>3, <1>4, <1>5 DEF TypeOK
<1>11. Timers'
  BY <1>2, <1>3, <1>4, <1>5 DEF TypeOK, Timers
<1>12. Slack'
  BY <1>2, <1>3, <1>4, <1>5 DEF TypeOK, Slack, Timers
<1>13. Outdated'
  BY <1>2, <1>3, <1>4, <1>5 DEF TypeOK, Outdated, Timers
<1>14. Locked'
  BY <1>2, <1>3, <1>4, <1>5 DEF TypeOK, Locked
<1>15. InHand'
  BY <1>2, <1>3, <1>4, <1>5 DEF TypeOK, InHand
<1>16. QED
  BY <1>10, <1>11, <1>12, <1>13, <1>14, <1>15


\* What Return() does, to a thread with the string to build and to one without.
LEMMA Returned ==
    ASSUME IInv, NEW c \in Callers, NEW creds \in Passwords, Return(c, creds)
    PROVE  /\ pc' \in [Callers -> States] /\ got' \in [Callers -> Passwords \cup {None}]
           /\ timer' \in [Callers -> Nat]
           /\ \/ lock = c /\ pc'[c] = "build" /\ got'[c] = creds /\ timer'[c] = timer[c]
              \/ /\ lock # c /\ pc'[c] = "idle" /\ got'[c] = None
                 /\ timer'[c] = IF c = Refresher THEN Period ELSE 0
           /\ \A d \in Callers : d # c =>
                  pc'[d] = pc[d] /\ got'[d] = got[d] /\ timer'[d] = timer[d]
<1>1. TypeOK /\ timer[c] \in Nat
  BY DEF IInv, TypeOK
<1>2. CASE lock = c
  <2>1. Goto(c, "build", creds, timer[c])
    BY <1>2 DEF Return
  <2>2. QED
    <3>1. creds \in Passwords \cup {None} /\ "build" \in States
      OBVIOUS
    <3> HIDE DEF States, Passwords, Callers
    <3>2. /\ pc' \in [Callers -> States] /\ got' \in [Callers -> Passwords \cup {None}]
          /\ timer' \in [Callers -> Nat]
          /\ pc'[c] = "build" /\ got'[c] = creds /\ timer'[c] = timer[c]
          /\ \A d \in Callers : d # c =>
                 pc'[d] = pc[d] /\ got'[d] = got[d] /\ timer'[d] = timer[d]
      BY <1>1, <2>1, <3>1, GotoApplied
    <3>3. QED
      BY <1>2, <3>2
<1>3. CASE lock # c
  <2> DEFINE time == IF c = Refresher THEN Period ELSE 0
  <2>1. Goto(c, "idle", None, time) /\ time \in Nat
    BY <1>3, Constants DEF Return
  <2> HIDE DEF time
  <2>2. /\ pc' \in [Callers -> States] /\ got' \in [Callers -> Passwords \cup {None}]
        /\ timer' \in [Callers -> Nat]
        /\ pc'[c] = "idle" /\ got'[c] = None /\ timer'[c] = time
        /\ \A d \in Callers : d # c =>
               pc'[d] = pc[d] /\ got'[d] = got[d] /\ timer'[d] = timer[d]
    BY <1>1, <2>1, GotoApplied
  <2>3. QED
    BY <1>3, <2>2 DEF time
<1>4. QED
  BY <1>2, <1>3

LEMMA StoreIInv ==
    ASSUME IInv, NEW c \in Callers, Store(c)
    PROVE  IInv'
<1> USE Constants DEF IInv
<1>1. c \in Callers /\ got[c] \in Passwords /\ pc[c] = "answered"
  BY DEF Store, InHand
<1>2. Return(c, got[c]) /\ cached' = got[c] /\ left' = CacheTTL
      /\ UNCHANGED <<password, conn_str, lock, quiet, faults>>
  BY DEF Store
<1>3. /\ pc' \in [Callers -> States] /\ got' \in [Callers -> Passwords \cup {None}]
      /\ timer' \in [Callers -> Nat]
      /\ \/ lock = c /\ pc'[c] = "build" /\ got'[c] = got[c] /\ timer'[c] = timer[c]
         \/ /\ lock # c /\ pc'[c] = "idle" /\ got'[c] = None
            /\ timer'[c] = IF c = Refresher THEN Period ELSE 0
      /\ \A d \in Callers : d # c =>
             pc'[d] = pc[d] /\ got'[d] = got[d] /\ timer'[d] = timer[d]
  BY <1>1, <1>2, Returned
<1>4. lock # Refresher /\ lock # Midnight
  BY DEF TypeOK
<1>10. TypeOK'
  BY <1>1, <1>2, <1>3, <1>4 DEF TypeOK
<1>11. Timers'
  BY <1>1, <1>2, <1>3, <1>4 DEF TypeOK, Timers
<1>12. Slack'
  BY <1>1, <1>2, <1>3, <1>4 DEF TypeOK, Slack, Timers
<1>13. Outdated'
  BY <1>1, <1>2, <1>3, <1>4 DEF TypeOK, Outdated, Timers
<1>14. Locked'
  BY <1>1, <1>2, <1>3, <1>4 DEF TypeOK, Locked
<1>15. InHand'
  BY <1>1, <1>2, <1>3, <1>4 DEF TypeOK, InHand
<1>16. QED
  BY <1>10, <1>11, <1>12, <1>13, <1>14, <1>15

LEMMA ExtendIInv ==
    ASSUME IInv, NEW t \in Threads, Extend(t)
    PROVE  IInv'
<1> USE Constants DEF IInv
<1>1. t \in Callers /\ got[t] \in Passwords /\ pc[t] = "extend"
  BY DEF Extend, InHand
<1>2. Return(t, got[t]) /\ cached' = got[t] /\ left' = StaleExtend
      /\ UNCHANGED <<password, conn_str, lock, quiet, faults>>
  BY DEF Extend
<1>3. /\ pc' \in [Callers -> States] /\ got' \in [Callers -> Passwords \cup {None}]
      /\ timer' \in [Callers -> Nat]
      /\ \/ lock = t /\ pc'[t] = "build" /\ got'[t] = got[t] /\ timer'[t] = timer[t]
         \/ /\ lock # t /\ pc'[t] = "idle" /\ got'[t] = None
            /\ timer'[t] = IF t = Refresher THEN Period ELSE 0
      /\ \A d \in Callers : d # t =>
             pc'[d] = pc[d] /\ got'[d] = got[d] /\ timer'[d] = timer[d]
  BY <1>1, <1>2, Returned
<1>4. lock # Refresher /\ lock # Midnight
  BY DEF TypeOK
<1>10. TypeOK'
  BY <1>1, <1>2, <1>3, <1>4 DEF TypeOK
<1>11. Timers'
  BY <1>1, <1>2, <1>3, <1>4 DEF TypeOK, Timers
<1>12. Slack'
  BY <1>1, <1>2, <1>3, <1>4 DEF TypeOK, Slack, Timers
<1>13. Outdated'
  BY <1>1, <1>2, <1>3, <1>4 DEF TypeOK, Outdated, Timers
<1>14. Locked'
  BY <1>1, <1>2, <1>3, <1>4 DEF TypeOK, Locked
<1>15. InHand'
  BY <1>1, <1>2, <1>3, <1>4 DEF TypeOK, InHand
<1>16. QED
  BY <1>10, <1>11, <1>12, <1>13, <1>14, <1>15

LEMMA ScanIInv ==
    ASSUME IInv, Scan
    PROVE  IInv'
<1> DEFINE label == IF Due THEN "fetch" ELSE "idle"
           time == IF Due THEN Latency ELSE Period
<1> USE Constants DEF IInv
<1>1. Goto(Refresher, label, None, time) /\ label \in States /\ time \in Nat
  BY DEF Scan, Ask
<1>2. UNCHANGED <<password, cached, left, conn_str, lock, quiet, faults>>
      /\ pc[Refresher] = "idle"
  BY DEF Scan
<1>3. \/ label = "fetch" /\ time = Latency /\ Due
      \/ label = "idle" /\ time = Period /\ ~Due
  OBVIOUS
<1> HIDE DEF label, time
<1>4. /\ pc' \in [Callers -> States] /\ got' \in [Callers -> Passwords \cup {None}]
      /\ timer' \in [Callers -> Nat]
      /\ pc'[Refresher] = label /\ got'[Refresher] = None /\ timer'[Refresher] = time
      /\ \A d \in Callers : d # Refresher =>
             pc'[d] = pc[d] /\ got'[d] = got[d] /\ timer'[d] = timer[d]
  <2>1. Refresher \in Callers /\ None \in Passwords \cup {None} /\ TypeOK
    OBVIOUS
  <2>2. QED
    BY <1>1, <2>1, GotoApplied
<1>10. TypeOK'
  BY <1>2, <1>3, <1>4 DEF TypeOK
<1>11. Timers'
  BY <1>2, <1>3, <1>4 DEF TypeOK, Timers
<1>12. Slack'
  BY <1>2, <1>3, <1>4 DEF TypeOK, Slack, Timers, Due
<1>13. Outdated'
  BY <1>2, <1>3, <1>4 DEF TypeOK, Outdated, Timers, Due
<1>14. Locked'
  BY <1>2, <1>3, <1>4 DEF TypeOK, Locked
<1>15. InHand'
  BY <1>2, <1>3, <1>4 DEF TypeOK, InHand
<1>16. QED
  BY <1>10, <1>11, <1>12, <1>13, <1>14, <1>15

LEMMA AcquireLockIInv ==
    ASSUME IInv, NEW t \in Threads, AcquireLock(t)
    PROVE  IInv'
<1> USE Constants DEF IInv
<1>1. pc[t] = "lock" /\ lock = None /\ UNCHANGED <<password, cached, left, conn_str, quiet, faults>>
  BY DEF AcquireLock
<1>2. PICK label \in States, creds \in Passwords \cup {None}, time \in Nat :
          /\ Goto(t, label, creds, time)
          /\ \/ label = "idle" /\ lock' = None
             \/ label = "fetch" /\ time = Latency /\ lock' = t /\ conn_str = None
             \/ /\ label = "build" /\ time = Latency /\ lock' = t /\ conn_str = None
                /\ creds = cached /\ cached # None
  <2>1. CASE conn_str # None
    BY <1>1, <2>1 DEF AcquireLock
  <2>2. CASE conn_str = None /\ Valid
    BY <1>1, <2>2 DEF AcquireLock, Valid, TypeOK
  <2>3. CASE conn_str = None /\ ~Valid
    BY <1>1, <2>3 DEF AcquireLock, Ask
  <2>4. QED
    BY <2>1, <2>2, <2>3
<1>4. /\ pc' \in [Callers -> States] /\ got' \in [Callers -> Passwords \cup {None}]
      /\ timer' \in [Callers -> Nat]
      /\ pc'[t] = label /\ got'[t] = creds /\ timer'[t] = time
      /\ \A d \in Callers : d # t =>
             pc'[d] = pc[d] /\ got'[d] = got[d] /\ timer'[d] = timer[d]
  <2> HIDE DEF States, Passwords, Callers
  <2>1. t \in Callers /\ TypeOK
    BY DEF Callers
  <2>2. QED
    BY <1>2, <2>1, GotoApplied
<1>10. TypeOK'
  BY <1>1, <1>2, <1>4 DEF TypeOK
<1>11. Timers'
  BY <1>1, <1>2, <1>4 DEF TypeOK, Timers
<1>12. Slack'
  BY <1>1, <1>2, <1>4 DEF TypeOK, Slack, Timers
<1>13. Outdated'
  BY <1>1, <1>2, <1>4 DEF TypeOK, Outdated, Timers
<1>14. Locked'
  BY <1>1, <1>2, <1>4 DEF TypeOK, Locked
<1>15. InHand'
  BY <1>1, <1>2, <1>4 DEF TypeOK, InHand
<1>16. QED
  BY <1>10, <1>11, <1>12, <1>13, <1>14, <1>15

LEMMA FetchFailsIInv ==
    ASSUME IInv, NEW c \in Callers, FetchFails(c)
    PROVE  IInv'
<1> USE Constants DEF IInv
<1>1. /\ pc[c] = "fetch" /\ UNCHANGED <<password, cached, left, conn_str, lock>>
      /\ quiet' = 0 /\ faults' \in Nat
  BY DEF FetchFails, Fault, TypeOK
<1>2. PICK label \in States, time \in Nat :
          /\ Goto(c, label, None, time)
          /\ \/ label = "failed" /\ c \in Threads /\ time = timer[c]
             \/ label = "idle" /\ time = IF c = Refresher THEN Period ELSE 0
  <2>1. CASE c \in Threads
    BY <2>1 DEF FetchFails, TypeOK
  <2>2. CASE c \notin Threads
    <3>1. lock # c
      BY <2>2 DEF TypeOK
    <3>2. Goto(c, "idle", None, IF c = Refresher THEN Period ELSE 0)
      BY <2>2, <3>1 DEF FetchFails, Return
    <3>3. QED
      BY <3>2
  <2>3. QED
    BY <2>1, <2>2
<1>4. /\ pc' \in [Callers -> States] /\ got' \in [Callers -> Passwords \cup {None}]
      /\ timer' \in [Callers -> Nat]
      /\ pc'[c] = label /\ got'[c] = None /\ timer'[c] = time
      /\ \A d \in Callers : d # c =>
             pc'[d] = pc[d] /\ got'[d] = got[d] /\ timer'[d] = timer[d]
  <2> HIDE DEF States, Passwords, Callers
  <2>1. None \in Passwords \cup {None} /\ TypeOK
    OBVIOUS
  <2>2. QED
    BY <1>2, <2>1, GotoApplied
<1>10. TypeOK'
  BY <1>1, <1>2, <1>4 DEF TypeOK
<1>11. Timers'
  BY <1>1, <1>2, <1>4 DEF TypeOK, Timers
<1>12. Slack'
  BY <1>1, <1>2, <1>4 DEF TypeOK, Slack, Timers
<1>13. Outdated'
  BY <1>1, <1>2, <1>4 DEF TypeOK, Outdated, Timers
<1>14. Locked'
  BY <1>1, <1>2, <1>4 DEF TypeOK, Locked
<1>15. InHand'
  BY <1>1, <1>2, <1>4 DEF TypeOK, InHand
<1>16. QED
  BY <1>10, <1>11, <1>12, <1>13, <1>14, <1>15

LEMMA NextIInv ==
    ASSUME IInv, [Next]_vars
    PROVE  IInv'
<1>1. CASE Tick \/ Rotate \/ Restart
  BY <1>1, TickIInv, RotateIInv, RestartIInv
<1>2. CASE Scan \/ RefreshAllCached
  BY <1>2, ScanIInv, RefreshAllCachedIInv
<1>3. ASSUME NEW t \in Threads, Miss(t) \/ UseConnection(t) \/ Step(t) \/ FetchFails(t)
      PROVE  IInv'
  BY <1>3, MissIInv, UseConnectionIInv, AcquireLockIInv, AnswerIInv, StoreIInv, ReadStaleIInv,
     ExtendIInv, RefuseIInv, BuildIInv, FetchFailsIInv DEF Step
<1>4. ASSUME NEW c \in {Refresher, Midnight}, Answer(c) \/ Store(c) \/ FetchFails(c)
      PROVE  IInv'
  BY <1>4, AnswerIInv, StoreIInv, FetchFailsIInv
<1>5. CASE UNCHANGED vars
  BY <1>5 DEF vars, IInv, TypeOK, Timers, Slack, Outdated, Locked, InHand
<1>6. QED
  BY <1>1, <1>2, <1>3, <1>4, <1>5 DEF Next

LEMMA SpecIInv == Spec => []IInv
  BY InitIInv, NextIInv, PTL DEF Spec

\* The cache, the string and every caller always have their type.
THEOREM TypeCorrect == Spec => []TypeOK
<1>1. IInv => TypeOK
  BY DEF IInv
<1>2. QED
  BY <1>1, SpecIInv, PTL

\* Whatever the number of threads and the (sufficient) timing, once nothing has failed
\* for one scan and one call no reader of a cached key has to ask KeePass.
THEOREM AlwaysServed == Spec => []ServedFromCache
<1>1. IInv => ServedFromCache
  BY Constants DEF IInv, TypeOK, Timers, Slack, ServedFromCache
<1>2. QED
  BY <1>1, SpecIInv, PTL

\* A late answer or an entry written back after a failure never keeps an outdated
\* password in the cache for longer than one TTL and one call.
THEOREM RotationAlwaysSeen == Spec => []RotationSeen
<1>1. IInv => RotationSeen
  BY Constants DEF IInv, TypeOK, Outdated, RotationSeen
<1>2. QED
  BY <1>1, SpecIInv, PTL

\* A connection string that is set is never replaced by another one.
THEOREM StringBuiltOnce == Spec => BuiltOnce
<1> DEFINE Once == conn_str # None => conn_str' \in {conn_str, None}
<1>1. ASSUME IInv, [Next]_vars
      PROVE  Once
  <2>1. ASSUME NEW t \in Threads, Build(t)
        PROVE  conn_str = None
    BY <1>1, <2>1, Constants DEF IInv, TypeOK, Locked, Build
  <2>2. QED
    BY <1>1, <2>1 DEF Next, vars, Step, Tick, Rotate, Scan, RefreshAllCached, Restart, Miss,
       UseConnection, AcquireLock, Answer, Store, ReadStale, Extend, Refuse, FetchFails
<1>2. QED
  BY <1>1, SpecIInv, PTL DEF Spec, BuiltOnce
=============================================================================
