------------------------- MODULE CapacityAlertsProofs -------------------------
(***************************************************************************)
(* Proofs about CapacityAlerts, for every number of thresholds and of      *)
(* checkers: types; that an array has no more thresholds open than checks  *)
(* may run at once; and that checks that do not overlap leave at most one  *)
(* threshold open and never repeat a message without a reason.             *)
(***************************************************************************)
EXTENDS CapacityAlerts, FiniteSets, FiniteSetTheorems, FunctionTheorems, TLAPS

\* The blank row and the thread at rest are well-typed.
LEMMA RestType == NoRow \in Row /\ Rest \in Check
<1>1. NoRow \in Row
  BY CapacityAssumption DEF NoRow, Row, Time, Never
<1>2. 0 \in 0..Thresholds /\ 1 \in 1..(Thresholds + 1)
  BY CapacityAssumption
<1>3. Rest \in Check
  BY <1>1, <1>2 DEF Rest, Check
<1> QED BY <1>1, <1>3

\* What a thread reads is a row.
LEMMA ViewType ==
    ASSUME TypeOK, NEW c \in Checkers, NEW t \in T
    PROVE  View(c, t) \in Row
BY DEF View, TypeOK, Check

\* Writing a row keeps the thread well-typed and where it was.
LEMMA WrittenType ==
    ASSUME TypeOK, NEW c \in Checkers, NEW t \in T, NEW row \in Row
    PROVE  /\ Written(c, t, row) \in Check
           /\ Written(c, t, row).at = check[c].at
           /\ Written(c, t, row).level = check[c].level
           /\ Written(c, t, row).phase = check[c].phase
           /\ Written(c, t, row).dirty = check[c].dirty \cup {t}
           /\ Written(c, t, row).rows = [check[c].rows EXCEPT ![t] = row]
<1>1. check[c] \in Check
  BY DEF TypeOK
<1>2. check[c].dirty \cup {t} \in SUBSET T
  BY <1>1 DEF Check
<1>3. [check[c].rows EXCEPT ![t] = row] \in [T -> Row]
  BY <1>1 DEF Check
<1> QED BY <1>1, <1>2, <1>3 DEF Written, Check

\* The same, of the entry by name.
LEMMA WrittenEntry ==
    ASSUME TypeOK, NEW c \in Checkers, NEW t \in T, NEW row \in Row,
           NEW w, w = Written(c, t, row)
    PROVE  /\ w \in Check /\ w.at = check[c].at /\ w.level = check[c].level
           /\ w.dirty = check[c].dirty \cup {t}
<1>1. w \in Check
  BY WrittenType
<1>2. w.at = check[c].at
  BY WrittenType
<1>3. w.level = check[c].level
  BY WrittenType
<1>4. w.dirty = check[c].dirty \cup {t}
  BY WrittenType
<1> QED BY <1>1, <1>2, <1>3, <1>4

\* Moving on to the next threshold keeps a thread well-typed, with its writes.
LEMMA OnwardsType ==
    ASSUME NEW k \in Check, k.at \in T
    PROVE  /\ Onwards(k) \in Check
           /\ Onwards(k).phase = "loop" /\ Onwards(k).at = k.at + 1
           /\ Onwards(k).level = k.level
           /\ Onwards(k).dirty = k.dirty /\ Onwards(k).rows = k.rows
<1>1. k.at + 1 \in 1..(Thresholds + 1)
  BY CapacityAssumption DEF T
<1> QED BY <1>1, RestType DEF Onwards, Check

\* The upsert of a row is a row.
LEMMA UpsertedType ==
    ASSUME TypeOK, NEW row \in Row
    PROVE  Upserted(row) \in Row
BY RestType DEF TypeOK, Upserted, Row, NoRow

\* A thread between reading and recording is at the threshold it found active.
AtActive ==
    \A c \in Checkers : check[c].phase \in {"upsert", "post", "mark"}
                           => check[c].at \in T /\ check[c].at = check[c].level

\* The step of one thread that yields a well-typed entry keeps the others'.
LEMMA OneThread ==
    ASSUME TypeOK, AtActive, NEW c \in Checkers, NEW k \in Check,
           check' = [check EXCEPT ![c] = k],
           k.phase \in {"upsert", "post", "mark"} => k.at \in T /\ k.at = k.level
    PROVE  check' \in [Checkers -> Check] /\ AtActive'
BY DEF TypeOK, AtActive

\* Types and positions are preserved by every step.
LEMMA TypeStep ==
    ASSUME TypeOK, AtActive, [Next]_vars
    PROVE  (TypeOK /\ AtActive)'
<1>1. ASSUME NEW c \in Checkers, Begin(c)
      PROVE  (TypeOK /\ AtActive)'
  <2> DEFINE k == [Rest EXCEPT !.phase = "loop", !.level = level]
  <2>1. k \in Check /\ k.phase = "loop"
    BY RestType DEF Check, TypeOK
  <2>2. check' = [check EXCEPT ![c] = k]
    BY <1>1 DEF Begin
  <2> HIDE DEF k
  <2>3. check' \in [Checkers -> Check] /\ AtActive'
    BY <2>1, <2>2, OneThread
  <2> QED BY <1>1, <2>3 DEF Begin, TypeOK
<1>2. ASSUME NEW c \in Checkers, ResolveAlert(c)
      PROVE  (TypeOK /\ AtActive)'
  <2> DEFINE t == check[c].at
             row == [View(c, t) EXCEPT !.resolved = TRUE]
             k == IF Open(View(c, t)) THEN Written(c, t, row) ELSE check[c]
  <2>1. t \in T
    BY <1>2 DEF ResolveAlert
  <2>2. row \in Row
    BY <2>1, ViewType DEF Row
  <2>3. k \in Check /\ k.at = t
    BY <2>1, <2>2, WrittenType DEF TypeOK
  <2>4. check' = [check EXCEPT ![c] = Onwards(k)]
    BY <1>2 DEF ResolveAlert
  <2> HIDE DEF k
  <2>5. Onwards(k) \in Check /\ Onwards(k).phase = "loop"
    BY <2>1, <2>3, OnwardsType
  <2>6. check' \in [Checkers -> Check] /\ AtActive'
    BY <2>4, <2>5, OneThread
  <2> QED BY <1>2, <2>6 DEF ResolveAlert, TypeOK
<1>3. ASSUME NEW c \in Checkers, ReadExisting(c)
      PROVE  (TypeOK /\ AtActive)'
  <2>1. check[c].at \in T /\ check[c].at = check[c].level
    BY <1>3 DEF ReadExisting
  <2> DEFINE k == [check[c] EXCEPT !.phase = "upsert", !.existing = View(c, check[c].at)]
  <2>2. k \in Check /\ k.at = check[c].at /\ k.level = check[c].level
    BY <2>1, ViewType DEF TypeOK, Check
  <2>3. check' = [check EXCEPT ![c] = k]
    BY <1>3 DEF ReadExisting, TypeOK
  <2> HIDE DEF k
  <2>4. check' \in [Checkers -> Check] /\ AtActive'
    BY <2>1, <2>2, <2>3, OneThread
  <2> QED BY <1>3, <2>4 DEF ReadExisting, TypeOK
<1>4. ASSUME NEW c \in Checkers, UpsertAlert(c)
      PROVE  (TypeOK /\ AtActive)'
  <2> DEFINE t == check[c].at
             w == Written(c, t, Upserted(View(c, t)))
             k == IF ShouldNotify(check[c].existing)
                  THEN [w EXCEPT !.phase = "post"] ELSE Onwards(w)
  <2>1. t \in T /\ t = check[c].level
    BY <1>4 DEF UpsertAlert, AtActive
  <2>2. w \in Check /\ w.at = t /\ w.level = t
    BY <2>1, ViewType, UpsertedType, WrittenType
  <2>3. check' = [check EXCEPT ![c] = k]
    BY <1>4 DEF UpsertAlert
  <2> HIDE DEF w
  <2>4. [w EXCEPT !.phase = "post"] \in Check
    BY <2>2 DEF Check
  <2>5. [w EXCEPT !.phase = "post"].at = t /\ [w EXCEPT !.phase = "post"].level = t
    BY <2>2 DEF Check
  <2>6. Onwards(w) \in Check /\ Onwards(w).phase = "loop"
    BY <2>1, <2>2, OnwardsType
  <2>7. k \in Check /\ (k.phase = "loop" \/ (k.at = t /\ k.level = t))
    BY <2>4, <2>5, <2>6
  <2> HIDE DEF k
  <2>8. check' \in [Checkers -> Check] /\ AtActive'
    BY <2>1, <2>3, <2>7, OneThread
  <2> QED BY <1>4, <2>8 DEF UpsertAlert, TypeOK
<1>5. ASSUME NEW t \in T, NEW b \in BOOLEAN
      PROVE  Took(t, b) \in [T -> Post]
  BY DEF Took, TypeOK, Post
<1>6. ASSUME NEW c \in Checkers, TeamsOk(c)
      PROVE  (TypeOK /\ AtActive)'
  <2> DEFINE k == [check[c] EXCEPT !.phase = "mark", !.posted = TRUE]
  <2>1. check[c].at \in T /\ check[c].at = check[c].level
    BY <1>6 DEF TeamsOk, AtActive
  <2>2. k \in Check /\ k.at = check[c].at /\ k.level = check[c].level
    BY DEF TypeOK, Check
  <2>3. check' = [check EXCEPT ![c] = k]
    BY <1>6 DEF TeamsOk, TypeOK
  <2> HIDE DEF k
  <2>4. check' \in [Checkers -> Check] /\ AtActive'
    BY <2>1, <2>2, <2>3, OneThread
  <2> QED BY <1>5, <1>6, <2>1, <2>4 DEF TeamsOk, TypeOK
<1>7. ASSUME NEW c \in Checkers, TeamsUnacked(c) \/ TeamsRefused(c)
      PROVE  (TypeOK /\ AtActive)'
  <2>1. check[c].at \in T /\ check[c] \in Check
    BY <1>7 DEF TeamsUnacked, TeamsRefused, AtActive, TypeOK
  <2>2. check' = [check EXCEPT ![c] = Onwards(check[c])]
    BY <1>7 DEF TeamsUnacked, TeamsRefused
  <2>3. check' \in [Checkers -> Check] /\ AtActive'
    BY <2>1, <2>2, OnwardsType, OneThread
  <2> QED BY <1>5, <1>7, <2>1, <2>3 DEF TeamsUnacked, TeamsRefused, TypeOK
<1>8. ASSUME NEW c \in Checkers, MarkNotified(c)
      PROVE  (TypeOK /\ AtActive)'
  <2> DEFINE t == check[c].at
             row == [View(c, t) EXCEPT !.teams_notified = now]
  <2>1. t \in T
    BY <1>8 DEF MarkNotified, AtActive
  <2>2. row \in Row
    <3>1. View(c, t) \in Row /\ now \in Time
      BY <2>1, ViewType DEF TypeOK
    <3> QED BY <3>1 DEF Row
  <2>3. Written(c, t, row) \in Check /\ Written(c, t, row).at = t
    BY <2>1, <2>2, WrittenType
  <2>4. check' = [check EXCEPT ![c] = Onwards(Written(c, t, row))]
    BY <1>8 DEF MarkNotified
  <2>5. check' \in [Checkers -> Check] /\ AtActive'
    BY <2>1, <2>3, <2>4, OnwardsType, OneThread
  <2> QED BY <1>8, <2>5 DEF MarkNotified, TypeOK
<1>9. ASSUME NEW c \in Checkers, Commit(c) \/ Abort(c)
      PROVE  (TypeOK /\ AtActive)'
  <2>1. check' \in [Checkers -> Check] /\ AtActive'
    BY <1>9, RestType, OneThread DEF Commit, Abort, Rest
  <2>2. messages' \in [T -> Row]
    BY <1>9, ViewType DEF Commit, Abort, TypeOK
  <2>3. posts' \in [T -> Post]
    <3>1. CASE Commit(c)
      <4>1. \A t \in T : View(c, t).resolved \in BOOLEAN
        BY ViewType DEF Row
      <4>2. posts' = [t \in T |-> [posts[t] EXCEPT
                    !.closed = @ \/ (Open(messages[t]) /\ View(c, t).resolved)]]
        BY <3>1 DEF Commit
      <4> QED BY <4>2 DEF TypeOK, Post
    <3>2. CASE Abort(c)
      BY <3>2 DEF Abort, TypeOK, Post
    <3> QED BY <1>9, <3>1, <3>2
  <2> QED BY <1>9, <2>1, <2>2, <2>3 DEF Commit, Abort, TypeOK
<1>10. CASE VendorPoll
  <2>1. messages' \in [T -> Row]
    <3>1. messages' = [t \in T |-> IF Open(messages[t])
                                   THEN [messages[t] EXCEPT !.resolved = TRUE]
                                   ELSE messages[t]]
      BY <1>10 DEF VendorPoll
    <3>2. messages \in [T -> Row]
      BY DEF TypeOK
    <3> QED BY <3>1, <3>2 DEF Row
  <2>2. posts' \in [T -> Post]
    <3>1. \A t \in T : Open(messages[t]) \in BOOLEAN
      BY DEF Open, TypeOK, Row
    <3>2. posts' = [t \in T |-> [posts[t] EXCEPT !.closed = @ \/ Open(messages[t])]]
      BY <1>10 DEF VendorPoll
    <3>3. posts \in [T -> Post]
      BY DEF TypeOK
    <3> QED BY <3>1, <3>2, <3>3 DEF Post
  <2> QED BY <1>10, <2>1, <2>2 DEF VendorPoll, TypeOK, AtActive
<1>11. CASE AlertCleanup
  BY <1>11, RestType DEF AlertCleanup, TypeOK, AtActive
<1>12. CASE Measure
  BY <1>12 DEF Measure, TypeOK, AtActive, Post
<1>13. CASE Tick \/ UNCHANGED vars
  BY <1>13, CapacityAssumption DEF Tick, vars, TypeOK, AtActive, Time
<1> QED BY <1>1, <1>2, <1>3, <1>4, <1>6, <1>7, <1>8, <1>9, <1>10, <1>11, <1>12, <1>13
        DEF Next, CheckStep

(***************************************************************************)
(* However many checkers: no more thresholds are open than there are       *)
(* checkers.  Every open row has an opener, the checker that committed it  *)
(* as its active threshold; a checker that commits again has closed, or    *)
(* lost to another opener, every row but the one it leaves open.           *)
(***************************************************************************)

\* A row is written by one transaction at a time.
Locks == \A c, d \in Checkers : c # d => check[c].dirty \cap check[d].dirty = {}

\* Teams is told of rows the transaction has written.
PostedDirty ==
    \A c \in Checkers : check[c].phase \in {"post", "mark"} => check[c].at \in check[c].dirty

\* No checker is the opener of two open rows.
Distinct(f) ==
    \A s, t \in T : Open(messages[s]) /\ Open(messages[t]) /\ f[s] = f[t] => s = t

\* A threshold that c has walked past, the active one apart, is closed in what it sees,
\* unless another checker has opened it behind its back.
Passed(c, f) ==
    check[c].phase # "idle" =>
        \A t \in T : t < check[c].at /\ t # check[c].level /\ Open(View(c, t))
                        => f[t] # c /\ t \notin check[c].dirty

Owned(f) == Distinct(f) /\ \A c \in Checkers : Passed(c, f)

OwnersInv ==
    TypeOK /\ AtActive /\ Locks /\ PostedDirty /\ \E f \in [T -> Checkers] : Owned(f)

\* A step of c that leaves the rows alone leaves the other checkers' promises alone.
LEMMA OthersPassed ==
    ASSUME TypeOK, NEW c \in Checkers, NEW f, Owned(f), messages' = messages,
           NEW k, check' = [check EXCEPT ![c] = k], Passed(c, f)'
    PROVE  Owned(f)'
<1>1. ASSUME NEW d \in Checkers \ {c} PROVE Passed(d, f)'
  <2>1. check'[d] = check[d]
    BY DEF TypeOK
  <2> QED BY <2>1 DEF Owned, Passed, View
<1> QED BY <1>1 DEF Owned, Distinct

\* A thread that writes at most the row at its position t, leaves it closed unless t is
\* active, and moves at most past t, keeps Passed.
LEMMA WalkOn ==
    ASSUME TypeOK, NEW c \in Checkers, NEW f, Passed(c, f), check[c].phase # "idle",
           NEW t \in T, t = check[c].at, messages' = messages,
           check'[c].level = check[c].level,
           check'[c].at \in {t, t + 1},
           check'[c].dirty \subseteq check[c].dirty \cup {t},
           \A s \in T \ {t} : View(c, s)' = View(c, s),
           t # check[c].level => ~Open(View(c, t)')
    PROVE  Passed(c, f)'
<1> SUFFICES ASSUME NEW s \in T, s < check'[c].at, s # check'[c].level, Open(View(c, s)')
             PROVE  f[s] # c /\ s \notin check'[c].dirty
  BY DEF Passed, Open
<1>1. CASE s = t
  BY <1>1
<1>2. CASE s # t
  <2>1. s < t
    BY <1>2, CapacityAssumption DEF T
  <2> QED BY <1>2, <2>1 DEF Passed
<1> QED BY <1>1, <1>2

\* The locks of a thread that writes at most a row no other has written.
LEMMA LocksKept ==
    ASSUME TypeOK, Locks, NEW c \in Checkers, NEW k, check' = [check EXCEPT ![c] = k],
           NEW t, \A d \in Checkers \ {c} : t \notin check[d].dirty,
           k.dirty \subseteq check[c].dirty \cup {t}
    PROVE  Locks'
<1> SUFFICES ASSUME NEW a \in Checkers, NEW b \in Checkers, a # b
             PROVE  check'[a].dirty \cap check'[b].dirty = {}
  BY DEF Locks
<1>1. check'[c] = k /\ \A d \in Checkers \ {c} : check'[d] = check[d]
  BY DEF TypeOK
<1>2. check[a].dirty \cap check[b].dirty = {}
  BY DEF Locks
<1>3. CASE a = c
  BY <1>1, <1>2, <1>3
<1>4. CASE b = c
  BY <1>1, <1>2, <1>4
<1> QED BY <1>1, <1>2, <1>3, <1>4

\* What a thread sees after writing row at threshold t.
LEMMA ViewWritten ==
    ASSUME TypeOK, NEW c \in Checkers, NEW t \in T, NEW row \in Row, messages' = messages,
           check'[c].dirty = Written(c, t, row).dirty,
           check'[c].rows = Written(c, t, row).rows
    PROVE  View(c, t)' = row /\ \A s \in T \ {t} : View(c, s)' = View(c, s)
<1>1. check[c] \in Check
  BY DEF TypeOK
<1>2. /\ check'[c].dirty = check[c].dirty \cup {t}
      /\ check'[c].rows = [check[c].rows EXCEPT ![t] = row]
  BY WrittenType
<1> QED BY <1>1, <1>2 DEF View, Check

\* What it sees when it writes nothing.
LEMMA ViewSame ==
    ASSUME NEW c \in Checkers, messages' = messages,
           check'[c].dirty = check[c].dirty, check'[c].rows = check[c].rows
    PROVE  \A s \in T : View(c, s)' = View(c, s)
BY DEF View

\* Locks, PostedDirty and Owned, of one opener function.
Holds(f) == Locks /\ PostedDirty /\ Owned(f)

\* A thread that goes on from threshold t with entry k, its transaction still open.
LEMMA StepOn ==
    ASSUME TypeOK, AtActive, NEW f, Holds(f), NEW c \in Checkers,
           NEW t \in T, t = check[c].at, check[c].phase # "idle", messages' = messages,
           NEW k, check' = [check EXCEPT ![c] = k],
           k.level = check[c].level, k.at \in {t, t + 1},
           k.dirty \subseteq check[c].dirty \cup {t},
           \A d \in Checkers \ {c} : t \notin check[d].dirty,
           k.phase \in {"post", "mark"} => k.at \in k.dirty,
           \A s \in T \ {t} : View(c, s)' = View(c, s),
           t # check[c].level => ~Open(View(c, t)')
    PROVE  Holds(f)'
<1>1. check'[c] = k /\ \A d \in Checkers \ {c} : check'[d] = check[d]
  BY DEF TypeOK
<1>2. Locks'
  BY LocksKept DEF Holds
<1>3. PostedDirty'
  BY <1>1 DEF Holds, PostedDirty
<1>4. Passed(c, f)
  BY DEF Holds, Owned
<1>5. Passed(c, f)'
  BY <1>1, <1>4, WalkOn
<1>6. Owned(f)'
  BY <1>5, OthersPassed DEF Holds
<1> QED BY <1>2, <1>3, <1>6 DEF Holds

\* A thread that is at rest, or at the start of a check, has written and passed nothing.
LEMMA StepRest ==
    ASSUME TypeOK, NEW f, Holds(f), NEW c \in Checkers, messages' = messages,
           NEW k, check' = [check EXCEPT ![c] = k],
           k.at = 1, k.dirty = {}, k.phase \in {"idle", "loop"}
    PROVE  Holds(f)'
<1>1. check'[c] = k /\ \A d \in Checkers \ {c} : check'[d] = check[d]
  BY DEF TypeOK
<1>2. Locks'
  BY <1>1 DEF Holds, Locks
<1>3. PostedDirty'
  BY <1>1 DEF Holds, PostedDirty
<1>4. Passed(c, f)'
  BY <1>1, CapacityAssumption DEF Passed, T
<1>5. Owned(f)'
  BY <1>4, OthersPassed DEF Holds
<1> QED BY <1>2, <1>3, <1>5 DEF Holds

\* The opener function after c commits: c is the opener of its active threshold.
Opener(f, c) == [t \in T |-> IF t = check[c].level THEN c ELSE f[t]]

\* A commit: what the other checkers opened meanwhile stays theirs.
LEMMA CommitOwned ==
    ASSUME TypeOK, NEW f \in [T -> Checkers], Holds(f), NEW c \in Checkers, Commit(c)
    PROVE  \E g \in [T -> Checkers] : Holds(g)' /\ \A t \in T : g[t] \in {f[t], c}
<1>1. PICK g \in [T -> Checkers] :
        \A t \in T : g[t] = IF t = check[c].level THEN c ELSE f[t]
  <2>1. Opener(f, c) \in [T -> Checkers]
    BY DEF Opener
  <2> QED BY <2>1 DEF Opener
<1>2. /\ check'[c] = Rest /\ \A d \in Checkers \ {c} : check'[d] = check[d]
      /\ \A t \in T : messages'[t] = View(c, t)
  BY DEF Commit, TypeOK
<1>3. Rest.dirty = {} /\ Rest.phase = "idle"
  BY DEF Rest
<1>4. \A t \in T : t < check[c].at
  <2>1. check[c].at \in 1..(Thresholds + 1) /\ check[c].at \notin 1..Thresholds
    BY DEF Commit, TypeOK, Check, T
  <2>2. check[c].at = Thresholds + 1
    BY <2>1, CapacityAssumption
  <2> QED BY <2>2, CapacityAssumption DEF T
<1>5. \A t \in T \ {check[c].level} : Open(View(c, t))
                                        => f[t] # c /\ t \notin check[c].dirty
  BY <1>4 DEF Commit, Holds, Owned, Passed
<1>6. \A t \in T \ {check[c].level} : Open(View(c, t))
                => g[t] = f[t] /\ g[t] # c /\ View(c, t) = messages[t]
  BY <1>1, <1>5 DEF View
<1>7. Distinct(g)'
  <2> SUFFICES ASSUME NEW s \in T, NEW t \in T, Open(messages'[s]), Open(messages'[t]),
                      g[s] = g[t]
               PROVE  s = t
    BY DEF Distinct, Open
  <2>1. Open(View(c, s)) /\ Open(View(c, t))
    BY <1>2
  <2>2. CASE s = check[c].level
    BY <1>1, <1>6, <2>1, <2>2
  <2>3. CASE t = check[c].level
    BY <1>1, <1>6, <2>1, <2>3
  <2>4. CASE s # check[c].level /\ t # check[c].level
    <3>1. Open(messages[s]) /\ Open(messages[t]) /\ f[s] = f[t]
      BY <1>6, <2>1, <2>4
    <3> QED BY <3>1 DEF Holds, Owned, Distinct
  <2> QED BY <2>2, <2>3, <2>4
<1>8. ASSUME NEW d \in Checkers \ {c} PROVE Passed(d, g)'
  <2> SUFFICES ASSUME check[d].phase # "idle", NEW t \in T, t < check[d].at,
                      t # check[d].level, Open(View(d, t)')
               PROVE  g[t] # d /\ t \notin check[d].dirty
    BY <1>2 DEF Passed, Open
  <2>1. Passed(d, f)
    BY DEF Holds, Owned
  <2>2. CASE t \in check[d].dirty
    <3>1. View(d, t)' = View(d, t)
      BY <1>2, <2>2 DEF View
    <3> QED BY <2>1, <2>2, <3>1 DEF Passed
  <2>3. CASE t \notin check[d].dirty
    <3>1. View(d, t)' = View(c, t) /\ View(d, t) = messages[t]
      BY <1>2, <2>3 DEF View
    <3>2. CASE t = check[c].level
      BY <1>1, <2>3, <3>2
    <3>3. CASE t # check[c].level
      <4>1. g[t] = f[t] /\ View(d, t) = View(c, t)
        BY <1>6, <3>1, <3>3
      <4> QED BY <2>1, <2>3, <3>1, <4>1 DEF Passed
    <3> QED BY <3>2, <3>3
  <2> QED BY <2>2, <2>3
<1>9. Passed(c, g)'
  BY <1>2, <1>3 DEF Passed
<1>10. Owned(g)'
  BY <1>7, <1>8, <1>9 DEF Owned
<1>11. Locks' /\ PostedDirty'
  BY <1>2, <1>3 DEF Holds, Locks, PostedDirty
<1> QED BY <1>1, <1>10, <1>11 DEF Holds

\* The poll and the purge find no row locked, and open none.
LEMMA OtherWriters ==
    ASSUME TypeOK, NEW f, Holds(f), VendorPoll \/ AlertCleanup
    PROVE  Holds(f)'
<1>1. check' = check /\ \A c \in Checkers : check[c].dirty = {}
  BY DEF VendorPoll, AlertCleanup, Unlocked
<1>2. \A t \in T : Open(messages'[t]) => Open(messages[t])
  BY DEF VendorPoll, AlertCleanup, Open, NoRow, TypeOK, Row
<1>3. \A c \in Checkers : \A t \in T :
        View(c, t) = messages[t] /\ View(c, t)' = messages'[t]
  BY <1>1 DEF View
<1>4. Distinct(f)'
  BY <1>2 DEF Holds, Owned, Distinct
<1>5. ASSUME NEW c \in Checkers PROVE Passed(c, f)'
  BY <1>1, <1>2, <1>3 DEF Holds, Owned, Passed
<1> QED BY <1>1, <1>4, <1>5 DEF Holds, Locks, PostedDirty, Owned

\* No other step makes a checker the opener of anything.
LEMMA OwnersKept ==
    ASSUME TypeOK, AtActive, NEW f, Holds(f), [Next]_vars,
           ~\E c \in Checkers : Commit(c)
    PROVE  Holds(f)'
<1>1. ASSUME NEW c \in Checkers, Begin(c) \/ Abort(c) PROVE Holds(f)'
  <2>1. CASE Begin(c)
    <3>1. PICK k : k = [Rest EXCEPT !.phase = "loop", !.level = level]
      OBVIOUS
    <3>2. k.at = 1 /\ k.dirty = {} /\ k.phase = "loop"
      BY <3>1 DEF Rest
    <3>3. check' = [check EXCEPT ![c] = k] /\ messages' = messages
      BY <2>1, <3>1 DEF Begin
    <3> QED BY <3>2, <3>3, StepRest
  <2>2. CASE Abort(c)
    <3>1. check' = [check EXCEPT ![c] = Rest] /\ messages' = messages
      BY <2>2 DEF Abort
    <3>2. Rest.at = 1 /\ Rest.dirty = {} /\ Rest.phase = "idle"
      BY DEF Rest
    <3> QED BY <3>1, <3>2, StepRest
  <2> QED BY <1>1, <2>1, <2>2
<1>2. ASSUME NEW c \in Checkers, ResolveAlert(c) PROVE Holds(f)'
  <2> check[c] \in Check
    BY DEF TypeOK
  <2>1. PICK t \in T : t = check[c].at /\ t # check[c].level
    BY <1>2 DEF ResolveAlert
  <2>2. /\ messages' = messages /\ check[c].phase # "idle"
        /\ \A d \in Checkers \ {c} : t \notin check[d].dirty
    BY <1>2, <2>1 DEF ResolveAlert, Free
  <2>3. CASE Open(View(c, t))
    <3>1. PICK row : row = [View(c, t) EXCEPT !.resolved = TRUE]
      OBVIOUS
    <3>2. row \in Row /\ ~Open(row)
      BY <3>1, ViewType DEF Row, Open
    <3>3. PICK w : w = Written(c, t, row)
      OBVIOUS
    <3>4. /\ w \in Check /\ w.at = t /\ w.level = check[c].level
          /\ w.dirty = check[c].dirty \cup {t}
      BY <2>1, <3>2, <3>3, WrittenEntry
    <3>5. check' = [check EXCEPT ![c] = Onwards(w)]
      BY <1>2, <2>1, <2>3, <3>1, <3>3 DEF ResolveAlert
    <3>6. PICK k : k = Onwards(w)
      OBVIOUS
    <3>7. /\ k.phase = "loop" /\ k.at = t + 1 /\ k.level = check[c].level
          /\ k.dirty = w.dirty /\ k.rows = w.rows
      BY <3>4, <3>6, OnwardsType
    <3>8. check' = [check EXCEPT ![c] = k] /\ check'[c] = k
      BY <3>5, <3>6 DEF TypeOK
    <3>9. View(c, t)' = row /\ \A s \in T \ {t} : View(c, s)' = View(c, s)
      BY <2>2, <3>2, <3>3, <3>7, <3>8, ViewWritten
    <3>10. ~Open(View(c, t)')
      BY <3>2, <3>9
    <3> QED BY <2>1, <2>2, <3>4, <3>7, <3>8, <3>9, <3>10, StepOn
  <2>4. CASE ~Open(View(c, t))
    <3>1. check' = [check EXCEPT ![c] = Onwards(check[c])]
      BY <1>2, <2>1, <2>4 DEF ResolveAlert
    <3>2. PICK k : k = Onwards(check[c])
      OBVIOUS
    <3>3. /\ k.phase = "loop" /\ k.at = t + 1 /\ k.level = check[c].level
          /\ k.dirty = check[c].dirty /\ k.rows = check[c].rows
      BY <2>1, <3>2, OnwardsType
    <3>4. check' = [check EXCEPT ![c] = k] /\ check'[c] = k
      BY <3>1, <3>2 DEF TypeOK
    <3>5. \A s \in T : View(c, s)' = View(c, s)
      BY <2>2, <3>3, <3>4, ViewSame
    <3>6. ~Open(View(c, t)')
      BY <2>4, <3>5
    <3> QED BY <2>1, <2>2, <3>3, <3>4, <3>5, <3>6, StepOn
  <2> QED BY <2>3, <2>4
<1>3. ASSUME NEW c \in Checkers,
             ReadExisting(c) \/ TeamsOk(c) \/ TeamsUnacked(c) \/ TeamsRefused(c)
      PROVE  Holds(f)'
  <2> check[c] \in Check
    BY DEF TypeOK
  <2>1. PICK t \in T : t = check[c].at /\ t = check[c].level
    BY <1>3 DEF ReadExisting, TeamsOk, TeamsUnacked, TeamsRefused, AtActive
  <2>2. messages' = messages /\ check[c].phase # "idle"
    BY <1>3 DEF ReadExisting, TeamsOk, TeamsUnacked, TeamsRefused
  <2>3. \A d \in Checkers \ {c} : t \notin check[d].dirty
    <3>1. CASE ReadExisting(c)
      BY <2>1, <3>1 DEF ReadExisting, Free
    <3>2. CASE check[c].phase = "post"
      <4>1. t \in check[c].dirty
        BY <2>1, <3>2 DEF Holds, PostedDirty
      <4> QED BY <4>1 DEF Holds, Locks
    <3> QED BY <1>3, <3>1, <3>2 DEF TeamsOk, TeamsUnacked, TeamsRefused
  <2>4. \E k : /\ check' = [check EXCEPT ![c] = k] /\ check'[c] = k
               /\ k.at \in {t, t + 1} /\ k.level = check[c].level
               /\ k.dirty = check[c].dirty /\ k.rows = check[c].rows
               /\ k.phase \in {"post", "mark"} => k.at \in k.dirty
    <3>1. CASE ReadExisting(c)
      <4>1. PICK k : k = [check[c] EXCEPT !.phase = "upsert", !.existing = View(c, t)]
        OBVIOUS
      <4>2. check' = [check EXCEPT ![c] = k] /\ check'[c] = k
        BY <2>1, <3>1, <4>1 DEF ReadExisting, TypeOK
      <4>3. /\ k.at = t /\ k.level = check[c].level /\ k.phase = "upsert"
            /\ k.dirty = check[c].dirty /\ k.rows = check[c].rows
        BY <2>1, <4>1 DEF Check
      <4> QED BY <4>2, <4>3
    <3>2. CASE TeamsOk(c)
      <4>1. PICK k : k = [check[c] EXCEPT !.phase = "mark", !.posted = TRUE]
        OBVIOUS
      <4>2. check' = [check EXCEPT ![c] = k] /\ check'[c] = k
        BY <3>2, <4>1 DEF TeamsOk, TypeOK
      <4>3. /\ k.at = t /\ k.level = check[c].level
            /\ k.dirty = check[c].dirty /\ k.rows = check[c].rows
        BY <2>1, <4>1 DEF Check
      <4>4. t \in check[c].dirty
        BY <2>1, <3>2 DEF TeamsOk, Holds, PostedDirty
      <4> QED BY <4>2, <4>3, <4>4
    <3>3. CASE TeamsUnacked(c) \/ TeamsRefused(c)
      <4>1. check' = [check EXCEPT ![c] = Onwards(check[c])]
        BY <3>3 DEF TeamsUnacked, TeamsRefused
      <4>2. PICK k : k = Onwards(check[c])
        OBVIOUS
      <4>3. check' = [check EXCEPT ![c] = k] /\ check'[c] = k
        BY <4>1, <4>2 DEF TypeOK
      <4>4. /\ k.at = t + 1 /\ k.level = check[c].level /\ k.phase = "loop"
            /\ k.dirty = check[c].dirty /\ k.rows = check[c].rows
        BY <2>1, <4>2, OnwardsType
      <4> QED BY <4>3, <4>4
    <3> QED BY <1>3, <3>1, <3>2, <3>3
  <2>5. PICK k : /\ check' = [check EXCEPT ![c] = k] /\ check'[c] = k
                 /\ k.at \in {t, t + 1} /\ k.level = check[c].level
                 /\ k.dirty = check[c].dirty /\ k.rows = check[c].rows
                 /\ k.phase \in {"post", "mark"} => k.at \in k.dirty
    BY <2>4
  <2>6. \A s \in T : View(c, s)' = View(c, s)
    BY <2>2, <2>5, ViewSame
  <2> QED BY <2>1, <2>2, <2>3, <2>5, <2>6, StepOn
<1>4. ASSUME NEW c \in Checkers, NEW row \in Row, check[c].phase \in {"upsert", "mark"},
             messages' = messages,
             \A d \in Checkers \ {c} : check[c].at \notin check[d].dirty,
             NEW w, w = Written(c, check[c].at, row),
             \/ check' = [check EXCEPT ![c] = [w EXCEPT !.phase = "post"]]
             \/ check' = [check EXCEPT ![c] = Onwards(w)]
      PROVE  Holds(f)'
  <2>1. PICK t \in T : t = check[c].at /\ t = check[c].level
    BY <1>4 DEF AtActive
  <2>2. /\ w \in Check /\ w.at = t /\ w.level = check[c].level
        /\ w.dirty = check[c].dirty \cup {t}
    <3>1. w = Written(c, t, row)
      BY <1>4, <2>1
    <3>2. /\ w \in Check /\ w.at = check[c].at /\ w.level = check[c].level
          /\ w.dirty = check[c].dirty \cup {t}
      BY <3>1, WrittenEntry
    <3> QED BY <2>1, <3>2
  <2>3. \E k : /\ check' = [check EXCEPT ![c] = k] /\ check'[c] = k
               /\ k.at \in {t, t + 1} /\ k.level = check[c].level
               /\ k.dirty = w.dirty /\ k.rows = w.rows
               /\ k.phase \in {"post", "mark"} => k.at \in k.dirty
    <3>1. CASE check' = [check EXCEPT ![c] = [w EXCEPT !.phase = "post"]]
      <4>1. PICK k : k = [w EXCEPT !.phase = "post"]
        OBVIOUS
      <4>2. check' = [check EXCEPT ![c] = k] /\ check'[c] = k
        BY <3>1, <4>1 DEF TypeOK
      <4>3. k.at = t /\ k.level = check[c].level /\ k.dirty = w.dirty /\ k.rows = w.rows
        BY <2>2, <4>1 DEF Check
      <4> QED BY <2>2, <4>2, <4>3
    <3>2. CASE check' = [check EXCEPT ![c] = Onwards(w)]
      <4>1. PICK k : k = Onwards(w)
        OBVIOUS
      <4>2. check' = [check EXCEPT ![c] = k] /\ check'[c] = k
        BY <3>2, <4>1 DEF TypeOK
      <4>3. /\ k.at = t + 1 /\ k.level = check[c].level /\ k.phase = "loop"
            /\ k.dirty = w.dirty /\ k.rows = w.rows
        BY <2>2, <4>1, OnwardsType
      <4> QED BY <4>2, <4>3
    <3> QED BY <1>4, <3>1, <3>2
  <2>4. PICK k : /\ check' = [check EXCEPT ![c] = k] /\ check'[c] = k
                 /\ k.at \in {t, t + 1} /\ k.level = check[c].level
                 /\ k.dirty = w.dirty /\ k.rows = w.rows
                 /\ k.phase \in {"post", "mark"} => k.at \in k.dirty
    BY <2>3
  <2>5. \A s \in T \ {t} : View(c, s)' = View(c, s)
    BY <1>4, <2>1, <2>4, ViewWritten
  <2>6. /\ check[c].phase # "idle" /\ k.dirty \subseteq check[c].dirty \cup {t}
        /\ \A d \in Checkers \ {c} : t \notin check[d].dirty
    BY <1>4, <2>1, <2>2, <2>4
  <2> QED BY <1>4, <2>1, <2>4, <2>5, <2>6, StepOn
<1>5. ASSUME NEW c \in Checkers, UpsertAlert(c) PROVE Holds(f)'
  <2>1. check[c].at \in T
    BY <1>5 DEF UpsertAlert, AtActive
  <2>2. PICK row \in Row : row = Upserted(View(c, check[c].at))
    BY <2>1, ViewType, UpsertedType
  <2>3. PICK w : w = Written(c, check[c].at, row)
    OBVIOUS
  <2>4. \/ check' = [check EXCEPT ![c] = [w EXCEPT !.phase = "post"]]
        \/ check' = [check EXCEPT ![c] = Onwards(w)]
    BY <1>5, <2>2, <2>3 DEF UpsertAlert
  <2> QED BY <1>4, <1>5, <2>3, <2>4 DEF UpsertAlert, Free
<1>6. ASSUME NEW c \in Checkers, MarkNotified(c) PROVE Holds(f)'
  <2>1. check[c].at \in T
    BY <1>6 DEF MarkNotified, AtActive
  <2>2. View(c, check[c].at) \in Row /\ now \in Time
    BY <2>1, ViewType DEF TypeOK
  <2>3. PICK row \in Row : row = [View(c, check[c].at) EXCEPT !.teams_notified = now]
    BY <2>2 DEF Row
  <2>4. PICK w : w = Written(c, check[c].at, row)
    OBVIOUS
  <2>5. check' = [check EXCEPT ![c] = Onwards(w)]
    BY <1>6, <2>3, <2>4 DEF MarkNotified
  <2>6. \A d \in Checkers \ {c} : check[c].at \notin check[d].dirty
    BY <1>6 DEF MarkNotified, Holds, PostedDirty, Locks
  <2> QED BY <1>4, <1>6, <2>4, <2>5, <2>6 DEF MarkNotified
<1>7. CASE VendorPoll \/ AlertCleanup
  BY <1>7, OtherWriters
<1>8. CASE Measure \/ Tick \/ UNCHANGED vars
  BY <1>8 DEF Measure, Tick, vars, Holds, Locks, PostedDirty, Owned, Distinct, Passed, View
<1> QED BY <1>1, <1>2, <1>3, <1>5, <1>6, <1>7, <1>8 DEF Next, CheckStep

\* No step makes a checker the opener of two open thresholds.
LEMMA OwnersStep ==
    ASSUME TypeOK, AtActive, NEW f \in [T -> Checkers], Holds(f), [Next]_vars
    PROVE  \E g \in [T -> Checkers] : Holds(g)'
BY CommitOwned, OwnersKept

(***************************************************************************)
(* One check at a time: a message is repeated only for a reason.           *)
(***************************************************************************)

\* The last message of t needs no record: there was none, its record is lost, or the row
\* was closed since.
Excused(t) == posts[t].at = Never \/ posts[t].lost \/ posts[t].closed

\* The row remembers the last message of t.
Remembers(row, t) == Open(row) /\ row.teams_notified >= posts[t].at

\* The committed rows: only the message of a transaction under way may be unrecorded.
RowsRemember(c) == \A t \in T :
    Excused(t) \/ Remembers(messages[t], t) \/ (check[c].posted /\ t = check[c].level)

\* The rows as a check leaves them if it commits.
ViewRemembers(c) == check[c].phase # "idle" => \A t \in T :
    \/ Excused(t) \/ Remembers(View(c, t), t)
    \/ t # check[c].level /\ View(c, t).resolved
    \/ t = check[c].level /\ check[c].phase = "mark"

\* A check posts once, for the row it has reopened and locked, and never returns to it.
Posting(c) == LET k == check[c] IN
    /\ k.posted => k.phase \in {"mark", "loop"} /\ k.level \in k.dirty
    /\ k.posted /\ k.phase = "loop" => k.at > k.level
    /\ k.phase \in {"post", "mark"} => k.level \in k.dirty /\ Open(View(c, k.level))
    /\ k.phase = "upsert" => Excused(k.level) \/ Remembers(k.existing, k.level)
    /\ k.phase = "post" => Due(k.level) \/ posts[k.level].closed

PostsPast == \A t \in T : posts[t].at <= now

PostInv(c) == PostsPast /\ RowsRemember(c) /\ ViewRemembers(c) /\ Posting(c)

\* A check without writes sees the rows, and leaves them as they are.
LEMMA CleanView ==
    ASSUME NEW c, check'[c].dirty = {}, ~check'[c].posted, RowsRemember(c)'
    PROVE  ViewRemembers(c)'
<1>1. \A t \in T : View(c, t)' = messages'[t]
  BY DEF View
<1> QED BY <1>1 DEF RowsRemember, ViewRemembers, Excused, Remembers

\* A check whose locals are Rest's at the end of a step has no promise to keep.
LEMMA RestRemembers ==
    ASSUME NEW c, check'[c].phase \in {"idle", "loop"}, check'[c].dirty = {},
           ~check'[c].posted, RowsRemember(c)', PostsPast'
    PROVE  PostInv(c)'
BY CleanView DEF PostInv, Posting

\* The rows are remembered as before by a step that changes no row, message or flag.
LEMMA RowsSame ==
    ASSUME NEW c, PostInv(c), messages' = messages, posts' = posts, now' = now,
           check'[c].posted = check[c].posted, check'[c].level = check[c].level
    PROVE  RowsRemember(c)' /\ PostsPast'
BY DEF PostInv, PostsPast, RowsRemember, Excused, Remembers

\* A step of one checker, or of none, keeps the records of what Teams took.
LEMMA PostStep ==
    ASSUME NEW c \in Checkers, TypeOK, AtActive, PostInv(c),
           \/ CheckStep(c) \/ VendorPoll \/ AlertCleanup \/ Measure \/ Tick
           \/ UNCHANGED vars
    PROVE  PostInv(c)'
<1> /\ check[c] \in Check
    /\ PostsPast /\ RowsRemember(c) /\ ViewRemembers(c) /\ Posting(c)
  BY DEF TypeOK, PostInv
<1>1. CASE Begin(c)
  <2>1. /\ messages' = messages /\ posts' = posts /\ now' = now
        /\ check'[c].phase = "loop" /\ check'[c].dirty = {} /\ ~check'[c].posted
    BY <1>1 DEF Begin, TypeOK, Rest
  <2>2. ~check[c].posted
    BY <1>1 DEF Begin, Posting
  <2>3. RowsRemember(c)' /\ PostsPast'
    BY <2>1, <2>2 DEF RowsRemember, PostsPast, Excused, Remembers
  <2> QED BY <2>1, <2>3, RestRemembers
<1>2. CASE ResolveAlert(c)
  <2>1. PICK t \in T : t = check[c].at /\ t # check[c].level
    BY <1>2 DEF ResolveAlert
  <2>2. messages' = messages /\ posts' = posts /\ now' = now /\ check[c].phase = "loop"
    BY <1>2 DEF ResolveAlert
  <2>3. /\ check'[c].phase = "loop" /\ check'[c].at = t + 1
        /\ check'[c].level = check[c].level /\ check'[c].posted = check[c].posted
        /\ check[c].dirty \subseteq check'[c].dirty
        /\ \A s \in T \ {t} : View(c, s)' = View(c, s)
        /\ View(c, t)' = View(c, t) \/ View(c, t)'.resolved
    <3>1. CASE Open(View(c, t))
      <4>1. PICK row : row = [View(c, t) EXCEPT !.resolved = TRUE]
        OBVIOUS
      <4>2. row \in Row /\ row.resolved
        BY <4>1, ViewType DEF Row
      <4>3. PICK w : w = Written(c, t, row)
        OBVIOUS
      <4>4. check'[c] = Onwards(w)
        BY <1>2, <2>1, <3>1, <4>1, <4>3 DEF ResolveAlert, TypeOK
      <4>5. /\ w \in Check /\ w.at = t /\ w.level = check[c].level
            /\ w.dirty = check[c].dirty \cup {t}
        BY <2>1, <4>2, <4>3, WrittenEntry
      <4>6. w.posted = check[c].posted
        BY <4>3 DEF Written, Check
      <4>7. /\ check'[c].phase = "loop" /\ check'[c].at = t + 1
            /\ check'[c].level = check[c].level
            /\ check'[c].dirty = w.dirty /\ check'[c].rows = w.rows
        BY <4>4, <4>5, OnwardsType
      <4>8. check'[c].posted = check[c].posted
        BY <4>4, <4>5, <4>6 DEF Onwards, Check
      <4>9. View(c, t)' = row /\ \A s \in T \ {t} : View(c, s)' = View(c, s)
        BY <2>2, <4>2, <4>3, <4>7, ViewWritten
      <4> QED BY <4>2, <4>5, <4>7, <4>8, <4>9
    <3>2. CASE ~Open(View(c, t))
      <4>1. check'[c] = Onwards(check[c])
        BY <1>2, <2>1, <3>2 DEF ResolveAlert, TypeOK
      <4>2. /\ check'[c].phase = "loop" /\ check'[c].at = t + 1
            /\ check'[c].level = check[c].level
            /\ check'[c].dirty = check[c].dirty /\ check'[c].rows = check[c].rows
        BY <2>1, <4>1, OnwardsType
      <4>3. check'[c].posted = check[c].posted
        BY <4>1 DEF Onwards, Check
      <4>4. \A s \in T : View(c, s)' = View(c, s)
        BY <2>2, <4>2, ViewSame
      <4> QED BY <2>1, <4>2, <4>3, <4>4
    <3> QED BY <3>1, <3>2
  <2>4. RowsRemember(c)' /\ PostsPast'
    BY <2>2, <2>3, RowsSame
  <2>5. ViewRemembers(c)'
    <3> SUFFICES ASSUME NEW s \in T
                 PROVE  \/ Excused(s)' \/ Remembers(View(c, s), s)'
                        \/ s # check'[c].level /\ View(c, s)'.resolved
      BY DEF ViewRemembers
    <3>1. \/ Excused(s) \/ Remembers(View(c, s), s)
          \/ s # check[c].level /\ View(c, s).resolved
      BY <2>2 DEF ViewRemembers
    <3> QED BY <2>1, <2>2, <2>3, <3>1 DEF Excused, Remembers
  <2>6. check[c].posted => check'[c].at > check'[c].level
    <3>1. t \in Int /\ check[c].level \in Int
      BY CapacityAssumption DEF T, Check
    <3> QED BY <2>1, <2>2, <2>3, <3>1 DEF Posting
  <2>7. Posting(c)'
    BY <2>2, <2>3, <2>6 DEF Posting
  <2> QED BY <2>4, <2>5, <2>7 DEF PostInv
<1>3. CASE ReadExisting(c)
  <2>1. PICK t \in T : t = check[c].at /\ t = check[c].level
    BY <1>3 DEF ReadExisting
  <2>2. /\ messages' = messages /\ posts' = posts /\ now' = now /\ check[c].phase = "loop"
        /\ check'[c] = [check[c] EXCEPT !.phase = "upsert", !.existing = View(c, t)]
    BY <1>3, <2>1 DEF ReadExisting, TypeOK
  <2>3. ~check[c].posted
    <3>1. ~(t > t)
      BY CapacityAssumption DEF T
    <3> QED BY <2>1, <2>2, <3>1 DEF Posting
  <2>4. /\ check'[c].phase = "upsert" /\ check'[c].existing = View(c, t)
        /\ check'[c].level = t /\ check'[c].posted = check[c].posted
        /\ check'[c].dirty = check[c].dirty /\ check'[c].rows = check[c].rows
    BY <2>1, <2>2 DEF Check
  <2>5. \A s \in T : View(c, s)' = View(c, s)
    BY <2>2, <2>4, ViewSame
  <2>6. RowsRemember(c)' /\ PostsPast'
    BY <2>1, <2>2, <2>4, RowsSame
  <2>7. ViewRemembers(c)'
    BY <2>1, <2>2, <2>4, <2>5 DEF ViewRemembers, Excused, Remembers
  <2>8. Excused(t) \/ Remembers(View(c, t), t)
    BY <2>1, <2>2 DEF ViewRemembers
  <2>9. Posting(c)'
    BY <2>2, <2>3, <2>4, <2>8 DEF Posting, Excused, Remembers
  <2> QED BY <2>6, <2>7, <2>9 DEF PostInv
<1>4. CASE UpsertAlert(c)
  <2>1. PICK t \in T : t = check[c].at /\ t = check[c].level
    BY <1>4 DEF UpsertAlert, AtActive
  <2>2. PICK row \in Row : row = Upserted(View(c, t))
    BY <2>1, ViewType, UpsertedType
  <2>3. Open(row) /\ (Open(View(c, t)) => row.teams_notified = View(c, t).teams_notified)
    BY <2>1, <2>2, ViewType DEF Upserted, Open, NoRow, Row
  <2>4. PICK w : w = Written(c, t, row)
    OBVIOUS
  <2>5. /\ w \in Check /\ w.at = t /\ w.level = t
        /\ w.dirty = check[c].dirty \cup {t}
    BY <2>1, <2>4, WrittenType
  <2>6. w.posted = check[c].posted
    BY <2>4 DEF Written, Check
  <2>7. /\ messages' = messages /\ posts' = posts /\ now' = now /\ check[c].phase = "upsert"
        /\ check'[c] = IF ShouldNotify(check[c].existing)
                       THEN [w EXCEPT !.phase = "post"] ELSE Onwards(w)
    BY <1>4, <2>1, <2>2, <2>4 DEF UpsertAlert, TypeOK
  <2>8. /\ check'[c].phase = IF ShouldNotify(check[c].existing) THEN "post" ELSE "loop"
        /\ check'[c].level = t /\ check'[c].posted = check[c].posted
        /\ check'[c].dirty = w.dirty /\ check'[c].rows = w.rows
    <3>1. CASE ShouldNotify(check[c].existing)
      BY <2>5, <2>6, <2>7, <3>1 DEF Check
    <3>2. CASE ~ShouldNotify(check[c].existing)
      <4>1. check'[c] = Onwards(w)
        BY <2>7, <3>2
      <4>2. check'[c].posted = check[c].posted
        BY <2>5, <2>6, <4>1 DEF Onwards, Check
      <4> QED BY <2>5, <3>2, <4>1, <4>2, OnwardsType
    <3> QED BY <3>1, <3>2
  <2>9. View(c, t)' = row /\ \A s \in T \ {t} : View(c, s)' = View(c, s)
    BY <2>4, <2>7, <2>8, ViewWritten
  <2>10. RowsRemember(c)' /\ PostsPast'
    BY <2>1, <2>7, <2>8, RowsSame
  <2>11. ViewRemembers(c)'
    <3> SUFFICES ASSUME NEW s \in T
                 PROVE  \/ Excused(s)' \/ Remembers(View(c, s), s)'
                        \/ s # check'[c].level /\ View(c, s)'.resolved
      BY DEF ViewRemembers
    <3>1. \/ Excused(s) \/ Remembers(View(c, s), s)
          \/ s # check[c].level /\ View(c, s).resolved
      BY <2>7 DEF ViewRemembers
    <3> QED BY <2>1, <2>3, <2>7, <2>8, <2>9, <3>1 DEF Excused, Remembers
  <2>12. ShouldNotify(check[c].existing) => Due(t) \/ posts[t].closed
    <3> SUFFICES ASSUME ShouldNotify(check[c].existing), ~Excused(t)
                 PROVE  now - posts[t].at >= ResendDays
      BY DEF Due, Excused
    <3>1. check[c].existing.stored /\ check[c].existing.teams_notified >= posts[t].at
      BY <2>1, <2>7 DEF Posting, Remembers, Open
    <3>2. /\ posts[t].at \in Nat /\ check[c].existing.teams_notified \in Int
          /\ now \in Int /\ ResendDays \in Int
      BY CapacityAssumption DEF Excused, TypeOK, Post, Check, Row, Time, Never
    <3>3. now - check[c].existing.teams_notified >= ResendDays
      BY <3>1, <3>2 DEF ShouldNotify, Never
    <3> QED BY <3>1, <3>2, <3>3
  <2>13. Posting(c)'
    <3>1. ~check'[c].posted
      BY <2>7, <2>8 DEF Posting
    <3>2. ShouldNotify(check[c].existing) => (Due(t) \/ posts[t].closed)'
      BY <2>7, <2>12 DEF Due
    <3>3. check'[c].level \in check'[c].dirty /\ Open(View(c, check[c].level))'
      BY <2>1, <2>3, <2>5, <2>8, <2>9 DEF Open
    <3> QED BY <2>1, <2>8, <3>1, <3>2, <3>3 DEF Posting
  <2> QED BY <2>10, <2>11, <2>13 DEF PostInv
<1>5. CASE TeamsOk(c)
  <2>1. PICK t \in T : t = check[c].at /\ t = check[c].level
    BY <1>5 DEF TeamsOk, AtActive
  <2>2. /\ messages' = messages /\ now' = now /\ check[c].phase = "post"
        /\ posts' = Took(t, TRUE)
        /\ check'[c] = [check[c] EXCEPT !.phase = "mark", !.posted = TRUE]
    BY <1>5, <2>1 DEF TeamsOk, TypeOK
  <2>3. /\ check'[c].phase = "mark" /\ check'[c].level = t /\ check'[c].posted
        /\ check'[c].dirty = check[c].dirty /\ check'[c].rows = check[c].rows
    BY <2>1, <2>2 DEF Check
  <2>4. \A s \in T : View(c, s)' = View(c, s)
    BY <2>2, <2>3, ViewSame
  <2>5. posts'[t].at = now /\ \A s \in T \ {t} : posts'[s] = posts[s]
    BY <2>2 DEF Took, TypeOK
  <2>6. RowsRemember(c)'
    <3> SUFFICES ASSUME NEW s \in T, s # t
                 PROVE  Excused(s)' \/ Remembers(messages[s], s)'
      BY <2>3 DEF RowsRemember
    <3>1. Excused(s) \/ Remembers(messages[s], s)
      BY <2>1 DEF RowsRemember
    <3> QED BY <2>2, <2>5, <3>1 DEF Excused, Remembers
  <2>7. PostsPast'
    <3>1. now <= now
      BY CapacityAssumption DEF TypeOK, Time
    <3> QED BY <2>2, <2>5, <3>1 DEF PostsPast
  <2>8. ViewRemembers(c)'
    BY <2>1, <2>2, <2>3, <2>4, <2>5 DEF ViewRemembers, Excused, Remembers
  <2>9. Posting(c)'
    BY <2>1, <2>2, <2>3, <2>4 DEF Posting, Open
  <2> QED BY <2>6, <2>7, <2>8, <2>9 DEF PostInv
<1>6. CASE TeamsUnacked(c) \/ TeamsRefused(c)
  <2>1. PICK t \in T : t = check[c].at /\ t = check[c].level
    BY <1>6 DEF TeamsUnacked, TeamsRefused, AtActive
  <2>2. /\ messages' = messages /\ now' = now /\ check[c].phase = "post"
        /\ posts' = posts \/ posts' = Took(t, FALSE)
        /\ check'[c] = Onwards(check[c])
    BY <1>6, <2>1 DEF TeamsUnacked, TeamsRefused, TypeOK
  <2>3. /\ check'[c].phase = "loop" /\ check'[c].level = t
        /\ check'[c].dirty = check[c].dirty /\ check'[c].rows = check[c].rows
    BY <2>1, <2>2, OnwardsType
  <2>4. ~check'[c].posted /\ ~check[c].posted
    BY <2>2 DEF Onwards, Check, Posting
  <2>5. \A s \in T : View(c, s)' = View(c, s)
    BY <2>2, <2>3, ViewSame
  <2>6. /\ posts'[t] = posts[t] \/ (posts'[t].at = now /\ posts'[t].lost)
        /\ \A s \in T \ {t} : posts'[s] = posts[s]
    <3>1. CASE posts' = posts
      BY <3>1
    <3>2. CASE posts' = Took(t, FALSE)
      <4>1. posts' = [posts EXCEPT ![t] = [at |-> now, closed |-> FALSE, lost |-> ~FALSE]]
        BY <3>2 DEF Took
      <4> QED BY <4>1 DEF TypeOK
    <3> QED BY <2>2, <3>1, <3>2
  <2>7. RowsRemember(c)'
    BY <2>1, <2>2, <2>4, <2>6 DEF RowsRemember, Excused, Remembers
  <2>8. PostsPast'
    BY <2>2, <2>6, CapacityAssumption DEF PostsPast, TypeOK, Time
  <2>9. ViewRemembers(c)'
    BY <2>1, <2>2, <2>3, <2>5, <2>6 DEF ViewRemembers, Excused, Remembers
  <2>10. Posting(c)'
    BY <2>3, <2>4 DEF Posting
  <2> QED BY <2>7, <2>8, <2>9, <2>10 DEF PostInv
<1>7. CASE MarkNotified(c)
  <2>1. PICK t \in T : t = check[c].at /\ t = check[c].level
    BY <1>7 DEF MarkNotified, AtActive
  <2>2. PICK row : row = [View(c, t) EXCEPT !.teams_notified = now]
    OBVIOUS
  <2>3. /\ messages' = messages /\ posts' = posts /\ now' = now /\ check[c].phase = "mark"
        /\ check'[c] = Onwards(Written(c, t, row))
    BY <1>7, <2>1, <2>2 DEF MarkNotified, TypeOK
  <2>4. row \in Row /\ Open(row) /\ row.teams_notified = now
    <3>1. View(c, t) \in Row /\ now \in Time /\ Open(View(c, t))
      BY <2>1, <2>3, ViewType DEF TypeOK, Posting
    <3> QED BY <2>2, <3>1 DEF Row, Open
  <2>5. PICK w : w = Written(c, t, row)
    OBVIOUS
  <2>6. /\ w \in Check /\ w.at = t /\ w.level = t
        /\ w.dirty = check[c].dirty \cup {t}
    BY <2>1, <2>4, <2>5, WrittenType
  <2>7. w.posted = check[c].posted
    BY <2>5 DEF Written, Check
  <2>8. check'[c] = Onwards(w)
    BY <2>3, <2>5
  <2>9. /\ check'[c].phase = "loop" /\ check'[c].level = t /\ check'[c].at = t + 1
        /\ check'[c].dirty = w.dirty /\ check'[c].rows = w.rows
    BY <2>6, <2>8, OnwardsType
  <2>10. check'[c].posted = check[c].posted
    BY <2>6, <2>7, <2>8 DEF Onwards, Check
  <2>11. View(c, t)' = row /\ \A s \in T \ {t} : View(c, s)' = View(c, s)
    BY <2>3, <2>4, <2>5, <2>9, ViewWritten
  <2>12. RowsRemember(c)' /\ PostsPast'
    BY <2>1, <2>3, <2>9, <2>10, RowsSame
  <2>13. ViewRemembers(c)'
    <3> SUFFICES ASSUME NEW s \in T
                 PROVE  \/ Excused(s)' \/ Remembers(View(c, s), s)'
                        \/ s # check'[c].level /\ View(c, s)'.resolved
      BY DEF ViewRemembers
    <3>1. CASE s = t
      BY <2>3, <2>4, <2>11, <3>1 DEF Remembers, Open, PostsPast
    <3>2. CASE s # t
      BY <2>1, <2>3, <2>9, <2>11, <3>2 DEF ViewRemembers, Excused, Remembers
    <3> QED BY <3>1, <3>2
  <2>14. t + 1 > t
    BY CapacityAssumption DEF T
  <2>15. Posting(c)'
    BY <2>1, <2>6, <2>9, <2>14 DEF Posting
  <2> QED BY <2>12, <2>13, <2>15 DEF PostInv
<1>8. CASE Commit(c)
  <2>1. check'[c] = Rest /\ now' = now /\ check[c].phase = "loop"
    BY <1>8 DEF Commit, TypeOK
  <2>2. \A t \in T : messages'[t] = View(c, t)
    BY <1>8 DEF Commit
  <2>3. \A t \in T : /\ posts'[t].at = posts[t].at /\ posts'[t].lost = posts[t].lost
                     /\ posts'[t].closed =
                          (posts[t].closed \/ (Open(messages[t]) /\ View(c, t).resolved))
    BY <1>8 DEF Commit, TypeOK, Post
  <2>4. RowsRemember(c)'
    <3> SUFFICES ASSUME NEW t \in T
                 PROVE  Excused(t)' \/ Remembers(messages[t], t)'
      BY DEF RowsRemember
    <3>1. CASE Excused(t)
      BY <2>3, <3>1 DEF Excused
    <3>2. CASE Remembers(View(c, t), t)
      BY <2>2, <2>3, <3>2 DEF Remembers, Open
    <3>3. CASE ~Excused(t) /\ t # check[c].level /\ View(c, t).resolved
      <4>1. Open(messages[t])
        BY <3>3 DEF RowsRemember, Remembers
      <4> QED BY <2>3, <3>3, <4>1 DEF Excused
    <3> QED BY <2>1, <3>1, <3>2, <3>3 DEF ViewRemembers
  <2>5. PostsPast'
    BY <2>1, <2>3 DEF PostsPast
  <2> QED BY <2>1, <2>4, <2>5, RestRemembers DEF Rest
<1>9. CASE Abort(c)
  <2>1. check'[c] = Rest /\ now' = now /\ messages' = messages
    BY <1>9 DEF Abort, TypeOK
  <2>2. \A t \in T : /\ posts'[t].at = posts[t].at /\ posts'[t].closed = posts[t].closed
                     /\ posts[t].lost => posts'[t].lost
                     /\ check[c].posted /\ t = check[c].level => posts'[t].lost
    BY <1>9 DEF Abort, TypeOK, Post
  <2>3. RowsRemember(c)' /\ PostsPast'
    BY <2>1, <2>2 DEF RowsRemember, PostsPast, Excused, Remembers
  <2> QED BY <2>1, <2>3, RestRemembers DEF Rest
<1>10. CASE VendorPoll \/ AlertCleanup
  <2>1. check' = check /\ now' = now /\ check[c].dirty = {}
    BY <1>10 DEF VendorPoll, AlertCleanup, Unlocked
  <2>2. ~check[c].posted /\ check[c].phase \notin {"post", "mark"}
    BY <2>1 DEF Posting
  <2>3. \A t \in T : /\ posts'[t].at = posts[t].at /\ posts'[t].lost = posts[t].lost
                     /\ posts[t].closed => posts'[t].closed
                     /\ Open(messages[t]) => messages'[t] = messages[t] \/ posts'[t].closed
    <3>1. CASE VendorPoll
      BY <3>1 DEF VendorPoll, TypeOK, Post
    <3>2. CASE AlertCleanup
      BY <3>2 DEF AlertCleanup, Purgeable, Open
    <3> QED BY <1>10, <3>1, <3>2
  <2>4. RowsRemember(c)' /\ PostsPast'
    <3>1. \A t \in T : Excused(t) => Excused(t)'
      BY <2>3 DEF Excused
    <3>2. \A t \in T : Remembers(messages[t], t) => Excused(t)' \/ Remembers(messages[t], t)'
      BY <2>3 DEF Remembers, Excused
    <3> QED BY <2>1, <2>2, <2>3, <3>1, <3>2 DEF RowsRemember, PostsPast
  <2>5. ViewRemembers(c)'
    BY <2>1, <2>2, <2>4, CleanView
  <2>6. Posting(c)'
    <3>1. check[c].phase = "upsert" => check[c].level \in T
      BY DEF AtActive
    <3> QED BY <2>1, <2>2, <2>3, <3>1 DEF Posting, Excused, Remembers
  <2> QED BY <2>4, <2>5, <2>6 DEF PostInv
<1>11. CASE Measure \/ Tick \/ UNCHANGED vars
  <2>1. /\ check' = check /\ messages' = messages /\ posts' = posts
        /\ now \in Int /\ now' \in Int /\ now' >= now
    BY <1>11, CapacityAssumption DEF Measure, Tick, vars, TypeOK, Time
  <2>2. \A t \in T : posts[t].at \in Int
    BY CapacityAssumption DEF TypeOK, Post, Time, Never
  <2>3. \A t \in T : Due(t) => Due(t)'
    BY <2>1, <2>2, CapacityAssumption DEF Due
  <2>4. check[c].phase = "post" => check[c].level \in T
    BY DEF AtActive
  <2>5. Posting(c)'
    BY <2>1, <2>3, <2>4 DEF Posting, Excused, Remembers, View
  <2>6. PostsPast'
    BY <2>1, <2>2 DEF PostsPast
  <2> QED BY <2>1, <2>5, <2>6
          DEF PostInv, RowsRemember, ViewRemembers, Excused, Remembers, View
<1> QED BY <1>1, <1>2, <1>3, <1>4, <1>5, <1>6, <1>7, <1>8, <1>9, <1>10, <1>11
        DEF CheckStep

\* Types hold in every reachable state, however many checkers run.
THEOREM CapacityTypes == Spec => []TypeOK
<1>1. Init => TypeOK /\ AtActive
  <2> SUFFICES ASSUME Init PROVE TypeOK /\ AtActive
    OBVIOUS
  <2>1. 0 \in Time /\ 0 \in 0..Thresholds
    BY CapacityAssumption DEF Time
  <2> QED BY <2>1, RestType DEF Init, TypeOK, AtActive, Rest, Post, Never
<1>2. TypeOK /\ AtActive /\ [Next]_vars => (TypeOK /\ AtActive)'
  BY TypeStep
<1> QED BY <1>1, <1>2, PTL DEF Spec

\* Initially nothing is written and nothing open.
LEMMA OwnersInit ==
    ASSUME Init, Checkers # {}
    PROVE  OwnersInv
<1>1. 0 \in Time /\ 0 \in 0..Thresholds
  BY CapacityAssumption DEF Time
<1>2. TypeOK /\ AtActive
  BY <1>1, RestType DEF Init, TypeOK, AtActive, Rest, Post, Never
<1>3. \A c \in Checkers : check[c].phase = "idle" /\ check[c].dirty = {}
  BY DEF Init, Rest
<1>4. \A t \in T : ~Open(messages[t])
  BY DEF Init, NoRow, Open
<1>5. PICK c : c \in Checkers
  OBVIOUS
<1>6. [t \in T |-> c] \in [T -> Checkers]
  BY <1>5
<1>7. Owned([t \in T |-> c])
  BY <1>3, <1>4 DEF Owned, Distinct, Passed
<1> QED BY <1>2, <1>3, <1>6, <1>7 DEF OwnersInv, Locks, PostedDirty

\* The invariant of the openers is inductive.
LEMMA OwnersNext ==
    ASSUME OwnersInv, [Next]_vars
    PROVE  OwnersInv'
<1>1. (TypeOK /\ AtActive)'
  BY TypeStep DEF OwnersInv
<1>2. PICK f \in [T -> Checkers] : Holds(f)
  BY DEF OwnersInv, Holds
<1>3. \E g \in [T -> Checkers] : Holds(g)'
  BY <1>2, OwnersStep DEF OwnersInv
<1> QED BY <1>1, <1>3 DEF OwnersInv, Holds

\* The thresholds of an array with an open row.
OpenThresholds == {t \in T : Open(messages[t])}

\* However many checks of an array run at once (the scheduler's and the API's manual
\* ones), whatever the vendor's poll, the purge and failures do to its rows, no more
\* of its thresholds are open than there are checkers.
THEOREM OpenThresholdsPerChecker ==
    ASSUME IsFiniteSet(Checkers), Checkers # {}
    PROVE  Spec => [](Cardinality(OpenThresholds) <= Cardinality(Checkers))
<1>1. Init => OwnersInv
  BY OwnersInit
<1>2. OwnersInv /\ [Next]_vars => OwnersInv'
  BY OwnersNext
<1>3. OwnersInv => Cardinality(OpenThresholds) <= Cardinality(Checkers)
  <2> SUFFICES ASSUME OwnersInv
               PROVE  Cardinality(OpenThresholds) <= Cardinality(Checkers)
    OBVIOUS
  <2>1. PICK f \in [T -> Checkers] : Distinct(f)
    BY DEF OwnersInv, Owned
  <2>2. PICK g : g = [t \in OpenThresholds |-> f[t]]
    OBVIOUS
  <2>3. g \in [OpenThresholds -> Checkers]
    BY <2>1, <2>2 DEF OpenThresholds
  <2>4. \A s, t \in OpenThresholds : g[s] = g[t] => s = t
    BY <2>1, <2>2 DEF OpenThresholds, Distinct
  <2>5. g \in Injection(OpenThresholds, Checkers)
    BY <2>3, <2>4 DEF Injection, IsInjective
  <2> QED BY <2>5, FS_Injection
<1> QED BY <1>1, <1>2, <1>3, PTL DEF Spec

\* Checks that do not overlap: a manual trigger comes while the scheduler's is at rest.
Alone == \A c, d \in Checkers : check[c].phase # "idle" /\ check[d].phase # "idle" => c = d

\* c is the one that is checking, or may be the next to; all that is open is its own.
Solo(c) ==
    /\ PostInv(c)
    /\ \E f \in [T -> Checkers] : Holds(f) /\ \A t \in T : f[t] = c
    /\ \A d \in Checkers \ {c} : check[d].phase = "idle" /\ ~check[d].posted

SoloInv == TypeOK /\ AtActive /\ \E c \in Checkers : Solo(c)

\* Between checks it is any checker's turn.
LEMMA SoloPasses ==
    ASSUME NEW c \in Checkers, NEW d \in Checkers, Solo(c),
           \A b \in Checkers : check[b].phase = "idle"
    PROVE  Solo(d)
<1>1. ~check[c].posted
  BY DEF Solo, PostInv, Posting
<1>2. \A b \in Checkers : ~check[b].posted
  BY <1>1 DEF Solo
<1>3. PostInv(d)
  BY <1>1, <1>2 DEF Solo, PostInv, RowsRemember, ViewRemembers, Posting
<1>4. PICK f \in [T -> Checkers] : Holds(f) /\ \A t \in T : f[t] = c
  BY DEF Solo
<1>5. PICK g \in [T -> Checkers] : \A t \in T : g[t] = d
  <2>1. [t \in T |-> d] \in [T -> Checkers]
    OBVIOUS
  <2> QED BY <2>1
<1>6. Holds(g)
  BY <1>4, <1>5 DEF Holds, Owned, Distinct, Passed
<1> QED BY <1>2, <1>3, <1>5, <1>6 DEF Solo

\* A step of the checker whose turn it is, or of none.
LEMMA SoloStep ==
    ASSUME TypeOK, AtActive, NEW c \in Checkers, Solo(c),
           \/ CheckStep(c) \/ VendorPoll \/ AlertCleanup \/ Measure \/ Tick
           \/ UNCHANGED vars
    PROVE  Solo(c)'
<1>1. PostInv(c)'
  BY PostStep DEF Solo
<1>2. \A d \in Checkers \ {c} : check'[d] = check[d]
  BY DEF CheckStep, Begin, ResolveAlert, ReadExisting, UpsertAlert, TeamsOk, TeamsUnacked,
     TeamsRefused, MarkNotified, Commit, Abort, VendorPoll, AlertCleanup, Measure, Tick, vars,
     TypeOK
<1>3. PICK f \in [T -> Checkers] : Holds(f) /\ \A t \in T : f[t] = c
  BY DEF Solo
<1>4. [Next]_vars
  BY DEF Next
<1>5. \E g \in [T -> Checkers] : Holds(g)' /\ \A t \in T : g[t] = c
  <2>1. CASE Commit(c)
    <3>1. PICK g \in [T -> Checkers] : Holds(g)' /\ \A t \in T : g[t] \in {f[t], c}
      BY <1>3, <2>1, CommitOwned
    <3> QED BY <1>3, <3>1
  <2>2. CASE ~\E d \in Checkers : Commit(d)
    BY <1>3, <1>4, <2>2, OwnersKept
  <2>3. ASSUME NEW d \in Checkers \ {c} PROVE ~Commit(d)
    BY DEF Solo, Commit
  <2> QED BY <2>1, <2>2, <2>3
<1> QED BY <1>1, <1>2, <1>5 DEF Solo

LEMMA SoloNext ==
    ASSUME SoloInv, [Next]_vars, Alone'
    PROVE  SoloInv'
<1>1. (TypeOK /\ AtActive)'
  BY TypeStep DEF SoloInv
<1>2. PICK c \in Checkers : Solo(c)
  BY DEF SoloInv
<1>3. CASE \E d \in Checkers \ {c} : CheckStep(d)
  <2>1. PICK d \in Checkers \ {c} : CheckStep(d)
    BY <1>3
  <2>2. check[d].phase = "idle"
    BY <1>2 DEF Solo
  <2>3. Begin(d)
    BY <2>1, <2>2 DEF CheckStep, ResolveAlert, ReadExisting, UpsertAlert, TeamsOk,
       TeamsUnacked, TeamsRefused, MarkNotified, Commit, Abort
  <2>4. check'[d].phase = "loop" /\ check'[c] = check[c]
    BY <2>3 DEF Begin, SoloInv, TypeOK, Rest
  <2>5. check[c].phase = "idle"
    BY <2>4 DEF Alone
  <2>6. \A b \in Checkers : check[b].phase = "idle"
    BY <1>2, <2>5 DEF Solo
  <2>7. Solo(d)
    BY <1>2, <2>6, SoloPasses
  <2>8. Solo(d)'
    BY <2>1, <2>7, SoloStep DEF SoloInv
  <2> QED BY <1>1, <2>8 DEF SoloInv
<1>4. CASE ~\E d \in Checkers \ {c} : CheckStep(d)
  <2>1. \/ CheckStep(c) \/ VendorPoll \/ AlertCleanup \/ Measure \/ Tick
        \/ UNCHANGED vars
    BY <1>4 DEF Next
  <2>2. Solo(c)'
    BY <1>2, <2>1, SoloStep DEF SoloInv
  <2> QED BY <1>1, <2>2 DEF SoloInv
<1> QED BY <1>3, <1>4

LEMMA SoloInit ==
    ASSUME Init, Checkers # {}
    PROVE  SoloInv
<1>1. TypeOK /\ AtActive /\ Locks /\ PostedDirty
  BY OwnersInit DEF OwnersInv
<1>2. \A t \in T : posts[t].at = Never /\ ~Open(messages[t])
  BY DEF Init, NoRow, Open
<1>3. \A c \in Checkers : check[c].phase = "idle" /\ ~check[c].posted
  BY DEF Init, Rest
<1>4. PostsPast
  BY <1>2 DEF Init, PostsPast, Never
<1>5. PICK c : c \in Checkers
  OBVIOUS
<1>6. PostInv(c)
  BY <1>2, <1>3, <1>4, <1>5 DEF PostInv, RowsRemember, ViewRemembers, Posting, Excused
<1>7. PICK f \in [T -> Checkers] : \A t \in T : f[t] = c
  <2>1. [t \in T |-> c] \in [T -> Checkers]
    BY <1>5
  <2> QED BY <2>1
<1>8. Holds(f)
  BY <1>1, <1>2, <1>3 DEF Holds, Owned, Distinct, Passed
<1> QED BY <1>1, <1>3, <1>5, <1>6, <1>7, <1>8 DEF SoloInv, Solo

LEMMA SoloInvariant ==
    ASSUME Checkers # {}
    PROVE  Spec /\ []Alone => []SoloInv
BY SoloInit, SoloNext, PTL DEF Spec

\* As long as checks do not overlap, however many threads take turns at them, an array
\* never has two thresholds open.
THEOREM SerialHighestOnly ==
    ASSUME Checkers # {}
    PROVE  Spec /\ []Alone => []HighestOnly
<1>1. SoloInv => HighestOnly
  BY DEF SoloInv, Solo, Holds, Owned, Distinct, HighestOnly
<1> QED BY <1>1, SoloInvariant, PTL

\* Nor does Teams get the alert of a threshold again within the resend window, unless its
\* row was closed in between, or the record of the last message was lost.
THEOREM SerialRepeatsAreGenuine ==
    ASSUME Checkers # {}
    PROVE  Spec /\ []Alone => PostGenuine
<1>1. SoloInv => [\A t \in T : Takes(t) => Due(t) \/ posts[t].closed]_vars
  <2> SUFFICES ASSUME SoloInv, NEW t \in T, Takes(t)
               PROVE  Due(t) \/ posts[t].closed
    OBVIOUS
  <2>1. PICK c \in Checkers : Solo(c)
    BY DEF SoloInv
  <2>2. check[c].phase = "post" /\ check[c].at = t
    BY <2>1 DEF Takes, Solo
  <2> QED BY <2>1, <2>2 DEF SoloInv, AtActive, Solo, PostInv, Posting
<1> QED BY <1>1, SoloInvariant, PTL DEF PostGenuine

\* With one checker (the scheduler's, no manual trigger meanwhile) that is always so.
THEOREM SingleCheckerHighestOnly ==
    ASSUME NEW CONSTANT c, Checkers = {c}
    PROVE  Spec => []HighestOnly
<1>1. Alone
  BY DEF Alone
<1>2. Checkers # {}
  OBVIOUS
<1>3. Spec /\ []Alone => []HighestOnly
  BY <1>2, SerialHighestOnly
<1> QED BY <1>1, <1>3, PTL

THEOREM RepeatsAreGenuine ==
    ASSUME NEW CONSTANT c, Checkers = {c}
    PROVE  Spec => PostGenuine
<1>1. Alone
  BY DEF Alone
<1>2. Checkers # {}
  OBVIOUS
<1>3. Spec /\ []Alone => PostGenuine
  BY <1>2, SerialRepeatsAreGenuine
<1> QED BY <1>1, <1>3, PTL
=============================================================================
