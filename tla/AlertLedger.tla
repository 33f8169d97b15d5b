------------------------------ MODULE AlertLedger ------------------------------
(***************************************************************************)
(* What the alert collectors promise about an alert, its Datadog event and *)
(* its Teams message, whichever vendor's collector keeps them and however  *)
(* its cycles are cut into transactions and POSTs: only an open alert is   *)
(* paged or told, only one that is not open has its event resolved, and an *)
(* event is written off only once it is resolved.  The one way to lose     *)
(* track of an open event is to say so in `lost'.                          *)
(***************************************************************************)
CONSTANT Keys   \* the alerts

VARIABLES
    row,     \* the alert: unknown, open or closed
    event,   \* its event in Datadog
    noted,   \* the alerts known to have an open event
    told,    \* the alerts known to have been told to Teams
    lost     \* the alerts whose open event is no longer known

vars == <<row, event, noted, told, lost>>

Init ==
    /\ row = [k \in Keys |-> "none"]
    /\ event = [k \in Keys |-> "none"]
    /\ noted = {} /\ told = {} /\ lost = {}

\* One step may report, close or forget many alerts, as one transaction does.
Reported(k) == row[k] # "open" /\ row'[k] = "open"
Closed(k) == row[k] = "open" /\ row'[k] = "closed"
Forgotten(k) == row[k] = "closed" /\ row'[k] = "none"

Update ==
    /\ row' \in [Keys -> {"none", "open", "closed"}]
    /\ \A k \in Keys : row'[k] = row[k] \/ Reported(k) \/ Closed(k)
    /\ UNCHANGED <<event, noted, told, lost>>

Forget ==
    /\ row' \in [Keys -> {"none", "open", "closed"}]
    /\ \A k \in Keys : row'[k] = row[k] \/ Forgotten(k)
    /\ noted' = {k \in noted : ~Forgotten(k)}
    /\ told' = {k \in told : ~Forgotten(k)}
    /\ lost' = lost \cup {k \in Keys : Forgotten(k) /\ event[k] = "open"}
    /\ UNCHANGED event

\* The event is opened, and known to be unless the answer was lost; an event that is
\* known to be open is opened again only by a process that could not read so.
Page(k) ==
    /\ row[k] = "open"
    /\ event' = [event EXCEPT ![k] = "open"]
    /\ \/ noted' = noted \cup {k} /\ lost' = lost /\ k \notin noted
       \/ noted' \in {noted, noted \cup {k}} /\ lost' = lost \cup {k}
    /\ UNCHANGED <<row, told>>

Record(k) ==
    /\ row[k] = "open" /\ k \in noted
    /\ lost' = lost \ {k}
    /\ UNCHANGED <<row, event, noted, told>>

\* What was known of an open event is lost before it is recorded.
Lose(k) ==
    /\ row[k] = "open" /\ event[k] = "open" /\ k \in noted
    /\ noted' \in {noted, noted \ {k}}
    /\ lost' = lost \cup {k}
    /\ UNCHANGED <<row, event, told>>

Resolve(k) ==
    /\ row[k] # "open"
    /\ event' = [event EXCEPT ![k] = "ok"]
    /\ lost' = lost \ {k}
    /\ UNCHANGED <<row, noted, told>>

WriteOff(k) ==
    /\ row[k] # "open" /\ event[k] = "ok"
    /\ noted' = noted \ {k}
    /\ UNCHANGED <<row, event, told, lost>>

Tell(k) ==
    /\ row[k] = "open"
    /\ told' = told \cup {k}
    /\ UNCHANGED <<row, event, noted, lost>>

Next ==
    \/ Update \/ Forget
    \/ \E k \in Keys : \/ Page(k) \/ Record(k) \/ Lose(k)
                       \/ Resolve(k) \/ WriteOff(k) \/ Tell(k)

Spec == Init /\ [][Next]_vars

\* The event of a closed alert stays due to be resolved until it is, or the alert comes
\* back or is forgotten: it is never simply dropped.
StaysDue(k) == row[k] = "closed" /\ event[k] = "open" /\ k \in noted
NeverDropped ==
    [][\A k \in Keys : StaysDue(k) =>
          StaysDue(k)' \/ event'[k] = "ok" \/ row'[k] # "closed"]_vars
=============================================================================
