SPECIFICATION Spec
CONSTANTS
    a1 = a1
    a2 = a2
    e1 = e1
    e2 = e2
    Ids = {a1}
    Severe = {a1}
    Vendors = {"pure", "hpe", "hitachi", "dell", "oracle", "storagegrid", "netapp"}
    Endpoints = {e1, e2}
    EndpointOf <- MCEndpointOf
    PagingReads <- OnOrOff
    Faults = {"fetch", "page", "db", "post", "ack", "crash"}
    Seeds = {0, 1}
    NotifyAge = 0
    FetchAge = 0
    LookbackAge = 1
    ResolveAge = 0
    PurgeAge = 1
    MaxTime = 2
    MaxRaises = 2
    MaxRestarts = 1
INVARIANTS TypeOK EventTracked OccurrenceGenuine
PROPERTIES LedgerKept NoTeamsRepeat ResolvedOnlyIfGone
