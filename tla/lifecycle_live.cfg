SPECIFICATION LiveSpec
CONSTANTS
    a1 = a1
    a2 = a2
    e1 = e1
    e2 = e2
    Ids = {a1}
    Severe = {a1}
    Vendors = {"pure", "hpe", "hitachi", "dell", "oracle", "storagegrid", "netapp"}
    Endpoints = {e1, e2}
    EndpointOf <- MCEndpointOf
    PagingReads <- AlwaysOn
    Faults = {"fetch", "page", "db", "post"}
    Seeds = {0}
    NotifyAge = 0
    FetchAge = 0
    LookbackAge = 1
    ResolveAge = 0
    PurgeAge = 0
    MaxTime = 1
    MaxRaises = 2
    MaxRestarts = 0
PROPERTIES ResolutionReachesDatadog ClosureReachesStore EventuallyAnnounced
