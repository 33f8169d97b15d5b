SPECIFICATION LiveSpec
CONSTANTS
    v1 = v1
    v2 = v2
    v3 = v3
    u1 = u1
    h1 = h1
    h2 = h2
    g1 = g1
    Volumes = {v1, v2, v3}
    Shares = {v3}
    Undefined = {u1}
    Hosts = {h1, h2}
    Groups = {g1}
    Configurations <- MCConfigurations
    PageLimit <- MCPageLimit
    Vendors = {"pure", "netapp", "hpe", "dell", "hitachi", "oracle"}
    RatioNum = 3
    RatioDen = 5
    MaxChanges = 2
    MaxFaults = 2
INVARIANTS TypeOK
PROPERTIES TablesGuarded MirrorFollowsPrimary ChangeRecorded CatchesUpOrFails
