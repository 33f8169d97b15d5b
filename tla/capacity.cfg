SPECIFICATION LiveSpec
CONSTANTS
    c1 = c1
    c2 = c2
    Thresholds = 2
    Checkers = {c1}
    Resolver = TRUE
    Faults = {"db", "post", "ack"}
    ResendDays = 2
    PurgeAge = 0
    MaxTime = 2
INVARIANTS TypeOK HighestOnly
PROPERTIES PostGenuine EventuallyAnnounced
