SPECIFICATION LiveSpec
CONSTANTS
    c1 = c1
    c2 = c2
    Checks = {c1, c2}
    MaxJobs = 2
    MaxPairs = 2
    Faults = {"http", "ack", "db", "crash"}
INVARIANTS TypeOK RecordGenuine RepeatExplained PairKept
PROPERTIES FailureAnnounced FirstRecoveryAnnounced
