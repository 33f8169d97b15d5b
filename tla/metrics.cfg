SPECIFICATION LiveSpec
CONSTANTS
    a1 = a1
    v1 = v1
    Arrays = {a1}
    Fleets <- MCFleets
    Pages = 2
    Volumes = {v1}
    MetricsDays = 1
    VolumeDays = 0
    Batch = 1
    MaxDay = 3
    MaxJobs = 4
    MaxFaults = 1
INVARIANTS TypeOK CapacityGenuine CurrentInHistory
PROPERTIES DailyKept ExpiredRemoved
