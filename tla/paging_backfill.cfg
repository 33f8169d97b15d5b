SPECIFICATION Spec
CONSTANTS
    o1 = o1
    o2 = o2
    j1 = j1
    j2 = j2
    Operators = {o1}
    Jobs = {j1, j2}
    Fresh = 2
    Dispatch = 1
    MaxTime = 2
    MaxWrites = 2
    MaxFaults = 0
PROPERTY NeverBackfills
