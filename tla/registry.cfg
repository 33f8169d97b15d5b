SPECIFICATION LiveSpec
CONSTANTS
    a1 = a1
    j1 = j1
    j2 = j2
    NoArray = NoArray
    Arrays = {a1}
    ArraysFile = {a1}
    InventoryVendors = {"collected"}
    Jobs = {j1, j2}
    TTL = 1
    LoadTime = 1
    MaxEvents = 1
INVARIANTS TypeOK SettledCollection
PROPERTIES SyncKeepsChoices TableDecides
