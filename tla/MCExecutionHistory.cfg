\* Two keys, two rows, two typed actors that share a number, one entry per page.
SPECIFICATION HistorySpec
CONSTANTS
    Targets = {"t1"}
    Keys = {1, 2}
    Actor <- MCActor
    Statuses = {"success", "failed"}
    NoKey = 0
    NoClaim = NoClaim
    NoCursor = NoCursor
    MaxNow = 1
    PageSize = 1
    MaxRows = 2
    MaxPages = 4
    Expiry = 1
    Queries <- MCQueries
INVARIANTS
    NoExecutionListedTwice
    FinishedWalkIsComplete
PROPERTIES
    ShownStatusNeverReverts
