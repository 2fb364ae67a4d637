SPECIFICATION Spec
CONSTANTS
    Names = {"a", "b"}
    Tables <- MCTables
    Contents <- MCContents
    Requests <- MCRequests
    DefaultMaxRows = 2
    HardMaxRows = 4
    ProductionMaxRows = 3
    RelatedDefaultRows = 2
    RelatedHardRows = 4
    MaxColumns = 3
    MaxCellBytes = 2
    MaxResponseBytes = 5
    MaxInt = 9
    Masked = Masked
    None = None
INVARIANTS ShownAsThePolicySaid PagesAreOneSequence
