SPECIFICATION Spec
CONSTANTS
    tA = tA  tB = tB  vA = vA  kid = kid  idx = idx
    None = None
    Rels = {tA, tB, vA, kid, idx}
    Schemas = {"s", "o"}
    Objects = {"t", "v"}
    Pinned = "s"
    Catalog0 <- Start
    Deps <- ViewReads
    Kind <- KindOf
    Entries <- Statements
    Policy <- Masking
    Budget = 2
    MaxDDL = 2
    MaxBreaks = 1
INVARIANTS
    DeliveredWhatWasBound
    PageIsTheUsersSlice
    EvidenceIsTrue
PROPERTY
    EndsAndReleases
CHECK_DEADLOCK FALSE
