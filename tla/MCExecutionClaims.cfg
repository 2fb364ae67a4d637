\* Two concurrent attempts (a request and its retry, or a conflicting one).
SPECIFICATION Spec
CONSTANTS
    Attempts = {a1, a2}
    Targets = {"t1", "t2"}
    PGTargets = {"t2"}
    Keys = {1}
    ActorIds = {7}
    Scopes = {"db1", "db2"}
    Bodies = {"b1", "b2"}
    Requests <- AllRequests
    MaxNow = 0
    NoClaim = NoClaim
    NoRequest = NoRequest
    NoRecord = NoRecord
    NoScope = NoScope
SYMMETRY AttemptSymmetry
INVARIANTS
    IInv
    AtMostOneRunPerKey
    LinkIntegrity
    OnePairPerAttempt
    AnswersMatchEvidence
    FinalizeFindsItsClaim
PROPERTIES
    EvidenceOnlyGrows
    ImplementsLedger
