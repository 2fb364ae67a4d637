\* Two concurrent attempts under fairness, and a clock that moves.
SPECIFICATION FairSpec
CONSTANTS
    Attempts = {a1, a2}
    Targets = {"t1", "t2"}
    PGTargets = {"t2"}
    Keys = {1}
    ActorIds = {7}
    Scopes = {"db1", "db2"}
    Bodies = {"b1", "b2"}
    Requests <- LiveRequests
    MaxNow = 1
    NoClaim = NoClaim
    NoRequest = NoRequest
    NoRecord = NoRecord
    NoScope = NoScope
PROPERTIES
    EveryAttemptAnswered
    ClaimSettlesOrIsExplained
    ImplementsEvidenceStore
