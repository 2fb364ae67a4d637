SPECIFICATION Spec
CONSTANTS
    c1 = c1  c2 = c2
    tidb = tidb  postgres = postgres  db = db  ns1 = ns1
    None = None
    Calls = {c1, c2}
    Targets = {postgres, tidb}
    PGTargets = {postgres}
    TiDBTargets = {tidb}
    Databases = {db}
    Schemas = {ns1}
    CredentialRefs = {1, 2}
    Items = {1}
    Stored <- TwoRows
    Requests <- Reads
    Capacity = 1
    PositiveTTL = 1
    NegativeTTL = 1
    MaxNow = 1
    MaxChanges = 1
INVARIANTS
    QueueListsTheEntries
    AnswerDescribesRequest
    ServedReadsAreAudited
PROPERTIES
    EveryCallAnswered
CHECK_DEADLOCK FALSE
