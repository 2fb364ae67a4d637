SPECIFICATION Spec
CONSTANTS
    c1 = c1  c2 = c2  app = app  db = db  n1 = n1  n2 = n2  n3 = n3
    a1 = a1  e1 = e1  e2 = e2  old = old  v1 = v1  v2 = v2
    None = None
    Blank = Blank  host = host  port = port
    ProfileKeys = {host, port}
    Numbers = {v2}
    Clients = {c1, c2}
    Types = {app, db}
    Names = {n1, n2, n3}
    Values = {v1, v2}
    Aliases = {a1}
    Externals = {e1, e2, old}
    Legacy = {old}
    AllowedRelations <- AppToDB
    Seed <- TwoCIs
    Requests <- Meeting
    MaxOps = 4
    MaxSecond = 1
    MaxCIs = 4
SYMMETRY Symmetric
INVARIANTS
    AuditTrailReplays
    BeforeIsThePreviousValue
PROPERTIES
    ReviewedIsApplied
    LoneRowsAreStored
CHECK_DEADLOCK FALSE
