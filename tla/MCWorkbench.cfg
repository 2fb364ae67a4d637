SPECIFICATION Spec
CONSTANTS
    u1 = u1  u2 = u2  p1 = p1  p2 = p2  c1 = c1  c2 = c2
    r1 = r1  r2 = r2  st1 = st1  st2 = st2  v1 = v1  v2 = v2
    None = None  Damaged = Damaged
    Users = {u1, u2}
    Passwords = {p1, p2}
    Creds = {c1, c2}
    Calls = {r1, r2}
    Statements = {st1, st2}
    Views = {v1, v2}
    SharedAtStart = {st1, v1}
    FirstCred = c1
    FirstAccount <- MCFirstAccount
    Requests <- MCRequests
    MaxVersion = 2
    MaxNow = 2
    TokenAge = 2
    Window = 2
    Limit = 1
INVARIANTS ResetWins RejectionsWithinBudget ServedOnLiveAuthority EditsBuildOnEachOther
CHECK_DEADLOCK FALSE
