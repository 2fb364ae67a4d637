SPECIFICATION Spec
CONSTANTS
    c1 = c1  c2 = c2
    None = None
    Senders = {1, 2}
    Scans = {1, 2, 3, 4}
    CIs = {c1, c2}
    Fingerprints = {1, 2}
    Requests <- EachScan
    MaxCompleteScanOmissions = 2
    MaxCollectorStateEntries = 1
    MaxSends = 4
INVARIANTS
    TypeOK
    StatesFollowTheLog
    EachScanAppliedOnce
    OkMeansRecorded
PROPERTY
    EveryConfirmationAnswered
CHECK_DEADLOCK FALSE
