SPECIFICATION HSpec
CONSTANTS
    Runs = {o1, o2}
    MaxStarts = 2
    None = None
    Legacies <- MCLegacies
SYMMETRY Symmetry
INVARIANT LegacySurvives
PROPERTIES SuccessIsFaithful OnlyResumeDropsTheRebuilt
CHECK_DEADLOCK FALSE
