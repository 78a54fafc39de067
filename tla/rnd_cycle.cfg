SPECIFICATION FairSpec
CONSTANTS
    p1 = p1
    p2 = p2
    Procs = {p1, p2}
    NoProc = NoProc
    MaxDay = 2
    LateFinalizers = FALSE
CHECK_DEADLOCK FALSE
INVARIANTS OneRunner OneActive ResultAgrees
PROPERTIES OutcomeKept FoundIsEnded
