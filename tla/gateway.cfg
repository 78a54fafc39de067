SPECIFICATION FairSpec
CONSTANTS
    c1 = c1
    c2 = c2
    c3 = c3
    r1 = r1
    r2 = r2
    Calls = {c1, c2}
    NoCall = NoCall
    Requests = {r1, r2}
    Verdicts = {"SUCCESS"}
    CacheCap = 1
    Sessions = {s1}
    NoSession = NoSession
    Maids = {m1}
    NoMaid = NoMaid
    MayCancel = TRUE
INVARIANTS WaitersAwake NoStaleState
PROPERTIES OwnersEnd JoinersEnd
