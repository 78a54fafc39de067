SPECIFICATION FairSpec
CONSTANTS
    NoAction = NoAction
    NoMaid = NoMaid
    ReflexId = ReflexId
    work = work
    fight = fight
    eat = eat
    look = look
    halt = halt
    junk = junk
    m1 = m1
    m2 = m2
    Kind <- McKinds
    Requests = {work}
    ReplayCap = 1
    Timeout = 2
    Escapes = {"FIRE_ESCAPE"}
    Maids = {m1}
    MaxRuns = 1
    Environment = {"unload", "crash", "restart", "exit", "fast_handshake", "late_message", "short_link"}
INVARIANTS OneVerdict
PROPERTIES ActionEnds InterruptedReported
