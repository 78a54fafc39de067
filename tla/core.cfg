SPECIFICATION Spec
CONSTANTS
    NoAction = NoAction
    NoMaid = NoMaid
    ReflexId = ReflexId
    work = work
    fight = fight
    eat = eat
    look = look
    halt = halt
    junk = junk
    m1 = m1
    m2 = m2
    Kind <- McKinds
    Requests = {work, halt}
    ReplayCap = 1
    Timeout = 1
    Escapes = {"FIRE_ESCAPE", "DROWNING_ESCAPE"}
    Maids = {m1, m2}
    MaxRuns = 2
    Environment = {"restart"}
INVARIANTS TypeOK ExecutedOnce
PROPERTIES KeepsContract
SYMMETRY Symmetry
