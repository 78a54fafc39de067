SPECIFICATION Spec
CONSTANTS
    NoAction = NoAction
    NoMaid = NoMaid
    ReflexId = ReflexId
    work = work
    fight = fight
    eat = eat
    look = look
    halt = halt
    junk = junk
    m1 = m1
    m2 = m2
    Kind <- McKinds
    Requests = {fight}
    ReplayCap = 1
    Timeout = 1
    Escapes = {"FIRE_ESCAPE"}
    Maids = {m1, m2}
    MaxRuns = 1
    Environment = {"unload", "death", "reconnect", "fast_handshake", "late_message", "short_link", "restart"}
INVARIANTS NoOrphanRuns ActionStaysWithMaid PendingIsActive
PROPERTIES EscapeTakesBody
SYMMETRY Symmetry
