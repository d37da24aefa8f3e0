SPECIFICATION Spec
CONSTANTS
    NFs = {cu, du}
    Sessions = {w1, w2}
    Threads = {t1}
    EventLoop = EventLoop
    NoSession = NoSession
    MaxSets = 2
    MaxAccidents = 0
    MaxQueued = 1
PROPERTIES
    ReconnectDoesNotReplay
CHECK_DEADLOCK FALSE
