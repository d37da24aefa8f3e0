SPECIFICATION Spec
CONSTANTS
    NFs = {cu}
    Sessions = {w1, w2}
    Threads = {t1}
    EventLoop = EventLoop
    NoSession = NoSession
    MaxSets = 2
    MaxAccidents = 1
    MaxQueued = 2
INVARIANTS
    BindingIsConsistent
    AckNamesTarget
PROPERTIES
    InFlightSurvives
    NoReplay
    PendingIsAnswered
CHECK_DEADLOCK FALSE
