SPECIFICATION FairSpec
CONSTANTS
    Fields = {bandwidth}
    Waking = {bandwidth}
    Requests <- StartAndStop
    Own = Own
    DefaultValue = DefaultValue
    Nothing = Nothing
    Sessions = {s1, s2}
    Threads = {t1}
    EventLoop = EventLoop
    NoSession = NoSession
    MaxSets = 2
    MaxDeletes = 1
    MaxCrashes = 1
    SessionsInOrder = TRUE
CHECK_DEADLOCK FALSE
PROPERTY Converges
