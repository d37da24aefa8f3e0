SPECIFICATION Spec
CONSTANTS
    Fields = {bandwidth, reverse}
    Waking = {bandwidth}
    Requests <- MCRequests
    Own = Own
    DefaultValue = DefaultValue
    Nothing = Nothing
    Sessions = {s1, s2}
    Threads = {t1}
    EventLoop = EventLoop
    NoSession = NoSession
    MaxSets = 2
    MaxDeletes = 1
    MaxCrashes = 1
    SessionsInOrder = FALSE
CHECK_DEADLOCK FALSE
INVARIANT AnswerIsInForce
PROPERTY ImplementsReconciliation
