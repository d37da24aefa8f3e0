SPECIFICATION AppSpec
CONSTANTS
    MaxChanges = 3
    Timed = {1}
    SpawnMayRaise = TRUE
    MaxRequests = 2
    MaxLaunches = 2
    MaxCalls = 3
    MaxPipelines = 3
    Videos = {a, b}
    Default = a
    Blank = Blank
    MaxJobs = 2
    MaxOutages = 1
INVARIANTS
    StaleRunIsFlagged
    ProcessFollowsArgs
    StreamFollowsRequests
    ConsoleStopStands
PROPERTIES
    ChangeTakesEffect
    StopEndsProcess
    StopEndsWorkers
    ShowsAssignedVideo
CHECK_DEADLOCK FALSE
