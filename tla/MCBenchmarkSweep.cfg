SPECIFICATION RunnerSpec
CONSTANTS
    Callers = {c1, c2}
    NoOne = NoOne
    Steps = 3
    Kind = "cpu"
    MaxRuns = 2
    MaxAccidents = 2
INVARIANTS
    StepsInOrder
    RunningRowHasWorker
    StopIsKept
    OutcomeMatchesSteps
PROPERTIES
    FinishedIsFinal
    RunEnds
CHECK_DEADLOCK FALSE
