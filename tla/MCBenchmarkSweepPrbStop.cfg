SPECIFICATION RunnerSpec
CONSTANTS
    Callers = {c1, c2}
    NoOne = NoOne
    Steps = 3
    Kind = "prb"
    MaxRuns = 2
    MaxAccidents = 1
PROPERTIES
    CallsAreAnswered
CHECK_DEADLOCK FALSE
