SPECIFICATION Spec
CONSTANTS
    Runs = {r1, r2, r3}
    NoRun = NoRun
    Stages = 1
    Slices = 2
    PlanSlices = {1, 2, 3, 4, 5}
    PmSolves = {11}
    PsSolves = {1, 2}
    NoSolve = NoSolve
    PrbGrain = 4
    MaxQuantity = 8
    MaxLevels = 12
    Counts = {1, 6, 10}
    MaxDeploys = 3
    MaxSteps = 2
    MaxOthers = 2
    Profiles = {ina, lab}
    Builtin = ina
    Calls = {c1, c2}
    MaxSubnet = 3
    MaxRequests = 3
    Absent = Absent
INVARIANTS
    OneAttendedRun
    AnswerEndsScript
    ResultsAreRecent
    LevelsCover
    AddressesApart
    MeasuresItsLevel
    SavesStand
    SubnetsApart
PROPERTIES
    StopEndsScript
    LevelsEnd
CHECK_DEADLOCK FALSE
