SPECIFICATION Spec
CONSTANTS
    Requests = {r1, r2, r3}
    Profiles = {p}
    Bench = {}
    Operations = {"apply", "undeploy", "clear"}
    N = 2
    MaxActive = 1
    NoOne = NoOne
SYMMETRY Symmetry
INVARIANTS
    UndeployedIsGone
CHECK_DEADLOCK FALSE
