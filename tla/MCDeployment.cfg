SPECIFICATION Spec
CONSTANTS
    Requests = {r1, r2, r3}
    Profiles = {p, b}
    Bench = {b}
    Operations = {"apply", "dry", "push", "undeploy", "clear"}
    N = 2
    MaxActive = 2
    NoOne = NoOne
SYMMETRY Symmetry
INVARIANTS
    AnswerIsInGitea
    RecordMatchesGitea
CHECK_DEADLOCK FALSE
