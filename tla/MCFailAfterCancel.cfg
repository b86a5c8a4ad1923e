SPECIFICATION RuntimeSpec
CONSTANTS
    Runs = {r1}
    Sessions = {s1}
    Workers = {w1}
    Callers = {c1}
    Profiles = {p1}
    Keys = {}
    Limits = {1}
    LeaseTicks = 1
    Artifacts = {a1}
    Outcomes = {"COMPLETE", "FAILED"}
    Faults = {}
    NoRun = NoRun
    NoKey = NoKey
    NoWorker = NoWorker
SYMMETRY RuntimeSymmetry
PROPERTIES
    CancelBlocksFailure
CHECK_DEADLOCK FALSE
