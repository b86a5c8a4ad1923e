SPECIFICATION RuntimeSpec
CONSTANTS
    Runs = {r1}
    Sessions = {s1}
    Workers = {w1, w2}
    Callers = {c1}
    Profiles = {p1}
    Keys = {}
    Limits = {2}
    LeaseTicks = 2
    Artifacts = {a1, a2}
    Outcomes = {"COMPLETE", "FAILED", "CANCELLED", "INVALID"}
    Faults = {"crash", "put", "delete", "outage"}
    NoRun = NoRun
    NoKey = NoKey
    NoWorker = NoWorker
SYMMETRY RuntimeSymmetry
INVARIANTS
    RuntimeTypeOK
    BundleFromFinalAttempt
    AttemptsDisjoint
    FinishedRunHasObjects
PROPERTIES
    CancelBlocksCompletion
CHECK_DEADLOCK FALSE
