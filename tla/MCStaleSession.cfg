SPECIFICATION Spec
CONSTANTS
    Runs = {r1, r2}
    Sessions = {s1}
    Workers = {w1, w2}
    Callers = {c1, c2}
    Profiles = {p1}
    Keys = {k1}
    Limits = {1}
    LeaseTicks = 2
    NoRun = NoRun
    NoKey = NoKey
    NoWorker = NoWorker
SYMMETRY Symmetry
INVARIANT RunningShowsProcessing
CHECK_DEADLOCK FALSE
