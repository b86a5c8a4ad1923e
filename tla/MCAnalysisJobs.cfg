SPECIFICATION Spec
CONSTANTS
    Runs = {r1, r2}
    Sessions = {s1}
    Workers = {w1, w2}
    Callers = {c1, c2}
    Profiles = {p1, p2}
    Keys = {k1}
    Limits = {1, 2}
    LeaseTicks = 2
    NoRun = NoRun
    NoKey = NoKey
    NoWorker = NoWorker
SYMMETRY Symmetry
INVARIANTS
    TypeOK
    LeaseOnlyWhileRunning
    OneActiveRun
    ActiveRunIsLatest
    LoadedLeaseIsCurrent
    OneRunPerKey
    ShownBundleMatches
PROPERTIES
    LifecycleRefined
    ExpiredLeaseIsDead
    SessionFollowsTable
CHECK_DEADLOCK FALSE
