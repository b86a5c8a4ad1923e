SPECIFICATION PlatformSpec
CONSTANTS
    Runs = {r1}
    Sessions = {s1, s2}
    Workers = {}
    Callers = {c1}
    Profiles = {p1}
    Keys = {}
    Limits = {1}
    LeaseTicks = 1
    Videos = {v1, v2}
    Handlers = {u1, u2, u3}
    Metas = {m1, m2}
    Sums = {h1, h2}
    NoRun = NoRun
    NoKey = NoKey
    NoWorker = NoWorker
    NoVideo = NoVideo
    NoMeta = NoMeta
    NoSum = NoSum
SYMMETRY UploadSymmetry
INVARIANTS
    OneSourceVideo
    RunsHaveInput
    SessionMatchesVideo
CHECK_DEADLOCK FALSE
