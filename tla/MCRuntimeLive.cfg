SPECIFICATION FairRuntimeSpec
CONSTANTS
    Runs = {r1}
    Sessions = {s1}
    Workers = {w1, w2}
    Callers = {c1}
    Profiles = {p1}
    Keys = {}
    Limits = {2}
    LeaseTicks = 1
    Artifacts = {a1}
    Outcomes = {"COMPLETE"}
    Faults = {"crash", "outage"}
    NoRun = NoRun
    NoKey = NoKey
    NoWorker = NoWorker
PROPERTIES
    RunsTerminate
CHECK_DEADLOCK FALSE
