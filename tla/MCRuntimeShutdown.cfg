SPECIFICATION FairRuntimeSpec
CONSTANTS
    Runs = {r1}
    Sessions = {s1}
    Workers = {w1}
    Callers = {c1}
    Profiles = {p1}
    Keys = {}
    Limits = {2}
    LeaseTicks = 2
    Artifacts = {a1, a2}
    Outcomes = {"COMPLETE", "PARTIAL", "FAILED", "CANCELLED"}
    Faults = {"signal", "commit"}
    NoRun = NoRun
    NoKey = NoKey
    NoWorker = NoWorker

    
PROPERTIES
    ShutdownStops
CHECK_DEADLOCK FALSE
