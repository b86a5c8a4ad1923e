SPECIFICATION PipelineSpec
CONSTANTS
    LastRow = 4
    Costs = {1, 2}
    BRanges <- MCRanges
    Needed = 1
    MaxRuns = 2
    NoTime = NoTime
    Importers = {i1, i2}
    RallyInputs <- MCRallies
    NoBundle = NoBundle
    MaxBuilds = 3
    MaxSources = 2
    AssetSets <- MCAssets
    Slack = 1
    NoDir = NoDir
    NoAssets = NoAssets
    MaxCandidates = 4
    MaxReplaced = 1
    TVideos <- MCTimedVideos
    TManifests <- MCManifests
    NA = NA
    TNothing = TNothing
    RawTracks <- MCTracks
    MaxSpeed = 3
    SpikeDistance = 3
    BreakDistance = 3
    BreakJump = 3
    LowDistance = 2
    LowJump = 2
    LocalWindow = 2
    LocalTime = 3
    MaxGap = 2
    MaxGapTime = 3
    AverageRadius = 1
    AverageTime = 1
    NoPoint = NoPoint
    Footage <- MCFootage
    PlayerEvents <- MCPlayerEvents
    BoxWidth = 3
    MatchThreshold = 2
    LowThreshold = 1
    MaxMissed = 1
    FootWindow = 2
    Diagonal = 4
    Full = 3
    ContactBonus = 1
    MinimumScore = 3
    NoPose = NoPose
    NoTrack = 0
SYMMETRY Symmetry
INVARIANTS
    SelectionAnchored
CHECK_DEADLOCK FALSE
