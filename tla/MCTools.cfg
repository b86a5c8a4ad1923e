SPECIFICATION ToolsSpec
CONSTANTS
    Threads = {t1, t2}
    LastFrame = 1
    Ranges <- MCRanges
    UndoLimit = 2
    MaxEvents = 2
    NoThread = NoThread
    NoFile = NoFile
    Torn = Torn
    Exported = Exported
    VThreads = {v1, v2}
    Offered <- MCOffered
    Posts <- MCPosts
    Coherent <- MCCoherent
    MaxChanges = 2
    VNoFile = VNoFile
    VTorn = VTorn
    CPages = {p1}
    Layouts <- MCLayouts
    FrameSizes <- MCFrameSizes
    MaxSubmits = 2
    CNoFile = CNoFile
    CTorn = CTorn
SYMMETRY Symmetry
INVARIANTS
    SavedUnlessFailed
    DraftRestarts
    ExportNeverRefused
    UndoChain
    ReferenceComplete
    RefinedFromReference
    SavedCornersFit
    SavedIsSaved
CHECK_DEADLOCK FALSE
