SPECIFICATION MCSpec
CONSTANTS
    Null = Null
    Junk = Junk
    Paths <- MCPaths
    CountModulus = 8
    ParentInside <- MCParentInside
    NulSegments <- MCNulSegments
    Drives = {"C:"}
    Resolve <- MCResolve
    Archives <- MCArchives
    FileMaps <- MCFileMaps
    Targets <- MCTargets
    Limits <- MCLimits
    MaxRuns = 2
    PathOrder <- MCPathOrder
    DotSegments = {"a..b"}
    NotJson <- MCNotJson
INVARIANTS
    ReadersAgree
    WrittenIsRead
    LayoutVectorsReproduced
    ExtractedIsTheCapsule
CHECK_DEADLOCK FALSE
