SPECIFICATION Spec
CONSTANTS
    Values <- MCValues
    Pools <- MCPools
    Declarations <- MCDeclarations
    HopCap = 3
INVARIANTS
    OneEntryPerArtifact
    HopsAreFirstPerson
    NothingLeftToMatch
    DepthIsBacked
    DeclarationsJoinOnce
    UnambiguousIsVerified
PROPERTIES
    ImplementsReport
    WalkIsBounded
    WalkReturns
CHECK_DEADLOCK FALSE
