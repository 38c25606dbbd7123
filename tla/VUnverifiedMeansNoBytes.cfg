SPECIFICATION Spec
CONSTANTS
    Values <- MCValues
    Pools <- MCPools
    Declarations <- MCDeclarations
    HopCap = 3
INVARIANT UnverifiedMeansNoBytes
CHECK_DEADLOCK FALSE
