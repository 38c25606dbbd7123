SPECIFICATION Spec
CONSTANTS
    Values <- MCValues
    Pools <- MCPools
    Declarations <- MCDeclarations
    HopCap = 3
INVARIANT MismatchNeverContributes
CHECK_DEADLOCK FALSE
