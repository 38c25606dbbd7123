SPECIFICATION Spec
CONSTANTS
    Values <- MCValues
    Pools <- MCPools
    Declarations <- MCDeclarations
    HopCap = 3
INVARIANT PairMatchDecides
CHECK_DEADLOCK FALSE
