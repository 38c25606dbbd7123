SPECIFICATION MCSpec
CONSTANTS
    Null = Null
    TicksPerSecond = 2
    Skew = 1
    Issuers = {"acme", "other"}
    Capsules = {"c1", "c2"}
    Signers = {"s1", "s2"}
    Statements <- MCStatements
    Times = {0, 1, 2, 3}
    Audience = "host"
    Policies <- MCPolicies
    VerifyResults <- MCVerifyResults
    MaxTime = 3
    MaxKeys = 2
    MaxIssued = 2
    MaxEdits = 1
INVARIANTS
    AttestationVectorsReproduced
    RootsComeFromTheirIssuer
    VerifiedWasIssued
    GenuineFollowsItsKey
    UnverifiedIsNotNegative
    DutiesAreSeparate
    SatisfiedIsBacked
PROPERTIES
    VerdictsChangeForCause
CHECK_DEADLOCK FALSE
