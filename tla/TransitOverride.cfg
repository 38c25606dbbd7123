SPECIFICATION MCSpec
CONSTANTS
    Null = Null
    Absent = Absent
    Malformed = Malformed
    k1 = k1
    k2 = k2
    x = x
    r1 = r1
    Setups = {"override"}
    Keys = {k1, x}
    HonestKeys = {k1}
    ValidActorIds = {}
    InvalidActorIds = {}
    Recipients = {}
    Contents = {"c"}
    Actions = {}
    Kinds = {}
    Times = {"t1"}
    SkillIds = {}
    PayloadNames = {}
    SignerLists <- OneSigner
    ArchiveEntries <- MCArchiveEntries
    Overrides = {TRUE}
    MaxEvents = 0
    MaxSeals = 2
    MaxBuilders = 2
    MaxPredecessors = 1
    Versions = {"0.6"}
    Profiles = {}
    Roles = {"originator"}
    MaxEdits = 2
INVARIANTS
    SealedVerifies
    CustodyGivesNewIdentity
CHECK_DEADLOCK FALSE
