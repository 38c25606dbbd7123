SPECIFICATION MCSpec
CONSTANTS
    Null = Null
    Absent = Absent
    Malformed = Malformed
    k1 = k1
    k2 = k2
    x = x
    r1 = r1
    Setups = {"edits"}
    Keys = {k1, k2, x}
    HonestKeys = {k1, k2}
    ValidActorIds = {"human:a"}
    InvalidActorIds = {}
    Recipients = {}
    Contents = {"c"}
    Actions = {}
    Kinds = {}
    Times = {"t1"}
    SkillIds = {"s"}
    PayloadNames = {"p"}
    SignerLists <- MCSignerLists
    ArchiveEntries = {}
    Overrides = {TRUE, FALSE}
    MaxEvents = 0
    MaxSeals = 2
    MaxBuilders = 1
    MaxPredecessors = 0
    Versions = {"0.6", "99.0", "bad"}
    Profiles = {"v0.6-suite", "x-vendor-suite"}
    Roles = {"originator", "reviewer"}
    MaxEdits = 2
INVARIANTS
    ValidImpliesSealed
    SignedSkillsWereSealed
PROPERTIES
    PromiseKept
CHECK_DEADLOCK FALSE
