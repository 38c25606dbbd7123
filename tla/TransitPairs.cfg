SPECIFICATION MCSpec
CONSTANTS
    Null = Null
    Absent = Absent
    Malformed = Malformed
    k1 = k1
    k2 = k2
    x = x
    r1 = r1
    Setups = {"pairs", "citations"}
    Keys = {k1, k2, x}
    HonestKeys = {k1, k2}
    ValidActorIds = {"human:a"}
    InvalidActorIds = {}
    Recipients = {r1}
    Contents = {"c"}
    Actions = {}
    Kinds = {}
    Times = {"t1"}
    SkillIds = {}
    PayloadNames = {}
    SignerLists <- FewSignerLists
    ArchiveEntries = {}
    Overrides = {FALSE}
    MaxEvents = 0
    MaxSeals = 2
    MaxBuilders = 2
    MaxPredecessors = 1
    Versions = {}
    Profiles = {}
    Roles = {"originator", "reviewer"}
    MaxEdits = 2
INVARIANTS
    CitationsAreSealed
    AcceptedPairsWereSealedTogether
CHECK_DEADLOCK FALSE
