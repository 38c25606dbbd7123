SPECIFICATION MCSpec
CONSTANTS
    Null = Null
    Absent = Absent
    Malformed = Malformed
    k1 = k1
    k2 = k2
    r1 = r1
    r2 = r2
    archived = archived
    Keys = {k1}
    ValidActorIds = {"human:a"}
    InvalidActorIds = {"bogus"}
    Recipients = {r1, r2}
    Contents = {}
    Actions = {"edited"}
    Kinds = {"decision", "rumour"}
    Times = {"t1"}
    SkillIds = {}
    PayloadNames = {}
    SignerLists <- MCSignerLists
    ArchiveEntries <- MCArchiveEntries
    Overrides = {TRUE, FALSE}
    MaxEvents = 2
    MaxSeals = 2
    MaxBuilders = 2
    MaxPredecessors = 1
INVARIANTS
    SealEmitsWellFormedParticipants
CHECK_DEADLOCK FALSE
