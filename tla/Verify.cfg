SPECIFICATION RewrapSpec
CONSTANTS
    Null = Null
    Absent = Absent
    Malformed = Malformed
    NotACapsule = NotACapsule
    Keys = {"carol", "alice"}
    Recipients = {}
    ValidActorIds = {"human:origin", "human:approver", "human:mallory", "human:author", "human:alice", "human:bob", "human:dana", "ai:assistant"}
    InvalidActorIds = {"robot:origin"}
    Disk <- MCDisk
    Calls <- MCCalls
    Rewraps <- MCRewraps
    Strangers <- MCStrangers
    HopCap = 256
INVARIANTS
    VectorsReproduced
    ExitZeroMeansDemandsMet
    ExitOneHasAReason
    UnqualifiedValidIsStrong
    RefusalIsAlone
    ReportIsComplete
    HandOffComposes
    RewrapKeepsFiles
CHECK_DEADLOCK FALSE
