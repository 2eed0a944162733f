SPECIFICATION FairSpec
CONSTANTS
    Dest = {"coder", "plan"}
    DirDest = {"plan"}
    Bytes = {"v1", "v2", "u"}
    Torn = Torn
    UserBytes = {}
    Origin = {"dep", "_self"}
    Self = "_self"
    Configs <- TwoVersions
    Requests <- AllRequests
    Checkouts = {}
    Provided = {}
    MaxEdits = 2
    MaxFaults = 2
    Absent = Absent
    NoRec = NoRec
    NoLock = NoLock
    CorruptLock = CorruptLock
    NoIntent = NoIntent
    NoDest = NoDest
PROPERTIES
    JournalDischarged
CHECK_DEADLOCK FALSE
