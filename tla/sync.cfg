SPECIFICATION Spec
CONSTANTS
    Dest = {"coder", "plan"}
    DirDest = {"plan"}
    Bytes = {"v1", "v2", "r1"}
    Torn = Torn
    UserBytes = {"v1", "r1"}
    Origin = {"dep", "alt", "_self"}
    Self = "_self"
    Configs <- Mixed
    Requests <- AllRequests
    Checkouts <- DamagedLocks
    Provided = {}
    MaxEdits = 2
    MaxFaults = 2
    Absent = Absent
    NoRec = NoRec
    NoLock = NoLock
    CorruptLock = CorruptLock
    NoIntent = NoIntent
    NoDest = NoDest
INVARIANTS
    WritesAccounted
    RetryNotBlocked
PROPERTIES
    UserBytesSurvive
    FrozenWritesNothing
    ClaimsTrue
CHECK_DEADLOCK FALSE
