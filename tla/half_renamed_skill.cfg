SPECIFICATION Spec
CONSTANTS
    Dest = {"coder", "plan"}
    DirDest = {"plan"}
    Bytes = {"v1", "v2", "r1", "r2"}
    Torn = Torn
    UserBytes = {"v1", "r1"}
    Origin = {"dep", "alt", "_self"}
    Self = "_self"
    Configs <- Renamed
    Requests <- AllRequests
    Checkouts <- DamagedLocks
    Provided = {}
    MaxEdits = 1
    MaxFaults = 1
    Absent = Absent
    NoRec = NoRec
    NoLock = NoLock
    CorruptLock = CorruptLock
    NoIntent = NoIntent
    NoDest = NoDest
INVARIANT EitherSideRecoverable
CHECK_DEADLOCK FALSE
