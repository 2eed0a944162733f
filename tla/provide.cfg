SPECIFICATION FairSpec
CONSTANTS
    Proc = {"p1", "p2"}
    Provider = {"mer", "oth"}
    Name <- Names
    Owner <- OwnerOf
    Source <- Sources
    Hosts <- Mixed
    Final <- Settled
    Bytes = {"v1", "v2", "pkg", "torn", "u"}
    Package = "pkg"
    Torn = "torn"
    UserBytes = {"v1", "u"}
    Packaged <- PackageTakes
    Damage = {Corrupt, Newer}
    MaxEdits = 1
    MaxFaults = 1
    MaxSyncs = 1
    Absent = Absent
    NoSkill = NoSkill
    Pending = Pending
    Never = Never
    Corrupt = Corrupt
    Newer = Newer
    Free = Free
    Sync = Sync
    NoSource = NoSource
    NoName = NoName
INVARIANTS
    ProvidedCovered
    DigestTrue
PROPERTIES
    OnlyRecordedReplaced
    PendingSyncUntouched
    HostsServed
CHECK_DEADLOCK FALSE
