SPECIFICATION FairSpec
CONSTANTS
    Lookup = {"l1"}
    Worker = {"w1", "w2"}
    Ttl = 1
    Lease = 1
    Cooldown = 1
    MaxRevision = 1
    MaxBacks = 1
    MaxFaults = 1
    Empty = Empty
    NoMarker = NoMarker
    NoClaim = NoClaim
    Free = Free
    AnyRevision = AnyRevision
INVARIANTS
    OneWorker
PROPERTIES
    NoLostRefresh
    CooldownKept
    StaleServed
    Refreshed
