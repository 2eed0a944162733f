SPECIFICATION FairProbeSpec
CONSTANTS
    Command = {"c1", "c2"}
    Refresher = {"r1", "r2"}
    Harness = {"pi", "cursor"}
    Expiry = 1
    MaxSetBacks = 1
    MaxFailures = 1
    NoListing = NoListing
    Nobody = Nobody
PROPERTIES
    EvidenceTrue
    LastGoodKept
    Refreshes
