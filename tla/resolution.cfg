CONSTANTS
    None = None  HEAD = HEAD  Root = Root  main = main
    Package <- Names
    Source <- Repos
    Version = {1, 2}
    Pin = {main}
    Commit <- Shas
    Tags <- TagsOf
    Branch <- BranchOf
    Worlds <- AllWorlds
SPECIFICATION FairSpec
INVARIANTS SettledGraph Replays
PROPERTIES Terminates
CHECK_DEADLOCK FALSE
