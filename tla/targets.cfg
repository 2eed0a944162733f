CONSTANTS
    a = a  h = h  t = t  d = d  v1 = v1  v2 = v2  w = w  u = u
    None = None  Pending = Pending
    Item = {a, h}
    Agent = {a}
    Target = {t, d}
    Harness = {t}
    Selected = {t}
    Path <- AllPaths
    Version = {v1, v2}
    StoreEdits = {w}
    Unparsable = {w}
    UserBytes = {u}
    Configs <- AllConfigs
    Commands <- AllCommands
    MaxEdits = 1
    MaxChanges = 2
    MaxFaults = 1
SPECIFICATION Spec
INVARIANTS OwnedRecorded ClaimsAreOurs HookFileRunsCopy
PROPERTIES ImplementsOwnership EditedCopyKept RemovedCleaned TargetFilled
