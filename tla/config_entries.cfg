CONSTANTS
    g = g  h = h  s = s  e1 = e1  e2 = e2  u = u  x = x  y = y  w = w
    None = None
    Hook = {g, h}
    Server = {s}
    Entry = {e1, e2}
    UserEntry = {u}
    Value = {x, y}
    UserValue = {x, w}
    Configs <- AllConfigs
    Withheld <- AllWithheld
    MaxEdits = 1
    MaxChanges = 2
    MaxFaults = 2
SPECIFICATION Spec
INVARIANT EntriesRecorded
PROPERTIES UserEntriesKept SyncSettles
