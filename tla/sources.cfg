CONSTANTS
    a = a  g = g  c1 = c1  c2 = c2  c3 = c3  ours = ours  theirs = theirs
    p1 = p1  p2 = p2  p3 = p3
    None = None  Mixed = Mixed
    Repo = {a, g}  Archived = {a}  Commit = {c1, c2, c3}
    Process = {p1, p2, p3}
    Project = {ours, theirs}  ProjectOf <- Projects
    Asks <- TagMoved
    MaxSyncs = 2  MaxFaults = 1
SPECIFICATION Spec
INVARIANTS HandedOverRight PinnedContent OwnGeneration
PROPERTY SyncsEnd
CHECK_DEADLOCK FALSE
