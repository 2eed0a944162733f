\* Two commands over one package with two root files, two versions and two
\* sets of harnesses; one edit of the user, one fault, three commands.
SPECIFICATION Spec
CONSTANTS
    Proc = {p1, p2}
    npm = npm
    cat = cat
    claude = claude
    opencode = opencode
    RootFile = {npm, cat}
    Inputs = {claude, opencode}
    Expected <- Harnesses
    Version <- Versions
    Bytes <- MarsBytes
    Render <- Rendered
    UserBytes = {u}
    MaxEdits = 1
    MaxFaults = 1
    MaxCommands = 3
    None = None
    Missing = Missing
    Empty = Empty
    Foreign = Foreign
    Torn = Torn
    Free = Free
INVARIANT OwnOutputAccepted ReleaseUndone
PROPERTY UserFilesKept TaggedIsBuilt
SYMMETRY Symmetry
