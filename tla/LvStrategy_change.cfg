\* lv_changelv copies the maps before it pauses: a resynchronisation loses its place.
SPECIFICATION Spec
CONSTANTS
    Bufs = {b1}
    RawBuf = raw
    Callers = {c1}
    Syncer = syncer
    CallThread = callthread
    Admin = admin
    NoProc = noproc
    Pages = {1, 2}
    NumExts = 1
    TrksPerExt = 2
    WorkQSize = 2
    MaxIntr = 2
    MayResync = TRUE
    MayChange = TRUE
    MayReadOnly = FALSE
    MayLackCopy = FALSE
    Shapes <- MCShapes
SYMMETRY Symmetry
INVARIANTS
    NoResyncPanic
