\* Recovery of an LTG none of whose copies is usable, then any resynchronisation.
SPECIFICATION Spec
CONSTANTS
    Bufs = {b1}
    RawBuf = raw
    Callers = {c1}
    Syncer = syncer
    CallThread = callthread
    Admin = admin
    NoProc = noproc
    Pages = {1, 2}
    NumExts = 1
    TrksPerExt = 2
    WorkQSize = 2
    MaxIntr = 2
    MayResync = TRUE
    MayChange = FALSE
    MayReadOnly = FALSE
    MayLackCopy = TRUE
    Shapes <- MCShapes
SYMMETRY Symmetry
INVARIANTS
    NoResyncPanic
