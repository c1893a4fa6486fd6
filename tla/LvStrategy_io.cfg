\* Ordinary requests against pause, continue and a change of LVM_RDONLY.
SPECIFICATION Spec
CONSTANTS
    Bufs = {b1, b2, b3}
    RawBuf = raw
    Callers = {c1, c2}
    Syncer = syncer
    CallThread = callthread
    Admin = admin
    NoProc = noproc
    Pages = {1, 2}
    NumExts = 1
    TrksPerExt = 2
    WorkQSize = 2
    MaxIntr = 2
    MayResync = FALSE
    MayChange = TRUE
    MayReadOnly = TRUE
    MayLackCopy = FALSE
    Shapes <- MCShapes
SYMMETRY Symmetry
INVARIANTS
    TypeOK
    Exclusion
    NoOvertaking
    BlockedForCause
    PauseExact
    ReadyIsServed
