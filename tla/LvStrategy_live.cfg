\* Progress of requests, pauses and a resynchronisation under fairness.
SPECIFICATION FairSpec
CONSTANTS
    Bufs = {b1}
    RawBuf = raw
    Callers = {c1}
    Syncer = syncer
    CallThread = callthread
    Admin = admin
    NoProc = noproc
    Pages = {1, 2}
    NumExts = 1
    TrksPerExt = 3
    WorkQSize = 2
    MaxIntr = 1
    MayResync = TRUE
    MayChange = FALSE
    MayReadOnly = FALSE
    MayLackCopy = FALSE
    Shapes <- MCFewShapes
INVARIANTS
    NoResyncPanic
PROPERTIES
    Implements
    Completes
    PauseReturns
    ResyncEnds
