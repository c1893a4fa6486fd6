\* Requests of any start and length: masks, and what the caller gets back.
SPECIFICATION Spec
CONSTANTS
    BPPG = 2
    PGPTRK = 2
    Word = 64
    Starts = {0, 1, 2, 3, 4, 5, 6}
    MaxBytes = 20
    Raw = {FALSE, TRUE}
INVARIANTS
    MaskExact
    Returned
    PiecesFit
