\* Requests that start within a page.
SPECIFICATION Spec
CONSTANTS
    BPPG = 2
    PGPTRK = 2
    Word = 64
    Starts = {0, 1, 2, 3, 4, 5}
    MaxBytes = 20
    Raw = {FALSE}
INVARIANTS
    HalvesFit
