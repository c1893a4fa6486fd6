\* Two halves in lv_collect at the same time.
SPECIFICATION Spec
CONSTANTS
    BPPG = 2
    PGPTRK = 2
    Word = 64
    Starts = {2}
    MaxBytes = 8
    Raw = {FALSE}
INVARIANTS
    NotLost
