SPECIFICATION Spec
CONSTANTS
    nul = nul
    lf = lf
    cr = cr
    Zero = nul
    LF = lf
    CR = cr
    Bytes = {nul, lf, cr}
    BufSiz = 2
    Limit = 3
    Payloads <- Texts
    Counts = {1, 2, 3}
    MayFail = TRUE
    MayReadDirtyLines = FALSE
INVARIANTS
    TypeOK
    SizeIsTold
PROPERTIES
    IsPlainFile
