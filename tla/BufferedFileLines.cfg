SPECIFICATION Spec
CONSTANTS
    nul = nul
    lf = lf
    cr = cr
    Zero = nul
    LF = lf
    CR = cr
    Bytes = {nul, lf, cr}
    BufSiz = 2
    Limit = 3
    Payloads <- Texts
    Counts = {1, 3}
    MayFail = TRUE
    MayReadDirtyLines = TRUE
PROPERTIES
    LinesChangeNothing
