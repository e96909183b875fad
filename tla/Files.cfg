SPECIFICATION FilesSpec
CONSTANTS
    Procs = {p1, p2, p3}
    Platforms = {"unix", "windows"}
    MaxRelease = 3
    Attempts = 3
    Original = Original
    Nil = Nil
    Names = {n1, n2}
    Texts = {p}
    NoText = NoText
INVARIANTS
    ExeIsWhole
    GapHasBackup
    OnlyVerified
    VerdictIsTrue
    NoBookmarkLost

    
SYMMETRY Symmetry
CHECK_DEADLOCK FALSE
