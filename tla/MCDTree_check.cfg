SPECIFICATION Spec
CONSTANTS
    r = r
    s = s
    a = a
    b = b
    Tops = {r, s}
    Names = {a, b}
    MaxDepth = 2
    InitDirs = 1
    MaxOps = 1
    Ops = {"moveroot"}
    QueueMax = 8
    Roots <- TwoRoots
    ReadMax = 4
    ALLOC_INCR = 2
    Commands = {"0"}
    CmdArgs <- NoArgs
    MaxWd = 4
    CheckCache = TRUE
    AbortOnCacheProblem = TRUE
INVARIANT StopsOnlyForNonDirectory
SYMMETRY NameSymmetry
CHECK_DEADLOCK FALSE
