SPECIFICATION Spec
CONSTANTS
    r = r
    s = s
    a = a
    b = b
    Tops = {r, s}
    Names = {a, b}
    MaxDepth = 2
    InitDirs = 2
    MaxOps = 1
    Ops = {"rename", "overwrite"}
    QueueMax = 8
    Roots <- OneRoot
    ReadMax = 4
    ALLOC_INCR = 2
    Commands = {"0"}
    CmdArgs <- NoArgs
    MaxWd = 4
    CheckCache = TRUE
    AbortOnCacheProblem = TRUE
INVARIANT ConsistentWhenCaughtUp
SYMMETRY NameSymmetry
CHECK_DEADLOCK FALSE
