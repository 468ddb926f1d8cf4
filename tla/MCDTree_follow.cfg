SPECIFICATION FairSpec
CONSTANTS
    r = r
    s = s
    a = a
    b = b
    Tops = {r, s}
    Names = {a, b}
    MaxDepth = 2
    InitDirs = 1
    MaxOps = 2
    Ops = {"mkdir", "rmdir", "rename"}
    QueueMax = 3
    Roots <- OneRoot
    ReadMax = 2
    ALLOC_INCR = 2
    Commands = {"x"}
    CmdArgs <- NoArgs
    MaxWd = 4
    CheckCache = FALSE
    AbortOnCacheProblem = FALSE
INVARIANTS ConsistentWhenCaughtUp NoCacheProblem
PROPERTY CatchesUp
CHECK_DEADLOCK FALSE
