SPECIFICATION Spec
CONSTANTS
    r = r
    s = s
    a = a
    b = b
    Tops = {r, s}
    Names = {a, b}
    MaxDepth = 2
    InitDirs = 1
    MaxOps = 2
    Ops = {"mkdir", "rmdir", "rename", "overwrite", "moveroot", "unmount"}
    QueueMax = 2
    Roots <- TwoRoots
    ReadMax = 2
    ALLOC_INCR = 2
    Commands = {"a", "z", "0", "q"}
    CmdArgs <- SubtreeArg
    MaxWd = 3
    CheckCache = FALSE
    AbortOnCacheProblem = FALSE
INVARIANTS WatchesAreCached FreshCacheExact
SYMMETRY NameSymmetry
CHECK_DEADLOCK FALSE
