SPECIFICATION AnySpec
CONSTANTS
    c1 = c1
    c2 = c2
    c3 = c3
    Clients = {c1, c2, c3}
    Systems = {"fifo_seqnum"}
    seqLen <- Lengths
    MaxInt = 3
    PipeMax = 2
    Mortal = {c1}
    MaxEpoch = 1
    SocketClients = {c1, c2, c3}
    reqLen <- ReqLens
    INT_MAX = 3
    InitNums <- Numbers
    BACKLOG = 2
    SocketMortal = {c1}
    MaxStarts = 1
    FileClients = {c1, c2, c3}
    file <- Files
    QueueMax = 1
    FileMortal = {c1}
    MayFail = TRUE
INVARIANT Unique
CHECK_DEADLOCK FALSE
