SPECIFICATION AnySpec
CONSTANTS
    c1 = c1
    c2 = c2
    c3 = c3
    Clients = {c1, c2, c3}
    Systems = {"fifo_seqnum", "is_seqnum", "svmsg_file"}
    seqLen <- Lengths
    MaxInt = 3
    PipeMax = 2
    Mortal = {c1, c2}
    MaxEpoch = 2
    SocketClients = {c1, c2, c3}
    reqLen <- ReqLens
    INT_MAX = 3
    InitNums <- Numbers
    BACKLOG = 2
    SocketMortal = {c1}
    MaxStarts = 2
    FileClients = {c1, c2, c3}
    file <- Files
    QueueMax = 1
    FileMortal = {c1}
    MayFail = TRUE
INVARIANTS HonestAnswer SomeoneAnswers ZombieNoticed
PROPERTIES CountsLikeService SocketCountsLikeService EverybodyServed
CHECK_DEADLOCK FALSE
