SPECIFICATION AnySpec
CONSTANTS
    p1 = p1
    p2 = p2
    p3 = p3
    p4 = p4
    Procs = {p1, p2, p3, p4}
    op <- MixedOps
    MAX_TRIES = 2
    SEMVMX = 2
    InitialVals = {0, 1, 2}
    MayDie = TRUE
    NumArgs = 3
    Producers = {1, 2, 3}
    cnt <- Counts
    MaxSpurious = 2
INVARIANTS NoLostOperation DummyNeverWaits CountersMatchArray JoinerSleepsOnlyOnNothing UnitsConserved SleepsOnlyOnNothing
PROPERTY EverybodyEnds
CHECK_DEADLOCK FALSE
