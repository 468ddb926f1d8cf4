SPECIFICATION FairSpec
CONSTANTS
    Readers = {r1, r2}
    BUF_SIZE = 2
    InputLen = 5
    MayFail = TRUE
INVARIANTS ExclusiveAccess PrefixDelivered DoneMeansDelivered RemovedAfterUse
PROPERTIES ImplementsChannel AttachedReaderDrains
CHECK_DEADLOCK FALSE
