SPECIFICATION AnySpec
CONSTANTS
    Names = {"x", "y"}
    Environment <- MCEnvironment
    MaxValue = 40
    MaxRounds = 6
    MaxBlobs = 2
    MaxChain = 3
    MaxCalls = 2
INVARIANTS AgreesWithBigStep PolicyHolds FailedOnEveryAbi ActsForTheCall SuccessIsReal
PROPERTY ComesToRest
CHECK_DEADLOCK FALSE
