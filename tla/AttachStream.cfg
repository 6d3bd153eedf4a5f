CONSTANTS
    w1 = w1
    w2 = w2
    w3 = w3
    d = d
    Workers <- MCWorkers
    Destroyer <- d
SPECIFICATION FairSpec
INVARIANTS NoUseAfterFree GrpcContract
PROPERTIES DestructorReturns CancelledStreamFinishes
CHECK_DEADLOCK FALSE
