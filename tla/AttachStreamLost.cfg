CONSTANTS
    w1 = w1
    w2 = w2
    w3 = w3
    d = d
    Workers <- MCWorkers2
    Destroyer <- d
SPECIFICATION Spec
INVARIANT SessionIsWatched
CHECK_DEADLOCK FALSE
