\* Three callers, one of which also sends notifications.
CONSTANTS
    c1 = c1
    c2 = c2
    c3 = c3
    o1 = o1
    o2 = o2
    Callers <- MCCallers
    Notifiers <- MCNotifiers
    Objects <- MCObjects
    MaxThrows = 1
SPECIFICATION FairSpec
INVARIANTS OneStatePerKey NoUseAfterFree
PROPERTY CallsReturn
CHECK_DEADLOCK FALSE
