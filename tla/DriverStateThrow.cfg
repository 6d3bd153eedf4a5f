\* Credentials that throw under concurrent callers.
CONSTANTS
    c1 = c1
    c2 = c2
    c3 = c3
    o1 = o1
    o2 = o2
    Callers <- MCCallers
    Notifiers <- MCNotifiers
    Objects <- MCObjects
    MaxThrows = 1
SPECIFICATION Spec
INVARIANT ReservationKept
CHECK_DEADLOCK FALSE
