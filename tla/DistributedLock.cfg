SPECIFICATION LockSpec
CONSTANTS
  Ops = {}
  Watches = {}
  Subs = {l}
  LockSub = l
  SemOps = {a1, a2, r1}
  Acquires = {a1, a2}
  None = None
  MaxFaults = 1
  MaxReconnects = 1
  Timeouts = {FALSE}
SYMMETRY Symmetry
INVARIANTS AnsweredOnce StoppedOwesNothing WaiterIsWatched HeldIsOwned LossIsSignalled NothingLeaks
CHECK_DEADLOCK FALSE
