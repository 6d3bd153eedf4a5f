SPECIFICATION FairSpec
CONSTANTS
  Ops = {w}
  Watches = {w}
  Subs = {l}
  SemOps = {}
  Acquires = {}
  None = None
  MaxFaults = 2
  MaxReconnects = 1
  Timeouts = {TRUE, FALSE}
INVARIANTS NeverAborts AnsweredOnce StoppedOwesNothing PingKeepsWatch
PROPERTIES CloseCompletes RequestsComplete
CHECK_DEADLOCK FALSE
