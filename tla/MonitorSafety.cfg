CONSTANTS
  Conns = {c1, c2}
  NONE = NONE
  MaxDelay = 2
  Reqs = {}
  MaxAsks = 1
  MaxSaid = 2
  Faults = {"kick", "command", "overdue", "close"}
SPECIFICATION FairMonitorSpec
CHECK_DEADLOCK FALSE
INVARIANTS
  MonitorTypeOK
  ConnectedHasSocket
  OneTimer
  OnlyFirstAttemptExits
PROPERTIES
  Restored
