CONSTANTS
  Conns = {c1, c2}
  NONE = NONE
  MaxDelay = 1
  Reqs = {}
  MaxAsks = 0
  MaxSaid = 0
  Faults = {"close"}
SPECIFICATION MonitorSpec
CHECK_DEADLOCK FALSE
SYMMETRY ConnSymmetry
PROPERTIES
  ClosedGreetsNobody
