CONSTANTS
  s1 = s1
  t1 = t1
  a1 = a1
  Conns = {c1, c2}
  NONE = NONE
  MaxDelay = 1
  Reqs = {1, 2}
  MaxAsks = 0
  MaxSaid = 1
  Faults = {"close", "kick", "overdue"}
  Servers = {s1}
  Types = {t1}
  TypeOf <- OneType
  Addrs = {a1}
  Users = {}
  NoInfo = NoInfo
  MaxReq = 1
  MaxSent = 0
  MaxAsked = 0
  Me <- Monitor
  MaxRestarts = 0
  MaxCuts = 1
  Timely = {}
SPECIFICATION Spec
CHECK_DEADLOCK FALSE
SYMMETRY ConnSymmetry
INVARIANTS
  SystemTypeOK
  AdmittedIsRegistered
  OneRegistered
PROPERTIES
  AnswersOnce
