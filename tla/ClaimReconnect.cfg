CONSTANTS
  s1 = s1
  t1 = t1
  a1 = a1
  Conns = {c1, c2}
  NONE = NONE
  MaxDelay = 1
  Reqs = {1, 2}
  MaxAsks = 0
  MaxSaid = 0
  Faults = {}
  Servers = {s1}
  Types = {t1}
  TypeOf <- OneType
  Addrs = {a1}
  Users = {}
  NoInfo = NoInfo
  MaxReq = 0
  MaxSent = 0
  MaxAsked = 0
  Me <- Monitor
  MaxRestarts = 0
  MaxCuts = 1
  Timely = {"modules"}
SPECIFICATION FairSpec
CHECK_DEADLOCK FALSE
PROPERTIES
  Registers
