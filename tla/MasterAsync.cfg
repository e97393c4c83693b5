CONSTANTS
  s1 = s1
  s2 = s2
  t1 = t1
  a1 = a1
  a2 = a2
  Conns = {c1, c2}
  Servers = {s1, s2}
  Types = {t1}
  TypeOf <- OneType
  Addrs = {a1, a2}
  Users = {u1}
  NONE = NONE
  NoInfo = a2
  AsyncAuth = TRUE
  MaxReq = 1
  MaxSent = 2
  MaxAsked = 1
SPECIFICATION Spec
SYMMETRY ConnSymmetry
INVARIANTS
  TablesAgree
  OneRecord
  AnswerInv
PROPERTIES
  BroadcastOnce
CHECK_DEADLOCK FALSE
