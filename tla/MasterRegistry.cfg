CONSTANTS
  s1 = s1
  s2 = s2
  t1 = t1
  a1 = a1
  a2 = a2
  Conns = {c1, c2, c3}
  Servers = {s1, s2}
  Types = {t1}
  TypeOf <- OneType
  Addrs = {a1, a2}
  Users = {u1}
  NONE = NONE
  NoInfo = NoInfo
  AsyncAuth = FALSE
  MaxReq = 0
  MaxSent = 0
  MaxAsked = 0
SPECIFICATION Spec
SYMMETRY ConnSymmetry
INVARIANTS
  TypeOK
  TablesAgree
  PrimaryLive
  ClientsExact
  OneRecord
CHECK_DEADLOCK FALSE
