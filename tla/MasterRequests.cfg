CONSTANTS
  s1 = s1
  s2 = s2
  t1 = t1
  a1 = a1
  a2 = a2
  Conns = {c1, c2}
  Servers = {s1, s2}
  Types = {t1}
  TypeOf <- OneType
  Addrs = {a1}
  Users = {}
  NONE = NONE
  NoInfo = NoInfo
  AsyncAuth = FALSE
  MaxReq = 2
  MaxSent = 0
  MaxAsked = 0
SPECIFICATION Spec
SYMMETRY ConnSymmetry
INVARIANTS
  QosLedger
  PrimaryHasPending
  PushedOnce
  ReplyBeforeRequest
PROPERTIES
  SettledNotPushed
  AnswersOnce
CHECK_DEADLOCK FALSE
