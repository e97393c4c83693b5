CONSTANTS
  Conns = {c1, c2}
  NONE = NONE
  MaxDelay = 1
  MaxAsks = 1
  MaxCuts = 1
  Users = {u1}
  Servers = {s1, s2, s3}
  Frontends = {s1}
  Bare = {s3}
  Jobs = {1}
SPECIFICATION FairSpec
CHECK_DEADLOCK FALSE
INVARIANTS
  SessionTypeOK
  CalledOnce
  LatchExact
  FanOutComplete
  AnsweredWhereAsked
PROPERTIES
  AskSettled
