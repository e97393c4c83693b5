CONSTANTS
  Servers = {s1}
  Polls = {p1, p2}
  Chunks = 2
  MaxOrders = 3
  MaxAccidents = 2
  NONE = NONE
SPECIFICATION FairSpec
CHECK_DEADLOCK FALSE
INVARIANTS
  ProfileTypeOK
  OneSnapshot
  AnsweredOnce
PROPERTIES
  PollAnswered
  SnapshotArrives
