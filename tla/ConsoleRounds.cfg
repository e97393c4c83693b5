CONSTANTS
  pulling = pulling
  pushing = pushing
  Master = Master
  Monitors = {m1}
  Modules = {pulling, pushing}
  Type <- OneOfEach
  Numbers = {pulling}
  Renewed <- MastersPull
  MaxRegs = 2
SPECIFICATION FairSpec
INVARIANTS
  ConsoleTypeOK
  JobsExact
PROPERTIES
  Refreshed
