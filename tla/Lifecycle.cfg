SPECIFICATION FairSpec
CONSTANTS
  Requests = {r1, r2, r3}
  MaxConcurrent = 2
  AuditToFile = TRUE
  AuditMayFail = FALSE
INVARIANTS
  TypeOK
  SlotsExact
  StoreClosedFirst
  AuditGapsExplained
PROPERTIES
  Terminates
CHECK_DEADLOCK FALSE
