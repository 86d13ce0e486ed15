SPECIFICATION Spec
CONSTANTS
  Requests = {r1, r2}
  MaxConcurrent = 2
  AuditToFile = TRUE
  AuditMayFail = TRUE
INVARIANTS
  AuditErrorsEnforced
CHECK_DEADLOCK FALSE
