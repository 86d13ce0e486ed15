SPECIFICATION Spec
CONSTANTS
  Providers = {p1, p2}
  Clients = {c1, c2, c3}
  Files = {f1, f2, f3, f4}
  NoFile = NoFile
  NoClient = NoClient
  Overlap = TRUE
INVARIANTS
  AcknowledgedSurvive
CHECK_DEADLOCK FALSE
