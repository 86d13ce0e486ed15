SPECIFICATION Spec
CONSTANTS
  Providers = {p1, p2, p3}
  Clients = {c1, c2, c3}
  Files = {f1, f2, f3}
  NoFile = NoFile
  NoClient = NoClient
  Overlap = FALSE
INVARIANTS
  TypeOK
  StoreReadable
  AcknowledgedSurvive
  AcknowledgedKnown
CHECK_DEADLOCK FALSE
