SPECIFICATION FairSpec
CONSTANTS
  Tables = {t1, t2}
  Requests = {r1, r2}
  NoTable = NoTable
  MaxVersion = 1
INVARIANTS
  TypeOK
  FreshUnlessOverlapped
  StalenessExplained
PROPERTIES
  WindowCloses
