SPECIFICATION Spec
CONSTANTS
  Tables = {t1}
  Requests = {r1, r2}
  NoTable = NoTable
  MaxVersion = 1
INVARIANTS
  DDLInvalidatesCache
