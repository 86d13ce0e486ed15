SPECIFICATION TimerSpec
CONSTANTS
  Calls = {c1, c2}
  Conns = {k1, k2}
  NoConn = NoConn
  MaxAffectedRows = 1
  MaxScriptAffectedRows = 2
  MaxScriptStatements = 3
  RowBound = 2
  ScopedSchemas = TRUE
  MayFail = TRUE
INVARIANTS
  TypeOK
  IdleConnsClean
  CommittedWithinLimit
  PoolDiscipline
PROPERTIES
  AtomicWrites
  EveryCallAnswered
CHECK_DEADLOCK FALSE
