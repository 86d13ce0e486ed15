SPECIFICATION Spec
CONSTANTS
  Tables = {"users", "orders"}
  Columns = {"id", "total"}
  ColumnOrder <- MCColumnOrder
  Schemas <- MCSchemas
  Listing <- MCListing
  Queries <- MCQueries
  NoTable = NoTable
  NoColumn = NoColumn
  NoEntry = NoEntry
  Absent = Absent
  MaxResults = 3
  MaxChanges = 2
INVARIANTS
  TypeOK
  Complete
  Sound
  FoundIsFetched
CHECK_DEADLOCK FALSE
