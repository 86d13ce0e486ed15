SPECIFICATION Spec
CONSTANTS
  MaxStatements = 2
INVARIANTS
  CommentsStayComments
CHECK_DEADLOCK FALSE
