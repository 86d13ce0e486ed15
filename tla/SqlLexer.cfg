SPECIFICATION Spec
CONSTANTS
  MaxStatements = 2
INVARIANTS
  TypeOK
  StripTokenizeAgree
  OnlyOddQuotesMislead
CHECK_DEADLOCK FALSE
