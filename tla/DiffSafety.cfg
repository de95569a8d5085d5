SPECIFICATION Spec
CONSTANTS
  p = p
  q = q
  Paths <- MCPaths
  Quoted <- MCQuoted
  Elsewhere = Elsewhere
  NoPath = NoPath
  SpeltNo = 7
  Texts <- MCTexts
  MaxLines = 10
  MaxNo = 3
INVARIANTS
  StagedYieldsOnce
  StagedPlaces
  AuditCollects
  AuditPlaces
CONSTRAINT TwoOdd
CHECK_DEADLOCK FALSE
