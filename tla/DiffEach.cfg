SPECIFICATION Spec
CONSTANTS
  p = p
  q = q
  Paths <- MCPaths
  Quoted <- MCQuoted
  Elsewhere = Elsewhere
  NoPath = NoPath
  SpeltNo = 7
  Texts <- MCTexts
  MaxLines = 9
  MaxNo = 2
INVARIANT OneForEach
CHECK_DEADLOCK FALSE
