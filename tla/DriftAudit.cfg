SPECIFICATION Spec
CONSTANTS
  local = local
  f = f
  g = g
  h = h
  Local = local
  MaxCommits = 3
  MaxPushes = 2
  Smells <- MCSmells
  Files <- MCFiles
  Changed <- MCChanged
  Named <- MCNamed
  Trees <- MCTrees
  Options <- MCOptions
INVARIANTS
  VerdictHadACause
  ReportsAreOfTheirCommit
  OneRecordPerHead
  CommentsInOrder
  NewestIsReported
PROPERTY RecordsStay
CONSTRAINT OneSide
