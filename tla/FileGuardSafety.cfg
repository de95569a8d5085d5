SPECIFICATION Spec
CHECK_DEADLOCK FALSE
CONSTANTS
  guard = guard
  scanner = scanner
  v1 = v1
  v2 = v2
  Files <- MCFiles
  Guard = guard
  Contents = {v1, v2}
  ProtectedIn <- MCProtectedIn
  Rank <- MCRank
  Budget = 2
  Absent = Absent
  Unreadable = Unreadable
  Unstatable = Unstatable
  Missing = Missing
  Corrupt = Corrupt
  Hidden = Hidden
INVARIANTS
  TypeOK
  NoFalseClean
  NoFalseDrift
  SnapshotFaithful
  RoundTrip
