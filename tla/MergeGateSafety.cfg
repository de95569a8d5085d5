SPECIFICATION Spec
CHECK_DEADLOCK FALSE
CONSTANTS
  PRs = {p1, p2}
  Contexts = {lib, app}
  Apps = {app}
  LibLane = lib
  guard = guard
  test = test
  doc = doc
  v1 = v1
  v2 = v2
  Files <- MCFiles
  Contents = {v1, v2}
  Guard = guard
  GuardTest = test
  ProtectedIn <- MCProtectedIn
  CallsGuard = {v1}
  Gone = Gone
  MaxCommits = 2
SYMMETRY MCSymmetry
INVARIANTS
  MainMatchesBaseline
PROPERTIES
  TamperEvident
  MergedWhatWasChecked
