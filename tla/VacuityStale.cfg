SPECIFICATION Spec
CHECK_DEADLOCK FALSE
CONSTANTS
  Harnesses <- MCHarnesses
  Rosters <- Stale
  Symbols = {"oracle", "buggy", "renamed"}
  Targets <- MCTargets
  Defined <- MCDefined
  Asserts <- MCAsserts
  Hangs <- MCHangs
INVARIANTS
  TeethMeansRed
