SPECIFICATION FairSpec
CHECK_DEADLOCK FALSE
CONSTANTS
  Harnesses <- MCHarnesses
  Rosters <- MCRosters
  Symbols = {"oracle", "buggy", "renamed"}
  Targets <- MCTargets
  Defined <- MCDefined
  Asserts <- MCAsserts
  Hangs <- MCHangs
INVARIANTS
  TeethAreReal
  PinnedNeverVacuous
  ErrorsAreReal
  ExitIsTheSum
PROPERTY GateEnds
