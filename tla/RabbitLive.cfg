SPECIFICATION FairSpec
INVARIANT ProbeTellsApart
CONSTANTS
  a = a
  b = b
  m = m
  n = n
  Messages <- TwoMessages
  Consumers <- TwoConsumers
  Buggy <- OnlyB
  Interrupts = FALSE
  None = None
PROPERTIES
  Returns
  ProbeEnds
