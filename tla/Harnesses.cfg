SPECIFICATION MCSpec
CHECK_DEADLOCK FALSE
CONSTANTS
  Code <- MCCode
  Period = 2
  Ttl = 1
  Window = 1
  Ids <- MCIds
  Whos <- MCWhos
  Times = {1, 2, 3, 4}
  MaxHeld = 2
  MaxGranted = 2
  FailLimit = 3
  Data = {d1, d2}
  MaxTasks = 8
  MaxResets = 3
  MaxEntries = 4
  Values = {v1, v2}
  Wide = {v2}
  MaxTests = 2
  MaxWrites = 3
  MaxTtl = 2
  MaxHits = 1
  Emails <- MCEmails
  Versions = {1, 2}
  MaxBlocks = 3
  MaxLetters = 5
INVARIANTS
  TypeOK
  AcceptsExactlyTheFit
  Isolation
  LoopsStop
  TamperShows
  FreshStart
  OracleServes
  ReadsArePrefixes
  KitHasTeeth
  PoliciesMeetTheirPurpose
PROPERTIES
  OnceOnly
