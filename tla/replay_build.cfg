CONSTANTS
  Builders = {b1}
  Calls = {c1, c2, c3, c4}
  MaxCalls = 3
  Cap = 2
  MaxJobs = 2
  None = None
SPECIFICATION FairSpec
INVARIANTS
  StoreTellsTheBuild
PROPERTIES
  BuildsEnd
CHECK_DEADLOCK FALSE
