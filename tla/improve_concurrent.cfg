CONSTANTS
  Handlers = {h1, h2}
  Changes <- MCChanges
  RoundDims <- MCRoundDims
  Results <- MCTwoResults
  Surfaces = {}
  Permits = 1
  MaxRuns = 2
  MaxDepth = 1
  Faults = {"store", "crash"}
  None = None
SPECIFICATION Spec
SYMMETRY MCSymmetry
INVARIANTS
  PermitsAccounted
  ApprovedIsRecorded
PROPERTIES
  ImplementsRegister
