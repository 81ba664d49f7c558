CONSTANTS
  Handlers = {h1, h2}
  Changes <- MCChanges
  RoundDims <- MCRoundDims
  Results <- MCTwoResults
  Surfaces = {}
  Permits = 1
  MaxRuns = 1
  MaxDepth = 1
  Faults = {}
  None = None
SPECIFICATION FairSpec
PROPERTIES
  EverythingSettles
