CONSTANTS
  Handlers = {h1}
  Changes <- MCChanges
  RoundDims <- MCRoundDims
  Results <- MCResults
  Surfaces = {"draft"}
  Permits = 1
  MaxRuns = 1
  MaxDepth = 2
  Faults = {"disk", "crash"}
  None = None
SPECIFICATION Spec
PROPERTIES
  ChampionsAreEarned
  SettledIsFinal
