CONSTANTS
  None = None
  Personas <- MCPersonas
  Qualified <- MCQualified
  Deltas <- MCDeltas
  Moves <- MCMoves
  Clients = {c1}
  MaxTurns = 4
  QueueMax = 9
SPECIFICATION Spec
INVARIANTS
  TypeOK
  CommitmentsAreEarned
  EpisodeTellsTheCall
  NudgesFindTheRow
PROPERTIES
  EverythingEnds
CHECK_DEADLOCK FALSE
