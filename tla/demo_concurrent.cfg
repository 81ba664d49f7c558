CONSTANTS
  Handlers = {h1, h2}
  MaxSpeech = 2
  Decisions <- MCDecisions
  Answers <- MCAnswers
  None = None
  RefusalPolicy = "end"
SPECIFICATION Spec
SYMMETRY MCSymmetry
INVARIANTS
  TypeOK
  TranscriptSound
  RowIsPrefix
  BeliefIsLastCommit
PROPERTIES
  OnlyParentUnblocks
  ImplementsTurnLog
CHECK_DEADLOCK FALSE
