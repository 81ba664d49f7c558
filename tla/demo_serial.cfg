CONSTANTS
  Handlers = {h1}
  MaxSpeech = 3
  Decisions <- AllDecisions
  Answers <- Answer
  None = None
  RefusalPolicy = "proceed_unrecorded"
SPECIFICATION Spec
INVARIANTS
  BeliefCoversHistory
  EndTellsTheCall
PROPERTIES
  FinalRowStands
CHECK_DEADLOCK FALSE
