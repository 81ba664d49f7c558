CONSTANTS
  Handlers = {h1}
  MaxSpeech = 2
  Decisions <- MCDecisions
  Answers <- MCAnswers
  None = None
  RefusalPolicy = "proceed_unrecorded"
SPECIFICATION Spec
PROPERTIES
  BookingSurvives
CHECK_DEADLOCK FALSE
