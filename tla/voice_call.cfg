CONSTANTS
  MaxSpeech = 2
  Decisions <- MCDecisions
  None = None
  RefusalPolicy = "proceed_unrecorded"
SPECIFICATION FairSpec
INVARIANTS
  TypeOK
  BeliefCoversHistory
  EscalationsReachReview
  OutcomeTellsTheCall
PROPERTIES
  CommitNeedsConsent
  ImplementsTurnLog
  ShutdownEnds
CHECK_DEADLOCK FALSE
