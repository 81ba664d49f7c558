CONSTANTS
  Calls = {"c1", "c2"}
  Phones = {"p"}
  Slots = {"grade_level", "subject"}
  PhoneOf <- MCPhoneOf
  Tells <- MCTells
  Acts <- MCActs
  Lifecycles = {"unreviewed", "reviewed"}
  MaxSessions = 2
  MaxTurns = 1
  Stale = 0
  None = None
SPECIFICATION Spec
INVARIANTS
  LeadsRemember
PROPERTIES
  FinishedStands
  StoppedCallsLeave
CHECK_DEADLOCK FALSE
