CONSTANTS
  Slots = {"grade_level", "budget", "who_for"}
  Threshold <- MCThreshold
  None = None
  Discovery <- MCDiscovery
  PriceTopics = {"price", "number"}
  TerseTopics = {"number"}
  Settings <- MCSettings
SPECIFICATION Spec
INVARIANTS
  TypeOK
  ClosesAreEarned
  LoopsAreBroken
  HandOffsAreWarranted
  ReaskedIsAnswered
  PressureIsBounded
  DiscoveryDoesNotNag
  LearnerIsNotPresumed
CHECK_DEADLOCK FALSE
