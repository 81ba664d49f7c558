CONSTANTS
  Slots = {"grade_level", "budget", "who_for"}
  Threshold <- MCThreshold
  None = None
  Discovery <- MCDiscovery
  PriceTopics = {"price", "number"}
  TerseTopics = {"number"}
  Settings <- MCSelfPlay
SPECIFICATION Spec
INVARIANTS
  LowConfidenceIsARun
CHECK_DEADLOCK FALSE
