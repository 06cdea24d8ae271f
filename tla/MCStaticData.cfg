CONSTANTS
  Configs <- MCConfigs
  LoadFailures = TRUE
SPECIFICATION Spec
CHECK_DEADLOCK FALSE
INVARIANTS TypeOK WeightsAligned LimitsInBounds
