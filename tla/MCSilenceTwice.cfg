SPECIFICATION Spec
CONSTANTS
  Configs <- Mono
  MaxSamples = 9
INVARIANT ReportedOnce
CHECK_DEADLOCK FALSE
