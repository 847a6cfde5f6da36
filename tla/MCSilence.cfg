SPECIFICATION Spec
CONSTANTS
  Configs <- Several
  MaxSamples = 9
INVARIANTS
  IntervalsAreSilences
CHECK_DEADLOCK FALSE
