CONSTANTS
  N = 2
  Failing = {0}
SPECIFICATION EptFairSpec
PROPERTY WriterProgress
CHECK_DEADLOCK FALSE
