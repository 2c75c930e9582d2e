CONSTANTS
  N = 3
  Failing = {}
  MaxDeviceNmi = 1
SPECIFICATION Spec
INVARIANTS TypeOK RunsAlone StoppedHoldsNothing NoStaleTlbRuns
