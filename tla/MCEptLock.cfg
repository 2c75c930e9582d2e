CONSTANTS
  N = 3
  Failing = {1}
SPECIFICATION EptFairSpec
INVARIANTS EptTypeOK EptExclusion EptNeverHalts EptInductive
PROPERTIES ImplementsRwLock WriterGetsLock
\* A reader that left by its error return stops every later writer for good.
CHECK_DEADLOCK FALSE
