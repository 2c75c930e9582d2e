CONSTANTS
  N = 2
  Failing = {}
  MaxDeviceNmi = 2
SPECIFICATION FairSpec
INVARIANT NmiAccounted
PROPERTIES QuiesceCompletes StoppedResumes
