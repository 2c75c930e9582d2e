SPECIFICATION FairSpec
INVARIANTS
  TypeOK
  KnownHalts
  WindowsArmed
  L2BlockingKept
PROPERTY NmiDelivered
CHECK_DEADLOCK FALSE
