CONSTANTS
  N = 3
  ExtraInits = {0, 1}
  Vector = {1, 2}
  Reset = TRUE
SPECIFICATION FairSpec
INVARIANTS TypeOK GuestAfterAppMain StartsAtAcceptedVector InterceptionHolds ShutdownTogether NoApForgottenByDefault
PROPERTIES BootCompletes SipiStartsAp
\* A machine all of whose CPUs are past the shutdown barrier reboots.
CHECK_DEADLOCK FALSE
