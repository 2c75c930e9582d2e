CONSTANTS
  N = 2
  ExtraInits = {1}
  Vector = {1}
  Reset = FALSE
SPECIFICATION Spec
INVARIANTS NoApForgotten
\* A machine all of whose CPUs are past the shutdown barrier reboots.
CHECK_DEADLOCK FALSE
