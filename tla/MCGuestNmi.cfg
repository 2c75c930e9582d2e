CONSTANTS
  Lapics = {TRUE, FALSE}
  MaxVisited = 3
SPECIFICATION FairSpec
INVARIANTS TypeOK OnlyLapicHalts WindowArmed
PROPERTIES ImplementsVirtualNmi OnlyIretUnblocks NmiReachesGuest
\* An assertion that fires halts the CPU.
CHECK_DEADLOCK FALSE
