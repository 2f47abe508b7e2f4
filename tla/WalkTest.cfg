SPECIFICATION FairSpec
CONSTANTS
  Modulus = 8
  Slots = 2
  MaxBursts = 2
  MaxBeacons = 3
  MaxFaults = 1
INVARIANTS
  WindowIsTrue
  UplinkIsCounted
  LedFailureFailsRun
PROPERTIES
  NoPulseAfterClose
  CommandEnds
CHECK_DEADLOCK FALSE
