SPECIFICATION Spec
CONSTANTS
  MaxFrames = 2
  MaxSends = 1
  MaxFaults = 1
INVARIANT FaultStaysPublished
