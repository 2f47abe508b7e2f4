SPECIFICATION Spec
CONSTANTS
  MaxFrames = 2
  MaxSends = 1
  MaxFaults = 0
INVARIANT SequenceNumbersDistinct
