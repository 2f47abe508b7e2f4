SPECIFICATION Spec
CONSTANTS
  MaxFrames = 1
  MaxSends = 0
  MaxFaults = 1
INVARIANT HardwareReleasedOnce
