SPECIFICATION Spec
CONSTANTS
  MaxFrames = 1
  MaxSends = 1
  MaxFaults = 1
INVARIANT RadioHasReceiver
