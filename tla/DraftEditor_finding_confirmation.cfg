SPECIFICATION Spec
CONSTANTS
  Items = {"frame1", "frame2"}
  MaxSerial = 2
  MaxOpens = 1
  MaxMalformed = 0
  MaxTicks = 1
  MaxClicks = 2
INVARIANT OneSendPerConfirmation
CHECK_DEADLOCK FALSE
