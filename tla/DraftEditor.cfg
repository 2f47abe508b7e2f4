SPECIFICATION FairSpec
CONSTANTS
  Items = {"frame1", "frame2"}
  MaxSerial = 4
  MaxOpens = 1
  MaxMalformed = 1
  MaxTicks = 1
  MaxClicks = 1
INVARIANTS
  TypeOK
  HistoryIsThisDraftsEdits
PROPERTIES
  ModifiedNeedsConsent
  DraftIsValidated
CHECK_DEADLOCK FALSE
