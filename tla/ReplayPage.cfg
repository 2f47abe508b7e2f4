SPECIFICATION Spec
CONSTANTS
  spaced = spaced
  together = together
  Recordings = {spaced, together}
  NoRecording = NoRecording
  At <- MCAt
  Duration <- MCDuration
  Speeds = {2, 4}
  NormalSpeed = 4
  MaxSelects = 1
  MaxOperations = 4
  MaxOthers = 1
  MaxFailures = 1
CHECK_DEADLOCK FALSE
INVARIANTS
  DeliveredAsScheduled
  PositionIsPlayTime
  JournaledOnceInOrder
  CompleteAtLastFrame
PROPERTY PolledPlaybackEnds
