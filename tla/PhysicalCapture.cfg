SPECIFICATION Spec
CONSTANTS
  MaxFrames = 2
  MaxSends = 2
  MaxFaults = 1
INVARIANTS
  TypeOK
  ReceiveModeRestored
  TransmitUndisturbed
  CapturedOnceInOrder
  NothingSkipped
  HardwareOutlivesReceiver
  StateMatchesReceiver
  SentWasFinished
PROPERTIES
  ReadyIsServed
  TransmitAnswered
  ShutdownCompletes
  CaptureLogSpec
