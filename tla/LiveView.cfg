SPECIFICATION Spec
CONSTANTS
  Retention = 2
  ChangeRetention = 2
  ReceiverViews = {"stopped", "listening"}
  Stopped = "stopped"
  MaxRevision = 3
  MaxReceiverChanges = 1
  MaxDisruptions = 1
  Restarts = TRUE
CHECK_DEADLOCK FALSE
INVARIANTS
  JournalIsNewest
  ChangesAreNewest
  NoLostWakeup
  EventsWithoutGap
PROPERTIES
  ViewNeverGoesBack
  ViewCatchesUp
