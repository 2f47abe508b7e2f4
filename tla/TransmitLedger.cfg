SPECIFICATION Spec
CONSTANTS
  Callers = {c1, c2}
  Ids = {id1, id2, id3}
  Frames = {f1, f2}
  Provenances = {p1}
  Capacity = 2
  MaxCalls = 4
  MaxRestarts = 1
CHECK_DEADLOCK FALSE
INVARIANTS
  TypeOK
  OneTransmissionPerId
  ReplayIsTheFirstResult
  MarksAreCallsUnderWay
  TransmissionsAreRemembered
