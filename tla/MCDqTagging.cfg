SPECIFICATION Spec
CONSTANTS
  Null = Null
  Id = {"id"}
  Title = {"clean", "control"}
  Wiki = {"wiki"}
  Type = {"edit", "new", "bogus"}
  Time <- MCTime
  Length = {0, 7}
  ControlTitle = {"control"}
  ValidType = {"edit", "new"}
  New = "new"
  DayLength = 2
  ClockSkew = 1
  LatencyLimit = 1
  MaxNow = 2
CHECK_DEADLOCK FALSE
INVARIANTS
  RejectedIffHopeless
PROPERTIES
  AcceptedForGood
