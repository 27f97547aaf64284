SPECIFICATION FairSpec
CONSTANTS
  a1 = a1
  a2 = a2
  b1 = b1
  b2 = b2
  c1 = c1
  Null = Null
  Id = {"a", "b", "c"}
  Title = {"clean", "control"}
  Wiki = {"wiki"}
  Type = {"edit", "new"}
  Time <- MCTime
  Length = {0}
  ControlTitle = {"control"}
  ValidType = {"edit", "new"}
  New = "new"
  DayLength = 10
  ClockSkew = 1
  LatencyLimit = 3
  BronzeRow = {a1, a2, b1, b2, c1}
  Content <- MCContent
  Delay = 2
  MaxNow = 1
  MaxBatches = 4
CHECK_DEADLOCK FALSE
INVARIANTS
  TypeOK
  SameIdFarApart
  DroppedForAReason
  RoutedOnce
PROPERTIES
  StagedRowsAreRouted
