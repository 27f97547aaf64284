\* No fault at all: the producer sent two events with one id.
SPECIFICATION Spec
CONSTANTS
  m1 = m1
  m2 = m2
  m3 = m3
  w1 = w1
  w2 = w2
  Message = {m1, m2, m3}
  EventId = {"e1", "e2"}
  Partition = {"p1", "p2"}
  NoPartition = "none"
  IdOf <- MCIdOf
  PartOf <- MCPartOfSound
  Worker = {w1, w2}
  Flusher = Flusher
  Main = Main
  NoMessage = NoMessage
  FlushSize = 2
  FlushTicks = 1
  MaxRuns = 1
  Faults = {}
  MaxFaults = 0
  MaxDeliveries = 3
CHECK_DEADLOCK FALSE
INVARIANTS
  NoDuplicateIdInRaw
