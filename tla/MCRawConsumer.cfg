\* Every failure once: a poison event, a failing write, a kill, a lost
\* acknowledgement and a redundant delivery.
SPECIFICATION Spec
CONSTANTS
  m1 = m1
  m2 = m2
  m3 = m3
  w1 = w1
  w2 = w2
  Message = {m1, m2, m3}
  EventId = {"e1", "e2"}
  Partition = {"p1", "p2"}
  NoPartition = "none"
  IdOf <- MCIdOf
  PartOf <- MCPartOf
  Worker = {w1, w2}
  Flusher = Flusher
  Main = Main
  NoMessage = NoMessage
  FlushSize = 2
  FlushTicks = 1
  MaxRuns = 2
  Faults = {"kill", "failedWrite", "lostAck", "redelivery"}
  MaxFaults = 1
  MaxDeliveries = 4
SYMMETRY WorkerSymmetry
CHECK_DEADLOCK FALSE
INVARIANTS
  TypeOK
  NoSilentLoss
  FinalFlushKeepsAcked
  NoEventCopied
  BufferOverrunBounded
PROPERTIES
  DeliversAtLeastOnce
