SPECIFICATION FairSpec
CONSTANTS
  consumer = consumer
  script = script
  c1 = c1
  c2 = c2
  r1 = r1
  Handler = {consumer, script}
  Thread = {c1, c2, r1}
  Writer = {c1, c2}
  HandlerOf <- MCHandlerOf
  Path = {"p1", "p2"}
  PathOf <- MCPathOf
  NoClient = NoClient
  Key = {"root", "cloud"}
  NoKey = "none"
  Setup <- MCSetup
  Accepts <- MCAccepts
  Faults = {"unreachable", "wipe", "restart"}
  MaxFaults = 2
CHECK_DEADLOCK FALSE
INVARIANTS
  TypeOK
  StaleOnlyIfOutlived
  OnlyGrantedCloudBuckets
  RaceLossesBounded
PROPERTIES
  StoresObjects
  WritesGetThrough
