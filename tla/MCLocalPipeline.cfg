SPECIFICATION Spec
CONSTANTS
  key1 = key1
  key2 = key2
  Root = minioadmin
  AwsKey = {key1, key2}
  KeyFile = credentials
  Key = {minioadmin, key1, key2, credentials}
  NoKey = empty
  NotYet = NotYet
  MaxAccounts = 2
  MaxFaults = 1
SYMMETRY SymmetricKeys
CHECK_DEADLOCK FALSE
INVARIANTS
  TypeOK
  NameMatchesService
  CloudKeyIsLive
  FreshStart
PROPERTIES
  ReadsWhatIsWritten
  OnlyTwinsAreConfused
