SPECIFICATION Spec
CONSTANTS
  Kinds = {"http", "redis", "postgres", "mysql"}
  Services = {"source", "target"}
  Own <- MCOwn
  Actions = {1, 2}
  MaxAttempts = 3
  Pending = {}
  NoFile = NoFile
INVARIANTS BackupsTypeOK RegisteredComplete RestoredWhole
PROPERTIES DoneIsTrue RestorePreserves
CHECK_DEADLOCK FALSE
