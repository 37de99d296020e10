CONSTANTS
  NDns = 2
  NTrf = 0
  Names = {n1, n2}
  Vals = {v1, v2}
  InStates = {"", "INACTIVE"}
  Foreign = {}
  DnsType = "local"
  Faults = {"call"}
  Edits = {}
  NoRule = NoRule
  NoConfig = NoConfig
  NoJob = NoJob
  NoStatus = NoStatus
  NoName = NoName
  NoAddr = NoAddr
  ForeignAddr = ForeignAddr
SPECIFICATION FairSpec
INVARIANT FailureLeavesNothing
PROPERTY LockReleased
CHECK_DEADLOCK FALSE
