CONSTANTS
  NDns = 2
  NTrf = 1
  Names = {n1, n2, f1}
  Vals = {v1}
  InStates = {"ACTIVE", "INACTIVE"}
  Foreign = {f1}
  DnsType = "all"
  Faults = {"call", "undo", "load", "unrecord", "clean", "crash"}
  Edits = {}
  NoRule = NoRule
  NoConfig = NoConfig
  NoJob = NoJob
  NoStatus = NoStatus
  NoName = NoName
  NoAddr = NoAddr
  ForeignAddr = ForeignAddr
SPECIFICATION Spec
INVARIANTS TypeOK SettledWhenUnlocked ForeignUntouched
PROPERTY ImplementsAtomic
CHECK_DEADLOCK FALSE
