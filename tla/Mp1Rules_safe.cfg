CONSTANTS
  NDns = 1
  NTrf = 1
  Names = {n1}
  Vals = {v1, v2}
  InStates = {""}
  Foreign = {}
  DnsType = "all"
  Faults = {"call", "undo"}
  Edits = {}
  NoRule = NoRule
  NoConfig = NoConfig
  NoJob = NoJob
  NoStatus = NoStatus
  NoName = NoName
  NoAddr = NoAddr
  ForeignAddr = ForeignAddr
  Clients = {u1}
  Mp1States = {"", "ACTIVE", "INACTIVE"}
  StoreFaults = TRUE
  NoUpdate = NoUpdate
SPECIFICATION Mp1Spec
INVARIANTS Mp1TypeOK ConsistentWhenQuiet
PROPERTIES UpdateIsAtomic TasksNormalise
SYMMETRY ValSymmetry
CHECK_DEADLOCK FALSE
