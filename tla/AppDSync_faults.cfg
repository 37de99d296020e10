CONSTANTS
  NDns = 1
  NTrf = 1
  Names = {n1, f1}
  Vals = {v1}
  InStates = {"ACTIVE", "INACTIVE"}
  Foreign = {f1}
  DnsType = "all"
  Faults = {"call", "lost", "undo", "load", "record", "unrecord", "config", "clean", "crash"}
  Edits = {"rename", "inactive"}
  NoRule = NoRule
  NoConfig = NoConfig
  NoJob = NoJob
  NoStatus = NoStatus
  NoName = NoName
  NoAddr = NoAddr
  ForeignAddr = ForeignAddr
SPECIFICATION FairSpec
INVARIANT RunningIsLocked
PROPERTIES VerdictIsFinal TaskEnds
CHECK_DEADLOCK FALSE
