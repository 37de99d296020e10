CONSTANTS
  Procs = {p1, p2}
  Apps = {a1}
  AppNames = {x1}
  Domains = {d1}
  Faults = {"read", "write"}
  Overlaps = {"same", "scan"}
  NoConfig = NoConfig
  NoJob = NoJob
  NoReq = NoReq
SPECIFICATION FairSpec
INVARIANTS OneTaskPerApp BaseIsCurrent
PROPERTIES RequestEnds LocksEnd
