CONSTANTS
  Procs = {p1, p2}
  Apps = {a1, a2}
  AppNames = {x1, x2}
  Domains = {d1}
  Faults = {}
  Overlaps = {"scan"}
  NoConfig = NoConfig
  NoJob = NoJob
  NoReq = NoReq
SPECIFICATION Spec
INVARIANT DomainsApart
