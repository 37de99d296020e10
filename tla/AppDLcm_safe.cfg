CONSTANTS
  Procs = {p1, p2, p3}
  Apps = {a1, a2}
  AppNames = {x1, x2}
  Domains = {d1}
  Faults = {"write", "delete", "stuck"}
  Overlaps = {}
  NoConfig = NoConfig
  NoJob = NoJob
  NoReq = NoReq
SPECIFICATION Spec
SYMMETRY Perms
INVARIANTS TypeOK DomainsApart HoldsOwnJob
