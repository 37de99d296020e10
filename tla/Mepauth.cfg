SPECIFICATION Spec
CONSTANTS
  Apps = {a0, a1}
  InitApp = a0
  Aks = {k1}
  InitAk = k1
  Ids <- MCIds
  NGateway = 2
  StartFaults = {"write", "torn", "gateway", "db", "crash"}
  MaxFaults = 2
  Missing = Missing
  Torn = Torn
  NoKey = NoKey
  NoRecord = NoRecord
  Requests = {r1, r2}
  ValidationCounter = 3
  MaxStray = 1
  NoEntry = NoEntry
INVARIANTS
  TypeOK
  SecretsReadable
  ServesBehindGateway
  NoInternalError
PROPERTIES
  BlockHolds
  BlockEnds
  GetsUp
  CertPwdKept
