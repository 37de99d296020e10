SPECIFICATION Spec
CONSTANTS
  Instances = {i1}
  Uris = {u1}
  Names <- MCNames
  Bodies <- MCBodies
  Requests = {r1, r2}
  ServicesMaxCount = 1
  ServiceFaults = {"store", "gateway"}
  MaxFaults = 1
  MaxAstray = 1
  NoInstance = NoInstance
  NoName = NoName
  Alternative = Alternative
INVARIANTS
  TypeOK
  DiscoveredReachable
  GatewayMatches
  LimitNearlyHolds
PROPERTIES
  LateIsSuspended
