SPECIFICATION FairSpec
CONSTANTS
  h1 = h1
  x1 = x1
  r1 = r1
  Self = Self
  NoAgent = NoAgent
  Rivals <- OneRival
  Hosts <- BothHosts
  Allowed <- PolicyHosts
  TTL = 4
  Heartbeat = 2
  Periodic = 1
  Cleanup = 1
  MaxReconnect = 2
  MaxBackoff = 1
  MaxBusy = 1
  MaxChanges = 1
  MaxFaults = 2
INVARIANTS FleetInv RenewalBounded
PROPERTIES FleetOwnership HealthyOwnerKept Settles
CHECK_DEADLOCK TRUE
