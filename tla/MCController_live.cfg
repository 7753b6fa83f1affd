SPECIFICATION FairSpec
CONSTANTS
  a1 = a1
  a2 = a2
  x1 = x1
  x2 = x2
  h1 = h1
  q1 = q1
  q2 = q2
  Agents <- OneAgent
  Hosts <- OneHost
  Addrs <- AgentOneAddrs
  NodeOf <- NodeOfOne
  Reqs <- TwoReqs
  Cleaner = Cleaner
  NoAgent = NoAgent
  NoAddr = NoAddr
  NoRow = NoRow
  TTL = 1
  MaxTime = 3
  Horizon = 1
  MaxCrashes = 1
PROPERTIES RevokedLeavesDns RevokedReleasesHosts RegistryConverges
