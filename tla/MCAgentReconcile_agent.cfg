SPECIFICATION FairSpec
CONSTANTS
  h1 = h1
  h2 = h2
  c1 = c1
  c2 = c2
  s1 = s1
  Static = Static
  NoRoute = NoRoute
  Hosts <- TwoHosts
  Containers <- TwoContainers
  LabelHosts <- OverlappingLabels
  Services <- OneService
  StaticHosts <- StaticOne
  MaxChanges = 2
  MaxFaults = 2
INVARIANT ReconcileInv
PROPERTIES PublishesWhatItServes LocalRoutesKept Converges
CHECK_DEADLOCK TRUE
