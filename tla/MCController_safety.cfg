SPECIFICATION Spec
CONSTANTS
  a1 = a1
  a2 = a2
  x1 = x1
  x2 = x2
  h1 = h1
  q1 = q1
  q2 = q2
  Agents <- TwoAgents
  Hosts <- OneHost
  Addrs <- OneAddrEach
  NodeOf <- NodeOfBoth
  Reqs <- TwoReqs
  Cleaner = Cleaner
  NoAgent = NoAgent
  NoAddr = NoAddr
  NoRow = NoRow
  TTL = 1
  MaxTime = 2
  Horizon = 2
  MaxCrashes = 1
SYMMETRY Symmetry
INVARIANT ControllerInv
PROPERTIES OwnershipSpec LiveOwnerKept RevokedLeaseFrozen RevokedStaysOut
