SPECIFICATION FairSpec
CONSTANTS
  Hosts = {h1}
  Backends = {b1, b2}
  Malformed = {b2}
  NoRoute = NoRoute
  Slots = {q1, q2}
  Kinds = {"http", "websocket"}
  MaxReplace = 2
  MaxFaults = 1
INVARIANT ProxyInv
PROPERTIES DrainEnds HttpAnswered
CHECK_DEADLOCK FALSE
