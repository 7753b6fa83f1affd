SPECIFICATION ResolveSpec
CONSTANTS
  Ports = {"p1", "p2"}
  HostPorts = {"h1", "h2"}
  Protocols = {"tcp"}
  Networks = {"n1", "n2"}
  Invalid = {"invalid"}
  MaxBindings = 2
INVARIANTS ResolutionInv SuggestionAgrees
CHECK_DEADLOCK FALSE
