SPECIFICATION FairSpec
CONSTANTS
  svc = svc
  a1 = a1
  q1 = q1
  q2 = q2
  NoAddr = NoAddr
  NoEntry = NoEntry
  Names <- OneName
  Addrs <- OneAddr
  Slots <- TwoSlots
  Requests <- AskBoth
  Zones <- TwoZones
  Ttls = {2}
  ServiceTtl = 1
  PositiveCap = 1
  NegativeCap = 1
  QueryTimeout = 1
  SelfUpstream = {TRUE, FALSE}
  MaxTime = 4
  Horizon = 2
  MaxReplace = 2
INVARIANTS DnsServerInv FailureIsServfail UpstreamAnswersFresh UnregisteredNotLooped
PROPERTY EveryRequestAnswered
CHECK_DEADLOCK FALSE
