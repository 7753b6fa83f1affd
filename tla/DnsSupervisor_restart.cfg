SPECIFICATION FairSupSpec
CONSTANTS
  MaxTcpErrors = 1
  MaxUdpErrors = 0
  MaxForeign = 0
PROPERTY SelfRestarts
CHECK_DEADLOCK FALSE
