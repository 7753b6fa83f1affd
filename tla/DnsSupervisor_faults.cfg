SPECIFICATION FairSupSpec
CONSTANTS
  MaxTcpErrors = 2
  MaxUdpErrors = 2
  MaxForeign = 4
INVARIANTS SupervisorInv
PROPERTIES UdpOutlivesTcp RegainsPort
CHECK_DEADLOCK FALSE
