SPECIFICATION FairSpec
CONSTANTS
  Keeps = {0, 2}
  ClockBack = FALSE
  MaxFaults = 5
  MaxFiles = 4
INVARIANTS BackupInv
PROPERTIES BackupsGoOn RetentionRegained
