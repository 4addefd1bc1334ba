SPECIFICATION FairSpec
CONSTANTS
  Serial = TRUE
  MaxBlocks = 2
  MaxTasks = 6
  MaxGens = 2
INVARIANTS TypeOK SafeWhileWaiting DialogMeansDownload FileIsPrefix
PROPERTY DialogsGo
CHECK_DEADLOCK FALSE
