SPECIFICATION FairSpec
CONSTANTS
  MaxTabs = 1
  Reloads = FALSE
  Serial = TRUE
  MaxLoads = 2
  MaxVersions = 2
  MaxGens = 2
INVARIANTS LoadingMeansLoading
PROPERTY DialogsGo
CHECK_DEADLOCK FALSE
