SPECIFICATION Spec
CONSTANTS
  MaxTabs = 2
  Reloads = TRUE
  Serial = TRUE
  MaxLoads = 4
  MaxVersions = 1
  MaxGens = 1
INVARIANT LoadingMeansLoading
CHECK_DEADLOCK FALSE
