SPECIFICATION Spec
CONSTANTS
  MaxTabs = 3
  Reloads = TRUE
  Serial = TRUE
  MaxLoads = 5
  MaxVersions = 2
  MaxGens = 2
INVARIANTS TypeOK ModalWhileLoading SafeWhileWaiting RowsOpenWhatTheyShow QuietListIsCurrent
PROPERTY ListsGetNewer
CHECK_DEADLOCK FALSE
