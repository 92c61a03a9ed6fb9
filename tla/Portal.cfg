SPECIFICATION Spec
CONSTANTS
  None = None
  MaxCalls = 2
  Resource = {"d", "p"}
  Kind <- Types
  MaxHomeClicks = 3
  Pages <- History
  DefaultWindow = 7
  MaxRunClicks = 4
  Pipeline = {"p"}
  WatchedTable = {"tt"}
  Amount = {0, 1, 36}
  MaxChecks = 2
  MaxCheckClicks = 2
  PipelineName = {"p"}
  Hour = {22, 7}
  Absent = Absent
  MaxNotifClicks = 4
  Word = {"w"}
  NoText = ""
  MaxRuns = 2
  MaxTableClicks = 2
  MaxBoards = 2
  BoardContent <- Embedded
  MaxBoardClicks = 3
  BiConn = {"b", "u"}
  Fallback = "b"
  MaxFormClicks = 4
  FilterTarget = {"c"}
  Value = {"v"}
  Grant = {"self", "role"}
  MaxRows = 2
  MaxEmbedClicks = 2
  MaxClock = 1
  MaxSecrets = 3
  MaxAuthClicks = 2
  Detail = {"d", "e"}
  Password = {"p", "q", "w"}
  Weak = {"w"}
  MaxImages = 2
  MaxProfileClicks = 2
INVARIANTS
  ListsMatch NoRunLost SettingsRestorable SavedCoherent RowsFiltered OneRefresh EnrolledAppWorks
  MfaStopsRedirecting OneSignOut NothingHangs
PROPERTIES EditsKeepTheRest
CHECK_DEADLOCK FALSE
