SPECIFICATION Spec
CONSTANTS
  None = None
  MaxCalls = 2
  Warehouse = {"w1", "w2"}
  Table = {1, 2}
  MaxTreeClicks = 3
  Text = {"t"}
  MaxRowClicks = 3
  Empty = Empty
  Query = {"q"}
  MaxDialogClicks = 3
  Email = {"e"}
  MaxInvites = 2
  MaxTokens = 3
  MaxInviteClicks = 2
  Role = {"admin", "viewer"}
  MaxAccounts = 2
  PageSize = 1
  MaxUserClicks = 3
  Permission = {"view", "manage"}
  MaxRoles = 3
  MaxRoleClicks = 4
  Shared = {"w1", "w2"}
  Reader = {"r1", "r2"}
  Member = {"u"}
  MaxShareClicks = 4
  Provider = {"p"}
  Public = {}
  Setting = {"s", "t"}
  MaxConns = 2
  MaxConnClicks = 4
  PipeProvider = {"p"}
  PipeSetting = {"s"}
  MaxPipes = 2
  MaxPipeClicks = 3
  MaxWarehouses = 3
  MaxWhClicks = 2
  Webhook = {"h"}
  Blank = ""
  Person = {"e"}
  MaxGroups = 2
  MaxGroupClicks = 4
  LinkTarget = {"d", "x", "o"}
  OddTarget = {"o"}
  At <- Places
  Sections = {"dashboards"}
  Listed = {"dashboards"}
  Viewer <- Visitors
  ItemLimit = 1
  EntryLimit = 1
  FirstNavs <- Navigations
  MaxItems = 2
  MaxEntries = 2
  MaxNavClicks = 3
  PageText = {"a", "b"}
  PageTitle = {"t", "u"}
  PageTag = {"g"}
  MaxVersions = 3
  MaxPageClicks = 3
  AuditLog <- Audit
  AuditPageSize = 1
  MaxAuditClicks = 2
  FirstChanges <- Changes
  MaxChangeClicks = 3
  Trigger = {"t", "u"}
  AllOf = "all"
  FirstDeliveries <- Attempts
  MaxDeliveries = 3
  MaxDeliveryClicks = 2
INVARIANTS ListsMatch OneAccount RevisionsKept NoHalfRevert NavigationWorks NothingHangs
PROPERTIES EditsKeepTheRest
CHECK_DEADLOCK FALSE
