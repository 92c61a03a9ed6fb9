SPECIFICATION MCSpec
CONSTANTS
  None = None
  MaxCalls = 3
  ReportBody = {"a", "b"}
  MaxReports = 2
  MaxJobs = 2
  MaxFails = 1
  MaxReportClicks = 1
INVARIANTS ReportsMatch
PROPERTIES RunFollowed
CHECK_DEADLOCK FALSE
