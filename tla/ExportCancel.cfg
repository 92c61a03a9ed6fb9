SPECIFICATION Spec
CONSTANTS
  NoReport = NoReport
  Worker = {w1}
  Report = {r1}
  Scheduled = {}
  Request = {q1}
  MaxJobs = 1
  MaxCrashes = 0
  ClaimLimit = 1
  UseRedis = FALSE
  May = {"cancel"}
INVARIANTS CancelledHasNoResult
