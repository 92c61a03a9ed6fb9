SPECIFICATION Spec
CONSTANTS
  NoReport = NoReport
  Worker = {w1, w2}
  Report = {r1}
  Scheduled = {r1}
  Request = {q1}
  MaxJobs = 1
  MaxCrashes = 1
  ClaimLimit = 2
  UseRedis = FALSE
  May = {"cancel", "slow_tick", "storage_fail", "leave"}
INVARIANTS TypeOK DownloadAvailable AtMostOncePerReplica
PROPERTIES PurgeTakesOnlyExpired
