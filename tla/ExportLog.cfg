SPECIFICATION FairSpec
CONSTANTS
  NoReport = NoReport
  Worker = {w1, w2}
  Report = {r1}
  Scheduled = {r1}
  Request = {q1}
  MaxJobs = 2
  MaxCrashes = 1
  ClaimLimit = 1
  UseRedis = TRUE
  May = {}
INVARIANTS OneRunPerJob NoOrphanFile
PROPERTIES OutcomeIsFinal ImplementsRunLog EveryRunSettles EveryRunIsPurged
