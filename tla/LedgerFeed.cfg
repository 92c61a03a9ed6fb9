SPECIFICATION Spec
CONSTANTS
  Null = Null
  Slug = {}
  Value = {v1}
  Request = {q1}
  MaxRows = 2
  MaxEntries = 3
  MaxRuns = 0
  Parents = {}
  May = {"age", "reports"}
INVARIANTS FeedLoads
