SPECIFICATION Spec
CONSTANTS
  Null = Null
  Slug = {}
  Value = {v1}
  Request = {q1, q2}
  MaxRows = 2
  MaxEntries = 4
  MaxRuns = 0
  Parents = {}
  May = {"overlap", "reports"}
INVARIANTS UndoneOnce
