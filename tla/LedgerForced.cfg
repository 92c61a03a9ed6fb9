SPECIFICATION Spec
CONSTANTS
  Null = Null
  Slug = {s1}
  Value = {v1, v2}
  Request = {q1}
  MaxRows = 2
  MaxEntries = 3
  MaxRuns = 1
  Parents = {}
  May = {"force", "piecemeal", "share", "reports", "age"}
INVARIANTS LedgerIsCurrent UndoneOnce LedgerInv
