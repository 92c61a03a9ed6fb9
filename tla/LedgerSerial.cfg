SPECIFICATION Spec
CONSTANTS
  Null = Null
  Slug = {s1}
  Value = {v1}
  Request = {q1}
  MaxRows = 2
  MaxEntries = 6
  MaxRuns = 0
  Parents = {1}
  May = {}
INVARIANTS TypeOK DeletionCanBeUndone
PROPERTIES ComesBackIntact
