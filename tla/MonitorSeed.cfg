SPECIFICATION Spec
CONSTANTS
  PathCount = 1
  Resources = {}
  v = v
  w = w
  Hashes = {v, w}
  Valid = {v}
  None = None
  Tasks = {t1, t2}
  Completed <- CompletedAsV
  Watch = {TRUE}
  MaxEdits = 1
  MaxCrashes = 1
  MaxUpdates = 0
  MaxFaults = 0
SYMMETRY Symmetric
INVARIANTS SeedReviewed
CHECK_DEADLOCK FALSE
