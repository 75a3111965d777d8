SPECIFICATION Spec
CONSTANTS
  PathCount = 1
  Resources = {}
  v = v
  w = w
  Hashes = {v, w}
  Valid = {v}
  None = None
  Tasks = {t1, t2}
  Completed <- CompletedAsV
  Watch = {TRUE}
  MaxEdits = 1
  MaxCrashes = 0
  MaxUpdates = 0
  MaxFaults = 0
SYMMETRY Symmetric
INVARIANTS IInv ReviewedBaseline RemovalComplete
PROPERTIES OnlyReviewMoves ServedWasReviewed CheckTells
CHECK_DEADLOCK FALSE
