SPECIFICATION FairSpec
CONSTANTS
  PathCount = 2
  Resources = {}
  v = v
  w = w
  Hashes = {v}
  Valid = {v}
  None = None
  Tasks = {t1}
  Completed <- CompletedAsV
  Watch = {TRUE, FALSE}
  MaxEdits = 1
  MaxCrashes = 1
  MaxUpdates = 1
  MaxFaults = 1
INVARIANTS IInv
PROPERTIES ScanSeeds
CHECK_DEADLOCK FALSE
