SPECIFICATION Spec
CONSTANTS
  PathCount = 3
  Resources = {2}
  Hashes = {v, w}
  Valid = {v}
  None = None
  Tree <- SmallTree
  Bounds <- SmallBounds
  FileSizes = {1, 2}
  MaxChanges = 2
  Assets = {f, g}
  Notes = {h}
  LastVersion = 2
  MaxInstalls = 2
  MaxTexts = 2
  MaxTroubles = 2
INVARIANTS PendingIsExcluded NothingIsSilent ScanIsExact InstallIsSafe
CHECK_DEADLOCK FALSE
