SPECIFICATION FairSpec
CONSTANTS
  FileCount = 2
  r1 = r1
  r2 = r2
  Roots = {r1}
  RootOf <- OneRoot
  Indexes <- FirstIsIndex
  Texts = {v1}
  Absent = Absent
  MaxProposals = 2
  Servers = {s1, s2}
  Free = Free
  RacyEditor = FALSE
  MaxEdits = 1
  MaxCrashes = 1
  MaxFaults = 0
PROPERTIES ConfirmReturns
CHECK_DEADLOCK FALSE
