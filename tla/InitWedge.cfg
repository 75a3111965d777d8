SPECIFICATION Spec
CONSTANTS
  FileCount = 2
  r1 = r1
  r2 = r2
  Roots = {r1}
  RootOf <- OneRoot
  Indexes <- FirstIsIndex
  Texts = {v1}
  Absent = Absent
  MaxProposals = 1
  Servers = {s1}
  Free = Free
  RacyEditor = FALSE
  MaxEdits = 0
  MaxCrashes = 1
  MaxFaults = 0
INVARIANTS NeverWedged
CHECK_DEADLOCK FALSE
