SPECIFICATION Spec
CONSTANTS
  FileCount = 3
  r1 = r1
  r2 = r2
  Roots = {r1, r2}
  RootOf <- TwoRoots
  Indexes <- FirstIsIndex
  Texts = {v1}
  Absent = Absent
  MaxProposals = 2
  Servers = {s1, s2}
  Free = Free
  RacyEditor = FALSE
  MaxEdits = 1
  MaxCrashes = 1
  MaxFaults = 1
SYMMETRY Symmetric
PROPERTIES AtomicCommit
INVARIANTS IInv TypeOK OneOperation NoOrphanMetadata CleanBeforePlan NoLostText SuccessIsCommitted
CHECK_DEADLOCK FALSE
