SPECIFICATION IndexSpec
CONSTANTS
  b1 = b1 b2 = b2 s1 = s1 s2 = s2 a1 = a1 a2 = a2
  None = None
  DocCount = 3
  Bodies <- Texts
  Servers <- Hosts
  Applies <- Requests
  MaxGen = 4
  MaxSets = 1
  MaxEdits = 2
  MaxFaults = 2
  Configs <- Clients
  Changed <- Estimates
  Minute = 2
  MaxTime = 4
SYMMETRY Symmetry
INVARIANTS NeverRefused DecisionsStick HealthyUnlessHurt AppliedOnce AuditIsTrue PaceKept PlanIsTrue
CHECK_DEADLOCK FALSE
