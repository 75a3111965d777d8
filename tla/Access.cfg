SPECIFICATION AuthSpec
CONSTANTS
  p1 = p1 p2 = p2 t1 = t1 t2 = t2 s1 = s1 s2 = s2 r1 = r1 r2 = r2 alice = alice
  None = None
  Users <- Names
  Passwords <- Secrets
  Grantable <- Granted
  Needs <- Protected
  Tasks <- Pair
  Ids <- SessionIds
  MaxChanges = 2
  PairingTtl = 5
  SessionTtl = 3
  MaxAttempts = 2
  Cooldown = 2
  MaxClock = 7
  Absent = Absent
  Processes <- Commands
  MaxKeys = 5
  MaxFails = 2
  MaxCrashes = 1
SYMMETRY Symmetry
INVARIANTS ChangeEndsSessions PasswordSticks GuessBound
  RoutesReachable AdvertisedIsEnforced TokenIsNoStronger
  CredentialsStay CaRetained
CHECK_DEADLOCK FALSE
