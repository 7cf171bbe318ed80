SPECIFICATION Spec
CONSTANTS
  a1 = a1
  a2 = a2
  a3 = a3
  None = None
  Accounts = {a1, a2, a3}
  Loaded <- MCLoaded
  Profile <- MCProfile
  Steps <- MCSteps
  UserActs = {"age", "remove", "add", "default", "refresh"}
  MaxActs = 1
  MaxLaunches = 1
INVARIANT ListOK
CHECK_DEADLOCK FALSE
PROPERTIES QueueServed LoginAnswers
