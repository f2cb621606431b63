SPECIFICATION Spec
CONSTANTS
  Credential = {P, K}
  Client = {A, B}
  MaxGen = 3
  MaxEvents = 5
  MaxJobs = 2
  MaxRounds = 3
  None = None
SYMMETRY Alike
CHECK_DEADLOCK FALSE
INVARIANTS
  PointedStands
  VisitsRecorded
  RetiredStaysOut
  LastForgetReachable
