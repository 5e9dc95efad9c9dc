SPECIFICATION Spec
CONSTANTS
  Segments = {"", ".", "..", "a", "b"}
  MaxPath = 5
  MaxMounts = 2
INVARIANTS
  NormalizeKeepsSurvivors
  NormalizeComposes
  BestMountIsDeepestNewest
  WalkReachesPath
  BackendAndTreeAgree
CHECK_DEADLOCK FALSE
