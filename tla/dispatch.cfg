SPECIFICATION Spec
CONSTANTS
  Paths <- TwoBackendPaths
  Mountpoints <- TwoMountpoints
  MaxFH = 2
  MaxMounts = 3
  MaxOrphans = 2
  MaxOpened = 2
  MaxSize = 1
  Tidy = TRUE
INVARIANT IoReachesItsFile
CHECK_DEADLOCK FALSE
