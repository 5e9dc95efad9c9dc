SPECIFICATION Spec
CONSTANTS
  Paths <- SampleAndOnePath
  Mountpoints <- OneMountpoint
  MaxFH = 2
  MaxMounts = 2
  MaxOrphans = 2
  MaxOpened = 2
  MaxSize = 1
  Tidy = FALSE
INVARIANTS
  TypeOK
  HandlesLive
  OrphansOwned
PROPERTIES
  NothingWithoutHandle
  TreesOnlyGrow
CHECK_DEADLOCK FALSE
