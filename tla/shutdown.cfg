SPECIFICATION Spec
CONSTANTS
  Paths <- SampleAndOnePath
  Mountpoints <- OneMountpoint
  MaxFH = 2
  MaxMounts = 1
  MaxOrphans = 2
  MaxOpened = 2
  MaxSize = 1
  Tidy = FALSE
INVARIANT NoFreedRead
CHECK_DEADLOCK FALSE
