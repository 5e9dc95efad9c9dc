SPECIFICATION Spec
CONSTANTS
  Paths <- SampleAndOnePath
  Mountpoints <- OneMountpoint
  MaxFH = 2
  MaxMounts = 2
  MaxOrphans = 2
  MaxOpened = 2
  MaxSize = 1
  Tidy = TRUE
INVARIANT ExistingFileOpens
CHECK_DEADLOCK FALSE
