SPECIFICATION Spec
CONSTANTS
  Paths <- TwoInAndOneOut
  Mountpoints <- RootAndOne
  MaxFH = 2
  MaxMounts = 2
  MaxOrphans = 2
  MaxOpened = 2
  MaxSize = 0
  Tidy = TRUE
INVARIANTS
  IoOfOnlyBackend
PROPERTIES
  MountLocality
CHECK_DEADLOCK TRUE
