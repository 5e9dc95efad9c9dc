SPECIFICATION Spec
CONSTANTS
  t1 = t1
  t2 = t2
  Threads = {t1, t2}
  Paths <- BelowD
  Mountpoints <- MountOnD
  Sample <- DirAndFile
  MountIds = {1, 2, 3, 4}
  NodeIds = {1, 2, 3, 4, 5, 6, 7, 8, 9, 10}
  MaxCalls = 4
  NoMount = NoMount
  NoNode = NoNode
SYMMETRY Symmetry
INVARIANTS
  TypeOK
  NoUseAfterFree
  WalkEndsRight
  TreeSound
  TwinsOfDifferentCalls
  InodeNumbersDiffer
  SampleBuiltOnce
CHECK_DEADLOCK FALSE
