SPECIFICATION Spec
CONSTANTS
  t1 = t1
  t2 = t2
  f1 = f1
  f2 = f2
  Threads = {t1, t2}
  MaxBackends = 2
  InitialCap = 1
  MaxCap = 2
  MaxFd = 2
  MaxFailures = 1
  Files = {f1, f2}
  NoFile = NoFile
SYMMETRY Symmetry
INVARIANTS
  TypeOK
  HandleKeepsFile
  DescriptorStillValid
  FdsAccounted
  IInv
CHECK_DEADLOCK TRUE
