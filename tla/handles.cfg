SPECIFICATION FairSpec
CONSTANTS
  t1 = t1
  t2 = t2
  t3 = t3
  o1 = o1
  o2 = o2
  Threads = {t1, t2}
  MaxFH = 2
  Orphans = {o1}
  TreeFiles = {f1}
  MaxEnd = 2
  Calls = {"open", "creat", "close", "read", "write"}
  Private = TRUE
  NoThread = NoThread
  NoDentry = NoDentry
INVARIANTS
  TypeOK
  HandleIntegrity
  NoUseAfterFree
  OnlyRacesLoseSize
PROPERTIES
  RefinesHandleTable
  CallsReturn
CHECK_DEADLOCK TRUE
