SPECIFICATION Spec
CONSTANTS
  t1 = t1
  t2 = t2
  t3 = t3
  o1 = o1
  o2 = o2
  Threads = {t1, t2, t3}
  MaxFH = 2
  Orphans = {o1, o2}
  TreeFiles = {f1}
  MaxEnd = 0
  Calls = {"open", "creat", "close"}
  Private = FALSE
  NoThread = NoThread
  NoDentry = NoDentry
SYMMETRY Symmetry
INVARIANTS
  OneKeeper
  NoStray
  SlotConsistent
  IInv
PROPERTY RefinesHandleTable
CHECK_DEADLOCK TRUE
