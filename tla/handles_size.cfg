SPECIFICATION Spec
CONSTANTS
  t1 = t1
  t2 = t2
  t3 = t3
  o1 = o1
  o2 = o2
  Threads = {t1, t2}
  MaxFH = 2
  Orphans = {o1, o2}
  TreeFiles = {f1}
  MaxEnd = 2
  Calls = {"open", "write", "close"}
  Private = TRUE
  NoThread = NoThread
  NoDentry = NoDentry
INVARIANT SizeCoversWrites
CHECK_DEADLOCK TRUE
