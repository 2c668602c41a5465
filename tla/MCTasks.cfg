SPECIFICATION Spec
SYMMETRY TaskSymmetry
CHECK_DEADLOCK FALSE
CONSTANTS
  Parts = {"locks", "threads", "processes", "rwlock"}
  t1 = t1
  t2 = t2
  t3 = t3
  t4 = t4
  Tasks = {t1, t2, t3, t4}
  NULL = NULL
  SomeoneReady = TRUE
  MaxBroadcast = 4
  Value = 2
  Leader = t1
  OneOwner = TRUE
  Root = t1
  PID_MAX = 4
  Orderly = TRUE
  RwTasks = {t1, t2, t3, t4}
INVARIANTS
  MutualExclusion
  UnitsConserved
  NoMissedWakeup
  WaiterFramesAlive
  ReleasePromised
  
  
  
  ChildrenReaped
  RwExclusion
