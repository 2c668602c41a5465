CONSTANTS
  Tasks = {t1, t2, t3}
  NULL = NULL
  PRIO_MIN = 2
  PRIO_DEFAULT = 1
  RR_TIMESLICE = 1
  SliceTop = 2
  SliceHigh = 2
  SliceLow = 1
  Policies = {"NORMAL", "PRIORITY"}
  Priorities <- Nices
  Wrap = 8
SPECIFICATION SchedSpec
CHECK_DEADLOCK FALSE
INVARIANTS
  QueuesSound
PROPERTIES
  
  SchedulerImplementsRunQueue
