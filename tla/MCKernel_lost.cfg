CONSTANTS
  TASK_SIZE = 4
  LEVEL_SIZE = 3
  Priorities = {1}
  BUF_SIZE = 3
  FREE_TIMERS = 3
SPECIFICATION Spec
INVARIANT DataWakes
CHECK_DEADLOCK FALSE
