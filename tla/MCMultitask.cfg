CONSTANTS
  TASK_SIZE = 5
  LEVEL_SIZE = 3
  Priorities = {1}
  SelfMove = FALSE
SPECIFICATION Spec
INVARIANTS ListsMatchFlags IndexInside CurrentIsRunning PriorityRespected NoFault SliceArmed
PROPERTY SwitchPreempts
VIEW View
