CONSTANTS
  TASK_SIZE = 5
  LEVEL_SIZE = 3
  Priorities = {1}
  SelfMove = FALSE
SPECIFICATION FairSpec
PROPERTY RoundRobin
