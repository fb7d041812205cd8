CONSTANTS
  CYLS = 2
  HEADS = 2
  SECTORS = 2
  TRIES = 5
  SCREEN_SIZE <- MCScreenSize
  MEMMAN_SIZE = 4
  Start = 1
  End = 40
  PageSize = 4
  Requests = {1, 2, 7, 11, 20}
  NULL = 0
  Earlier = {7, 11, 20}
  LAYERCTL_SIZE = 2
  LAYER_SIZE = 1
  MOUSE_SIZE <- MCMouseSize
  TEXT_X = 1
  TEXT_HEIGHT = 1
  TEXT_LENGTHS = {1}
  TASK_ROWS = {2, 3}
  Moves <- MCMoves
  Locations <- MCLocations
SPECIFICATION FairSpec
INVARIANTS DiskCached DevicesOn NoSharing
PROPERTIES ImplementsPicture StartUpGoesOn
CHECK_DEADLOCK FALSE
