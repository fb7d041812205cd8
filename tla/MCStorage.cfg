CONSTANTS
  BUSES = 2
  DEVICES = 2
  FUNCTIONS = 2
  Kinds <- MCKinds
  Ports = 2
  MAX_DRIVES = 3
  SLOTS = 2
  PAGES = 3
  Clusters = {8}
SPECIFICATION FairSpec
INVARIANTS TypeOK FunctionsFound BuffersReturned
PROPERTIES MountsWhatIsThere StartsUp
CHECK_DEADLOCK FALSE
