CONSTANTS
  MEMMAN_SIZE = 2
  Start = 1
  End = 9
  PageSize = 2
  Requests = {1, 3}
  NULL = 0
SPECIFICATION Spec
INVARIANTS Coalesced NoSharing Conserved
PROPERTY ImplementsHeap
