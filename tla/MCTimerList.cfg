CONSTANTS
  TIMER_SIZE = 4
  MAX_TIME = 15
  ASSERT_LIMIT = 14
  SENTINEL = 12
  TICK = 2
  Times = {0, 1, 4, 15}
  Data = {switch, d1}
  SWITCH = switch
  Garbage = garbage
  Horizon = 7
SPECIFICATION FairSpec
INVARIANTS TypeOK Sorted SlotsAccounted NoNullTimer
PROPERTIES ImplementsPending EventuallyFires
