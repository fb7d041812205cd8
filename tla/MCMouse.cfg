CONSTANTS
  BUF_SIZE = 3
  Packets <- MCPackets
  Keys <- MCKeys
SPECIFICATION FairSpec
INVARIANT Faithful
PROPERTY Realigns
