SPECIFICATION RingSpec
CONSTANTS
  Size = 6
  Limit = 4
  Bytes <- TwoBytes
INVARIANT RingInv
PROPERTY ImplementsFifo
