CONSTANTS
  PIPE_SIZE = 4
  Sizes <- MCSizes
  MaxSent = 6
  MaxEnds = 2
  c1 = c1
  c2 = c2

SPECIFICATION MCSpec

INVARIANT TypeOK
INVARIANT UartTypeOK
INVARIANT NoLossWithinCapacity

PROPERTY Refinement
PROPERTY ReadsInOrder
