CONSTANTS
  MaxKVal = 3
  BlockSize = 4
  WordBits = 16
  AvailBlocks <- MCAvailBlocks
  ReqSizes <- MCReqSizes
  NOMEM = NOMEM

SPECIFICATION Spec

INVARIANTS
  TypeOK
  FreeListsWellFormed
  MaximalCoalescing
  ReservedBlockFitsRequest

PROPERTY
  Refinement
