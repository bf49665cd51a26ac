\* exec of a program whose third LOAD segment (4 bytes at 13) starts one
\* byte into an unmapped page: buildProgramImage maps size + diff bytes,
\* two pages, onto a one-frame reserve.
CONSTANTS
  E = 3
  MaxKVal = 5
  BlockSize = 4
  WordBits = 16
  AvailBlocks <- MCAvailBlocks
  NOMEM <- MCNOMEM
  MaxSpaces = 3
  Program <- MCProgram
  StackPages = 4
  MapArgs <- MCMapArgs
  MaxCalls = 10

SPECIFICATION Spec

INVARIANT UserFramesExclusive

CHECK_DEADLOCK FALSE
