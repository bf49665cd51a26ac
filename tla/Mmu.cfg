\* The user half of virtual memory: exec, mmap, munmap and address-space
\* switches over 31 free frames, up to 3 address spaces and 10 syscalls.
CONSTANTS
  E = 3
  MaxKVal = 5
  BlockSize = 4
  WordBits = 16
  AvailBlocks <- MCAvailBlocks
  NOMEM <- MCNOMEM
  MaxSpaces = 3
  Program <- MCProgram
  StackPages = 4
  MapArgs <- MCMapArgs
  MaxCalls = 10

SPECIFICATION Spec

INVARIANTS
  TypeOK
  MapRoundTrip
  FramesExclusive
  GetPageFrameAgrees

CHECK_DEADLOCK FALSE
