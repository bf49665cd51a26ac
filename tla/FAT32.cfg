\* FileContextFAT32::read returns at most n bytes, and they are the file's
\* bytes from the cursor (the image's, or what write_file last wrote there),
\* through open, copy, close, reads of 1..3 bytes, writes of sectors 0..2,
\* and file and directory creation.
\* Violated: a read that crosses a sector boundary copies min(n, bytesLeft)
\* bytes per pass instead of min(n - count, bytesLeft).
CONSTANTS
  BytesPerSector = 2
  SectorsPerCluster = 1
  TotalSectors = 9
  SectorsPerFat = 9
  DataStart = 2
  Image <- MCImage
  Paths <- MCPaths
  CreatePaths <- MCCreatePaths
  ReadSizes = {1, 2, 3}
  Ctxs = {c1, c2}
  MaxCalls = 4
  WriteSectors = {0, 1, 2}
  WriteLens = {1, 2}
SPECIFICATION Spec
INVARIANT ReadReturnsFileBytes
CHECK_DEADLOCK FALSE
