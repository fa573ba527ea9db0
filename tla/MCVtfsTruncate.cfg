\* README part 8: does > replace what a file holds?
SPECIFICATION VtfsSpec
CONSTANTS
  Name = {a, b}
  Ino <- OneIno
  Offset = {0}
  Buffer <- Buffers
  LOFF_MAX = 3
  MIN_CAPACITY = 2
  CopyFaults = FALSE
  Fd = {f1}
  InodeId = {1, 2, 3}
  ReadLen = {0, 1}
  SeekTo <- MCSeekTo
  TruncSizes = {0}
  InodeAllocFails = FALSE
PROPERTIES TruncatedIsEmpty
