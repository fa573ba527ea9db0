\* One file under two names, one open file, every write and seek up to LOFF_MAX.
SPECIFICATION VtfsSpec
CONSTANTS
  Name = {a, b}
  Ino <- OneIno
  Offset = {0, 1, 2, 3}
  Buffer <- Buffers
  LOFF_MAX = 3
  MIN_CAPACITY = 2
  CopyFaults = TRUE
  Fd = {f1}
  InodeId = {1, 2, 3}
  ReadLen = {0, 1}
  SeekTo <- MCSeekTo
  TruncSizes = {0}
  InodeAllocFails = TRUE
SYMMETRY Symmetry
INVARIANTS VtfsTypeOK SizeNotBeyondFile
PROPERTIES RefusedOnlyForCause HandlersImplementFs
