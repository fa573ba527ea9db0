\* README part 9: is a file one inode under all its names?
SPECIFICATION VtfsSpec
CONSTANTS
  Name = {a, b}
  Ino <- OneIno
  Offset = {}
  Buffer = {}
  LOFF_MAX = 1
  MIN_CAPACITY = 1
  CopyFaults = FALSE
  Fd = {f1}
  InodeId = {1, 2, 3, 4, 5}
  ReadLen = {}
  SeekTo = {}
  TruncSizes = {}
  InodeAllocFails = FALSE
SYMMETRY Symmetry
INVARIANTS OneInodePerFile
