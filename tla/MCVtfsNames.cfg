\* Two names, directories and files, one open file, memory pressure; no data.
SPECIFICATION VtfsSpec
CONSTANTS
  Name = {a, b}
  Ino <- TwoInos
  Offset = {}
  Buffer = {}
  LOFF_MAX = 1
  MIN_CAPACITY = 1
  CopyFaults = FALSE
  Fd = {f1}
  InodeId = {1, 2, 3, 4, 5}
  ReadLen = {}
  SeekTo = {}
  TruncSizes = {}
  InodeAllocFails = FALSE
SYMMETRY Symmetry
INVARIANTS DcacheCoherent NlinkCoversDentries
PROPERTIES RefusedOnlyForCause
