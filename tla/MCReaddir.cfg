\* Three names, two inode numbers, up to two changes of the directory during a scan.
SPECIFICATION ReaddirSpec
CONSTANTS
  Name = {a, b, c}
  Ino <- MCIno
  Offset = {}
  Buffer = {}
  LOFF_MAX = 1
  MIN_CAPACITY = 1
  CopyFaults = FALSE
  MaxChanges = 2
INVARIANTS MissesBoundedByRemovals RepeatsBoundedByInserts ScanInv
PROPERTIES ScanEnds
