\* README part 3: is dir_emit called for every entry?
SPECIFICATION ReaddirSpec
CONSTANTS
  Name = {a, b, c}
  Ino <- MCIno
  Offset = {}
  Buffer = {}
  LOFF_MAX = 1
  MIN_CAPACITY = 1
  CopyFaults = FALSE
  MaxChanges = 2
INVARIANTS EveryEntryListed
