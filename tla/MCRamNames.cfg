\* Every tree of up to three files and directories and two names, no data.
SPECIFICATION Spec
CONSTANTS
  Name = {a, b}
  Ino <- NamesIno
  Offset = {}
  Bytes = {}
  BufferLens = {}
  Buffer <- MCBuffer
  LOFF_MAX = 1
  MIN_CAPACITY = 1
  CopyFaults = FALSE
INVARIANTS TypeOK UniqueNames RefCountExact NoOrphans IInv
PROPERTIES FailureChangesNothing ImplementsFs
SYMMETRY Symmetry
