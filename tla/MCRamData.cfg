\* One file, every sequence of writes of up to two bytes below LOFF_MAX.
SPECIFICATION Spec
CONSTANTS
  Name = {a}
  Ino <- DataIno
  Offset = {0, 1, 2, 3, 4}
  Bytes = {1, 2}
  BufferLens = {0, 1, 2}
  Buffer <- MCBuffer
  LOFF_MAX = 4
  MIN_CAPACITY = 2
  CopyFaults = FALSE
INVARIANTS SizeWithinCapacity FsInv
PROPERTIES ImplementsFs
