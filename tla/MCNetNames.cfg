\* Names: directories, files and links; calls that fail before the request is
\* sent or over its answer, and one change by another client.  No data.
SPECIFICATION NetSafety
CONSTANTS
  NONE = NONE
  INT_MAX = 100000
  SIZE_MAX = 1000000
  SendError <- NoConnection
  RecvError = {}
  Name = {a, b}
  Ino <- TwoInos
  MAX_CHUNK_SIZE = 2
  RefusalCode = {2}
  Garbled <- OneGarbled
  Data <- NoData
  MAX_TOKEN_LEN = 10
  UserBytes <- MCBytes
  WriteLen = {}
  LateMethod = {}
  ListOffset = {}
  ReadLen = {}
  LOFF_MAX = 0
  MaxOutside = 1
SYMMETRY Symmetry
INVARIANTS CoherentOutsideDoubt SuccessIsDone NetInv
