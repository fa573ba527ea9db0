\* The server refuses a write: its error code is taken for a count.
SPECIFICATION NetSafety
CONSTANTS
  NONE = NONE
  INT_MAX = 100000
  SIZE_MAX = 1000000
  SendError = {}
  RecvError = {}
  Name = {a}
  Ino <- OneIno
  MAX_CHUNK_SIZE = 3
  RefusalCode = {2, 5}
  Garbled = {}
  Data <- NoData
  MAX_TOKEN_LEN = 10
  UserBytes <- MCBytes
  WriteLen = {4}
  LateMethod = {}
  ListOffset = {}
  ReadLen = {}
  LOFF_MAX = 5
  MaxOutside = 0
INVARIANT AckedBytesStored
