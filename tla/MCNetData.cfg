\* One name: mounting, making, reading, writing and removing a file, with every
\* error, every kind of garbled answer, and requests of any kind arriving late.
SPECIFICATION NetSpec
CONSTANTS
  NONE = NONE
  INT_MAX = 100000
  SIZE_MAX = 1000000
  SendError <- AllSendErrors
  RecvError <- AllRecvErrors
  Name = {a}
  Ino <- OneIno
  MAX_CHUNK_SIZE = 3
  RefusalCode = {2, 5}
  Garbled <- AllGarbled
  Data <- SomeData
  MAX_TOKEN_LEN = 10
  UserBytes <- MCBytes
  WriteLen = {4, 5}
  LateMethod = {"init", "create_file", "mkdir", "unlink", "rmdir", "write"}
  ListOffset = {0, 1}
  ReadLen = {2}
  LOFF_MAX = 5
  MaxOutside = 1
INVARIANTS NetTypeOK CountedBytesStored  CoherentOutsideDoubt SuccessIsDone
PROPERTY CallsEnd
