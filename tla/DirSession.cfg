SPECIFICATION FairSpec
CONSTANTS
  Chars <- MCChars
  ArgLists <- MCArgLists
  Dirs <- MCDirs
  Entries <- MCEntries
  BufSize = 4
  MaxBuf = 16
INVARIANTS
  RoomInBuffer
  InStep
PROPERTIES
  ClientEnds
  WorkerReleased
CHECK_DEADLOCK FALSE
