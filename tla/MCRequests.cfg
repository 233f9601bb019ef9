SPECIFICATION Spec
CONSTANTS
  Uploads = {u1, u2}
  Chats = {c1}
  Probes = {p1}
  Threads = 1
  MaxBytes = 3
  ReadChunk = 2
  Bodies <- MCBodies
INVARIANTS
  TypeOK
  CapIsExact
  DamagedNeverIngested
  FilterIsRestored
  TokensAreReturned
PROPERTIES
  OthersEnd
  UploadsEnd
