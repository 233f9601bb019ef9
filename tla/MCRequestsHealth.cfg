SPECIFICATION Spec
CONSTANTS
  Uploads = {u1}
  Chats = {c1, c2}
  Probes = {p1}
  Threads = 2
  MaxBytes = 3
  ReadChunk = 2
  Bodies <- MCBodies
INVARIANTS
  HealthNeverWaits
