SPECIFICATION Spec
CONSTANTS
  Handlers = {h1, h2}
  Ids = {s1, s2}
  Limit = 2
  SeenLimit = 2
  Window = 1
  Retain = 2
  Idle = 2
  MaxClients = 1
  MaxChunks = 1
  MaxTime = 5
  None = None
INVARIANTS CreatedOnce UploadExact AckedWritten NoOrphan
SYMMETRY Symmetry
CHECK_DEADLOCK FALSE
