SPECIFICATION Spec
CONSTANTS
  NONE = NONE
  Requesters = {r1, r2}
  Params <- MCParams
  SectorSize = 2
  PageSectors = 2
  SegPages = 2
  Gang = 2
  SectorRange = 256
  LongRange = 65536
  Starts <- MCStarts
  Vecs <- MCVecs
  Fails = {"alloc", "insert", "kmap"}
  MaxRequests = 3
INVARIANTS
  SegmentsFreed
PROPERTIES
  IsFlatDisk
  RequestsEnd
CHECK_DEADLOCK FALSE
