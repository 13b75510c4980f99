CONSTANTS
  NumSlots = 3
  SectorBytes = 2
  FrameSectors = 1
  BufSectors = 2
  CmdSectors = 4
  PrdtMax = 2
  SpinLimit = 1
  NumFrames = 5
  Lba24 = 8
  Lba28 = 11
  Requests <- MCRequests
SPECIFICATION Spec
INVARIANTS
  SlotAccounting
  DmaCursorExact
  
PROPERTIES
  LiveTablesKept
  
