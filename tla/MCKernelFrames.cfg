CONSTANTS
  Regions <- MCRegions
  Offset <- MCOffset
  HugePages <- MCHugePages
  BootTables <- MCBootTables
  HeapBase <- MCHeapBase
  HeapLen = 2
  Spans <- MCSpans
  FillPages <- MCFillPages
  PageBytes = 8
  Addrs <- MCAddrs
  Counts <- MCCounts
  FreeAddrs <- MCFreeAddrs
SPECIFICATION Spec
CONSTRAINT LifoOnly
INVARIANTS
  TypeOK
  
  
  HeapBacked
  NothingWiped
PROPERTIES
  MappingsStable
