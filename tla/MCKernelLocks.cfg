SPECIFICATION Spec
CONSTANTS
  SharedMutexes = {s1, s2}
  ThreadMutexes = {t1}
  Printk = Printk
  None = None
  MaxDepth = 4
  MaxWork = 3
INVARIANT InterruptsMatchGuards
INVARIANT HandlerFindsMutexFree
PROPERTY HandlerReturns
