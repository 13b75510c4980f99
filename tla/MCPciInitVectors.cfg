SPECIFICATION Spec
CONSTANTS
  Machines <- MCMachines
  None = None
  LastVector = 11
  FirstVector = 4
  EarlyHandlers <- MCEarlyHandlers
  LateHandlers <- MCLateHandlers
INVARIANT VectorsLoaded
