SPECIFICATION XhciSpec
CONSTANTS
  NumInterrupters = 2
  NumPorts = 2
  None = None
 
PROPERTY DoorbellWhileRunning
PROPERTY InitEnds
