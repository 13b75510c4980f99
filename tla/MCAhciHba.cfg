SPECIFICATION Spec
CONSTANTS
  NumPorts = 2
  None = None
INVARIANT HangWindow
 
PROPERTY HandlerReturns
PROPERTY StatusServed
PROPERTY StartEnds
