SPECIFICATION Spec
CONSTANTS
  Clients = {c1, c2}
  None = None
  OpenCalls <- MCOpenCalls
  BufLens = {0, 1, 3}
  Positions <- MCPositions
  U64 = 4
  RootLen = 2
  SignatureLen = 2
  MaxOpens = 2
INVARIANT TypeOK
INVARIANT PipeHandleKept
 
 
