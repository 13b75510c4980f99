SPECIFICATION Spec
CONSTANTS
  Width = 3
  Height = 2
  Strides = {3, 4}
  Lanes = 4
  Colors <- MCColors
  Alphas = {0, 1, 255}
  LogColor <- MCLogColor
  MaxCanvases = 2
  MaxDraws = 2
  MaxLogs = 1
  None = None
 
PROPERTY LastOnTop
