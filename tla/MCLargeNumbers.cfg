CONSTANTS
  LimbBits = 2
  Base <- MCBase
  LimbAnd <- MCAnd
  LimbOr <- MCOr
  LimbXor <- MCXor
  LimbShl <- MCShl
  LimbShr <- MCShr
  Operands <- MCOperands
SPECIFICATION Spec
INVARIANTS
  TypeOK
  
  OverflowExact
  OrderExact
