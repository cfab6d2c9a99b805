SPECIFICATION FairSpec
CONSTANTS
  Writers = {w1}
  Owners = {o1, o2}
  Regs = {r1}
  ActiveLimit = 8
  MaxFaults = 2
  SerialClose = TRUE
  NoOwner = NoOwner
  NoReg = NoReg
PROPERTIES CloseReturns
