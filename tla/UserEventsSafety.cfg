SPECIFICATION Spec
CONSTANTS
  Writers = {w1, w2}
  Owners = {o1, o2}
  Regs = {r1, r2}
  ActiveLimit = 8
  MaxFaults = 2
  SerialClose = TRUE
  NoOwner = NoOwner
  NoReg = NoReg
SYMMETRY Symmetry
INVARIANTS TypeOK KernelMemorySafe OperationsProtected ReleaseOnceInOrder CleanupRetriable CloseOkReleased
PROPERTY ImplementsSafeRelease
