SPECIFICATION HistorySpec
CONSTANTS
  r1 = r1
  k1 = k1
  NoReg = NoReg
  Orders = {1}
  Payments = {1}
  Regs <- MCRegs
  Packages <- MCPackages
  RegOf <- MCRegOf
  Kind <- MCKind
  Total <- MCTotal
  ItemsOf <- MCItems
  SegmentLimit = 2
  OfflineRails = {"manual", "cash"}
  Openings <- DraftOpening
INVARIANT SettledIsKept
CHECK_DEADLOCK FALSE
