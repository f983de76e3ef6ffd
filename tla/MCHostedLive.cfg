SPECIFICATION FairHosted
CONSTANTS
  r1 = r1
  NoReg = NoReg
  Orders = {1}
  Payments = {1, 2}
  Regs = {r1}
  Packages = {}
  RegOf <- OfReg
  Kind <- Legacy
  Total <- MCTotal
  ItemsOf <- NoItems
  SegmentLimit = 2
  OfflineRails = {}
  Openings <- Absent
  LegacyEntry = {1}
PROPERTY SettlementArrives
CHECK_DEADLOCK FALSE
