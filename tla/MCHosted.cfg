SPECIFICATION SpecHosted
CONSTANTS
  r1 = r1
  NoReg = NoReg
  Orders = {1}
  Payments = {1, 2, 3}
  Regs = {r1}
  Packages = {}
  RegOf <- OfReg
  Kind <- Main
  Total <- MCTotal
  ItemsOf <- NoItems
  SegmentLimit = 2
  OfflineRails = {}
  Openings <- Fresh
  LegacyEntry = {}
INVARIANT SettledIsCounted
PROPERTY OneBillAtATime
CHECK_DEADLOCK FALSE
