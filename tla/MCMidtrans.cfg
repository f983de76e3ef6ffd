SPECIFICATION SpecMidtrans
CONSTANTS
  r1 = r1
  NoReg = NoReg
  Orders = {1}
  Payments = {1, 2}
  Regs = {r1}
  Packages = {}
  RegOf <- OfReg
  Kind <- Main
  Total <- MCTotal
  ItemsOf <- NoItems
  SegmentLimit = 2
  OfflineRails = {}
  Openings <- Fresh
  Clients = {1}
  MaxWaiting = 2
INVARIANTS CreditIsReal CreditIsWholeSegments
CHECK_DEADLOCK FALSE
