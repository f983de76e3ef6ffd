SPECIFICATION HistorySpec
CONSTANTS
  r1 = r1
  k1 = k1
  NoReg = NoReg
  Orders = {1, 2, 3, 4}
  Payments = {1, 2}
  Regs <- MCRegs
  Packages <- MCPackages
  RegOf <- MCRegOf
  Kind <- MCKind
  Total <- MCTotal
  ItemsOf <- MCItems
  SegmentLimit = 2
  OfflineRails = {"manual", "cash"}
  Openings <- AllOpenings
INVARIANTS TypeOK PaidIffCovered MoneyKeepsOrderOpen RegPaidIsBacked PaidEntitles
  MoneyIsShown 
PROPERTIES ReopensOnlyWithMoney HostedSuccessStays PaidShrinksOnlyByReversal
CHECK_DEADLOCK FALSE
