SPECIFICATION SalesSpec
CONSTANTS
  r1 = r1
  NoReg = NoReg
  Orders = {1}
  Payments = {1, 2, 3}
  Regs = {r1}
  Packages = {}
  RegOf <- OfReg
  Kind <- Main
  Total <- BillTotal
  ItemsOf <- NoItems
  SegmentLimit = 2
  OfflineRails = {}
  Openings <- FreshOrExpired
  Bills = {1, 2}
  Nil = Nil
  Nobody = Nobody
  Mails = {"receipt"}
  MailLogs = {x1, x2}
  MailTasks = {k1, k2}
  Captures = {x1, x2}
  Events = {e1, e2}
  Tokens = {x1, x2}
  AccountRequests = {k1, k2}
  Mains = {"main"}
  Additionals = {"gala"}
  Exhibitor = "booth"
  Catalogues = {{"main", "gala"}, {"booth"}}
  StoreOrders = {x1, x2}
  Registrations = {z1, z2}
  Handlers = {k1, k2}
  Guests = {x1, x2}
  CheckIns = {z1, z2}
  Gates = {k1, k2}
  Rates = {x1, x2}
  RateForms <- MCRateForms
  Admins = {k1, k2}
SYMMETRY MCSymmetry
CONSTRAINT AddsAlone
ACTION_CONSTRAINT EditsStopAfterMeeting
INVARIANTS
  OneInvoice CreditIsSettled 
  
  EventAppliedOnce
  TokensOverlap
   OneCurrentRegistration PackagesAreOrdered 
  EntriesOverlap ReportCountsGuests
  
PROPERTIES
  ResetNeedsUnusedToken
CHECK_DEADLOCK FALSE
