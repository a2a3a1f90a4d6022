SPECIFICATION Spec
CONSTANTS
  o1 = o1  o2 = o2  c1 = c1  c2 = c2
  Orders = {o1}
  Carrier <- CarrierOf
  Online = {}
  Subtotal = 15  DeliveryFee = 3  CommissionBps = 1000
  LinkTerms <- StartTerms  Terms <- HigherTerms
  Store = Store  Driver = Driver
  LastDay = 1
  MaxAdjustments = 1
  None = None
  Closers = {c1, c2}
  MaxClosings = 3
  Periods <- OverlappingPeriods
CHECK_DEADLOCK FALSE
INVARIANT TotalsMatchItems
