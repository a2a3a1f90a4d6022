SPECIFICATION Spec
CONSTANTS
  o1 = o1  o2 = o2  c1 = c1  c2 = c2
  Orders = {o1, o2}
  Carrier <- CarrierOf
  Online = {o2}
  Subtotal = 15  DeliveryFee = 3  CommissionBps = 1000
  LinkTerms <- StartTerms  Terms <- LowerTerms
  Store = Store  Driver = Driver
  LastDay = 2
  MaxAdjustments = 1
  None = None
  Closers = {c1}
  MaxClosings = 2
  Periods <- OverlappingPeriods
CHECK_DEADLOCK FALSE
INVARIANTS BooksBalance PaysWhatWasAgreed SettledOnce
PROPERTIES CloseLeavesOnlyDebits
