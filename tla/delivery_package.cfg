SPECIFICATION Spec
CONSTANTS
  o1 = o1  o2 = o2  d1 = d1  d2 = d2  s1 = s1  s2 = s2  b1 = b1  storeA = storeA
  Stores = {storeA}
  Null = Null
  OrderStore <- OneStore
  ShiftStore <- ShiftsOfOneStore
  BatchStore <- BatchesOfOneStore
  Orders = {o1, o2}
  Drivers = {d1}
  Shifts = {s1}
  Batches = {b1}
  Fulfillment <- AllDeliveries
  PaidOnline <- AllOffline
  ShiftDriver <- OneShiftEach
SYMMETRY OrdersAlike
CHECK_DEADLOCK FALSE
INVARIANTS BatchAgreesWithOrders CollectedPackageIsOut CalledDriversSeeTheOrder
