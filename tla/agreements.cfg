SPECIFICATION Spec
CONSTANTS
  d1 = d1  d2 = d2  l1 = l1  l2 = l2  f1 = f1  x1 = x1
  DAY = 3
  Tolerance = 0
  Never = Never
  None = None
  Drivers = {d1, d2}
  Links = {l1, l2}
  Offers = {f1}
  Auths = {x1}
  Schedules <- Invited
  OfferSchedule <- OfferedMornings
  Slots <- OneSlot
  Extensions = {1}
  Validity = 1
  NewTerms <- Changed
  Start = 18
  Horizon = 21
  MaxShifts = 2
SYMMETRY SameLinks
CHECK_DEADLOCK FALSE
INVARIANTS TypeOK BoundOnceFromToday ShiftsDoNotOverlap ShiftKeepsItsLink OfferKeepsCount
