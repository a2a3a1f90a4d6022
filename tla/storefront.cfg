SPECIFICATION Spec
CONSTANTS
  ada = ada  pizza = pizza  soda = soda  food = food  drinks = drinks  r1 = r1  r2 = r2  t1 = t1  t2 = t2
  None = None
  Gone = Gone
  Customers <- People
  Products <- Items
  Categories <- Shelf
  LastTree = 3
  LastOrder = 3
  LastAmendment = 2
  Requests <- Calls
  Tablets <- Counters
  Policies <- Limits
  Instants <- Moments
  Scenarios <- Everything
  Picks <- SomeChoices
  Methods <- Ways
  Menus <- TwoMenus
SYMMETRY SameCalls
CHECK_DEADLOCK FALSE
INVARIANTS TypeOK MenuIsOneTree OneOrderPerVisit
PROPERTIES ReadyOrdersStay BlockEndsOnTime
