SPECIFICATION Spec
CONSTANTS
  a1 = a1  a2 = a2  w1 = w1  w2 = w2
  Null = Null
  AmendCents <- OneCentEach
  Method = "PIX"
  Amendments = {}
  Amount = 1
  Workers = {w1, w2}
  MaxTries = 1
  MaxReads = 1
  SlowWorkers = TRUE
  MerchantRefunds = TRUE
CHECK_DEADLOCK FALSE
INVARIANTS OrderFollowsPayment ReleasedWasCharged EndedMoneyIsQueued
PROPERTIES NothingRegresses
