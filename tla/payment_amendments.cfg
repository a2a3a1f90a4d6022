SPECIFICATION Spec
CONSTANTS
  a1 = a1  a2 = a2  w1 = w1  w2 = w2
  Null = Null
  AmendCents <- OneCentEach
  Method = "CARD"
  Amendments = {a1, a2}
  Amount = 2
  Workers = {w1, w2}
  MaxTries = 2
  MaxReads = 1
  SlowWorkers = FALSE
  MerchantRefunds = TRUE
CHECK_DEADLOCK FALSE
INVARIANTS TypeOK SucceededMeansDone SerialOperations
