SPECIFICATION FairSpec
CONSTANTS
  a1 = a1  a2 = a2  w1 = w1  w2 = w2
  Null = Null
  AmendCents <- OneCentEach
  Method = "PIX"
  Amendments = {a1}
  Amount = 2
  Workers = {w1}
  MaxTries = 2
  MaxReads = 1
  SlowWorkers = FALSE
  MerchantRefunds = FALSE
CHECK_DEADLOCK FALSE
INVARIANTS RefundsAreOwed
PROPERTIES EndedMoneySettles
