SPECIFICATION FairSpec
CONSTANTS
  w1 = w1
  w2 = w2
  Workers <- MCWorkers
  Amounts <- MCAmounts
  CheckoutKeys <- MCCheckoutKeys
  Verdicts <- MCVerdicts
  MaxRetries = 1
  MaxWait = 1
  Window = 1
  Lease = 1
  RetryDelay = 1
  MaxClock = 2
  Calm = 1
INVARIANTS
  AmountsMatchJournal
  LeaseExclusive
  ItemOutIsSecured
  PaidOnce
PROPERTIES
  
  ResultsAreFinal
  ImplementsEscrow
  DepositsMove
CHECK_DEADLOCK FALSE
