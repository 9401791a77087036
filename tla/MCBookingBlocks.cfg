SPECIFICATION FairSpec
CONSTANTS
  s1 = s1
  s2 = s2
  Sessions <- MCSessions
  Users <- MCUsers
  Items <- OneItem
  Owner <- OneItemOwner
  Bookings <- TwoRivals
  Request <- TwoRivalRequests
  Periods <- Nothing
  Blockers <- OneBlocker
  MaxActivePending = 2
  MaxCompetingPending = 2
  Ttl = 2
  MaxWait = 1
  MaxClock = 2
INVARIANTS
  NoWaitCycle
  NoOutboxCollision
  
PROPERTIES
  ExpiredIsDecided
CHECK_DEADLOCK FALSE
