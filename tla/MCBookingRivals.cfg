SPECIFICATION Spec
CONSTANTS
  s1 = s1
  s2 = s2
  Sessions <- MCSessions
  Users <- MCUsers
  Items <- OneItem
  Owner <- OneItemOwner
  Bookings <- ThreeRequests
  Request <- Rivals
  Periods <- RivalPeriods
  Blockers <- Nothing
  MaxActivePending = 1
  MaxCompetingPending = 2
  Ttl = 2
  MaxWait = 1
  MaxClock = 2
SYMMETRY SessionSymmetry
INVARIANTS
  CalendarIsSound
  
  
PROPERTIES
  ImplementsSchedule
CHECK_DEADLOCK FALSE
