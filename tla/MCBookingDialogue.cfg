SPECIFICATION Spec
CONSTANTS
  c1 = c1
  c2 = c2
  Calls <- MCCalls
  Bookings = {1, 2}
  Writers = {"borrower"}
  Ending = {1}
  Keys = {1, 2, 3}
  MaxPerBooking = 2
  MaxPerActor = 2
  RateWindow = 0
  ReviewWindow = 1
  PageSize = 1
  MaxClock = 1
SYMMETRY CallSymmetry
INVARIANTS
  RateHolds
  BlindUntilBoth
  PagesLoseNothing
CHECK_DEADLOCK FALSE
