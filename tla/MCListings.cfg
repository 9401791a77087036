SPECIFICATION ListingsSpec
CONSTANTS
  c1 = c1
  c2 = c2
  Calls <- MCCalls
  Serves <- MCServes
  Owner = "owner"
  Borrower = "borrower"
  Offers <- MCOffers
  Stays <- MCStays
  Today = 0
  MaxDays = 2
  Horizon = 1
  MaxDeposit = 100
  Bookings = {1}
  Reports = {1}
  Subjects = {"owner"}
  Queries <- MCQueries
  Places <- MCPlaces
  First = 0
  Last = 30
  MaxRevision = 2
  MaxSwitches = 1
  MaxFailures = 1
INVARIANTS
  
  
  
  ReportDecidedOnce
PROPERTIES
  ClosureCompletes
CHECK_DEADLOCK FALSE
