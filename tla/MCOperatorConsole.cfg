\* Two operators with different capabilities take turns; two requests may be under way
\* besides the logout, and each signs in once or one of them twice.
CONSTANTS
  ann = ann  max = max  none = none
  Operators = {ann, max}
  Capabilities <- MCCapabilities
  Nobody = none
  Ids = {1, 2}
  MaxSessions = 2
SPECIFICATION Spec
INVARIANTS MemoryIsTheSessions 
CHECK_DEADLOCK FALSE
