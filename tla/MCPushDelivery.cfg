\* Two overlapping push runs, one of which may outlive its lease or crash, while tokens are
\* rotated, taken over and rejected.
CONSTANTS
  alice = alice  bob = bob  none = none  phone = phone  t1 = t1  t2 = t2
  o1 = o1  o2 = o2  p1 = p1  p2 = p2  e1 = e1  e2 = e2  e3 = e3
  Users = {alice, bob}
  Installations = {phone}
  Tokens = {t1, t2}
  NoOne = none
  Events = {e3}
  Address <- MCAddress
  RowIds = {1, 2}
  OutboxRuns = {o1}
  PushRuns = {p1, p2}
  BatchSize = 1
  Lease = 1
  InitialRetry = 1
  MaxRetry = 1
  MaxAge = 1
  MaxAttempts = 1
  MaxDead = 1
  MaxCrashes = 1
SPECIFICATION FairSpec
INVARIANTS OneDevicePerToken
PROPERTIES RejectedTokensOnly NothingStaysClaimed
