\* Two overlapping runs of the outbox processor over two events, one device that passes
\* from one account to another, the inboxes.  No push runs.
CONSTANTS
  alice = alice  bob = bob  none = none  phone = phone  t1 = t1  t2 = t2
  o1 = o1  o2 = o2  p1 = p1  p2 = p2  e1 = e1  e2 = e2  e3 = e3
  Users = {alice, bob}
  Installations = {phone}
  Tokens = {t1}
  NoOne = none
  Events = {e1, e2}
  Address <- MCAddress
  RowIds = {1, 2}
  OutboxRuns = {o1, o2}
  PushRuns = {}
  BatchSize = 2
  Lease = 1
  InitialRetry = 1
  MaxRetry = 1
  MaxAge = 0
  MaxAttempts = 1
  MaxDead = 0
  MaxCrashes = 1
SPECIFICATION FairSpec
INVARIANTS DeliveriesFollowTheInbox
PROPERTIES EventsArrive ImplementsFeed
