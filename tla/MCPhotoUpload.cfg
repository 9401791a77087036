\* One upload of any kind, with two requests at a time, three attempts of its job and two
\* faults.
CONSTANTS
  ItemPhotos = {photo}
  Avatars = {face}
  BookingEvidence = {act}
  DisputeEvidence = {proof}
  SupportAttachments = {file}
  NoIntent = none
  Requests = {r1, r2}
  Expires = 1
  Grace = 1
  Retention = 2
  Attempts = 3
  Concurrency = 1
  LastRequest = 0
  MaxClock = 4
  MaxIntents = 1
  MaxFaults = 2
SPECIFICATION FairSpec
INVARIANTS FilesOutliveTheirUse
PROPERTIES UploadsSettle
CHECK_DEADLOCK FALSE
