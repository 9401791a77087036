SPECIFICATION DeskSpec
CONSTANTS
  c1 = c1
  c2 = c2
  o1 = o1
  o2 = o2
  Author = author
  Calls <- MCCalls
  Staff <- MCStaff
  Intents = {1, 2}
  UploadedBy <- MCUploadedBy
  MaxMessages = 3
INVARIANTS
  AttachmentsUsedOnce
  DeskHistory
CHECK_DEADLOCK FALSE
