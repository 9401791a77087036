\* Two calls at a time over two codes, three tokens and one grant; the version rises once.
CONSTANTS
  Calls = {c1, c2}
  MaxTokens = 3
  MaxCodes = 2
  MaxGrants = 1
  MaxVersion = 1
SPECIFICATION Spec
INVARIANTS RevokedForGood CredentialsAreSpentOnce
CHECK_DEADLOCK FALSE
