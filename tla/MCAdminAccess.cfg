\* Two calls at a time, one secret, one recovery code, two time steps.  A call may fail
\* anywhere but between the two commands that count an attempt and limit the counter's life.
CONSTANTS
  Calls = {c1, c2}
  Recovery = {r1}
  MaxAttempts = 2
  MaxSecrets = 1
  MaxStep = 1
  MaxSessions = 2
  MaxVersion = 2
  FailAt = {"setup", "logSetup", "enable", "tidy", "attempt", "verify", "use", "verified", "open"}
  MaxFaults = 1
SPECIFICATION Spec
INVARIANTS SecondFactorHolds 
CHECK_DEADLOCK FALSE
