SPECIFICATION Spec
CONSTANTS
  c1 = c1
  c2 = c2
  c3 = c3
  None = None
  Clients <- Two
  MaxFailures = 2
  Operators = {"password", "factor", "account", "recovery"}
  MaxLogins = 4
  MaxPasswords = 1
  MaxSecrets = 1
  MaxTurns = 1
  MaxMishaps = 1
INVARIANTS NoAttemptIsLost LockMeetsCount SessionsAreCurrent
PROPERTIES LockoutEnds
CHECK_DEADLOCK FALSE
