SPECIFICATION Spec
CONSTANTS
  a = a
  b = b
  c = c
  None = None
  People = {a, b, c}
  Reviews <- Numbers
  AllowSelfReview = FALSE
  FirstRoles <- Staff
  Starts <- Begun
  Leavers = {b}
  Mutable = {c}
  MaxHandovers = 1
  MaxRequests = 2
  MaxCalls = 2
  MaxChanges = 1
  MaxFailures = 1
INVARIANTS OwnWorkOnlyByOverlap HandoverAccounts
CHECK_DEADLOCK FALSE
