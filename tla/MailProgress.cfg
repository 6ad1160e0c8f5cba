SPECIFICATION Spec
CONSTANTS
  p1 = p1
  p2 = p2
  None = None
  Gone = Gone
  People = {p1}
  Admins = {p1}
  Addressed = {p1}
  Raised = {"turn"}
  Readers <- DailyOrNot
  Settings <- On
  MaxAttempts = 2
  DigestLimit = 1
  Window = 3
  MaxNotices = 2
  MaxSwitches = 0
  MaxRetries = 0
  Mishaps = {"crash"}
  MaxMishaps = 1
  MaxLosses = 1
PROPERTIES QueuedMailEnds DigestReachesAll FailureIsReported
CHECK_DEADLOCK FALSE
