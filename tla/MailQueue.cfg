SPECIFICATION Spec
CONSTANTS
  p1 = p1
  p2 = p2
  None = None
  Gone = Gone
  People = {p1}
  Admins = {}
  Addressed = {p1}
  Raised = {"turn"}
  Readers <- Choosy
  Settings <- OnOrPart
  MaxAttempts = 2
  DigestLimit = 2
  Window = 1
  MaxNotices = 2
  MaxSwitches = 1
  MaxRetries = 1
  Mishaps = {"crash", "write", "answer"}
  MaxMishaps = 1
  MaxLosses = 2
INVARIANTS NoMailIsLost CopiesHaveCauses
CHECK_DEADLOCK FALSE
