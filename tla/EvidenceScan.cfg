SPECIFICATION Spec
CONSTANTS
  f1 = f1
  f2 = f2
  h1 = h1
  h2 = h2
  None = None
  Files = {f1}
  Handlers = {h1}
  ScannerModes = {TRUE, FALSE}
  MaxAttempts = 2
  MaxVersions = 2
  MaxJobs = 2
  MaxCrashes = 1
  MaxRetries = 1
INVARIANTS UnreplacedIsFailClosed HistoryAgrees
PROPERTIES EveryUploadIsDecided
