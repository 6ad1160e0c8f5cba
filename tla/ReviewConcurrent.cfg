SPECIFICATION Spec
CONSTANTS
  author = author
  u1 = u1
  u2 = u2
  i1 = i1
  i2 = i2
  h1 = h1
  h2 = h2
  None = None
  Users = {author, u1, u2}
  Requester = author
  Editors = {author}
  InitialRoles <- ApproverRoles
  RoleChoices <- AllOrNothing
  Mutable = {}
  Items = {i1}
  Pinned = {i1}
  Required = {}
  NeedsEvidence = {}
  AnswerChoices = {"answered"}
  Handlers = {h1, h2}
  Operations <- OverlappingOps
  Failing = {}
  ApprovalModes = {TRUE}
  AllowSelfReview = FALSE
  RequireReviewer = FALSE
  MaxFiles = 1
  MaxChanges = 1
  MaxDecisions = 2
SYMMETRY HandlerSymmetry
INVARIANTS JudgedBeforeConcluded ConclusionTellsStatus SubmissionTellsStatus ApprovalIsFinal
PROPERTIES SecondEyes KeepsItsPromise
