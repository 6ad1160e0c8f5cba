SPECIFICATION Spec
CONSTANTS
  author = author
  u1 = u1
  u2 = u2
  i1 = i1
  i2 = i2
  h1 = h1
  h2 = h2
  None = None
  Users = {author, u1, u2}
  Requester = author
  Editors = {author}
  InitialRoles <- ReviewerRoles
  RoleChoices <- AllOrNothing
  Mutable = {u1}
  Items = {i1}
  Pinned = {}
  Required = {i1}
  NeedsEvidence = {}
  AnswerChoices = {"answered"}
  Handlers = {h1}
  Operations <- GoverningOps
  Failing = {"requester"}
  ApprovalModes = {FALSE, TRUE}
  AllowSelfReview = FALSE
  RequireReviewer = FALSE
  MaxFiles = 1
  MaxChanges = 1
  MaxDecisions = 1
 
PROPERTIES NobodyLosesAReview
