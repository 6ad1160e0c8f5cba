SPECIFICATION Spec
CONSTANTS
  author = author
  u1 = u1
  u2 = u2
  i1 = i1
  i2 = i2
  h1 = h1
  h2 = h2
  None = None
  Users = {author, u1}
  Requester = author
  Editors = {author}
  InitialRoles <- SplitRoles
  RoleChoices <- AllOrNothing
  Mutable = {}
  Items = {i1}
  Pinned = {i1}
  Required = {i1}
  NeedsEvidence = {i1}
  AnswerChoices = {"answered"}
  Handlers = {h1, h2}
  Operations <- CorrectingOps
  Failing = {"corrections", "settings"}
  ApprovalModes = {FALSE}
  AllowSelfReview = FALSE
  RequireReviewer = TRUE
  MaxFiles = 1
  MaxChanges = 1
  MaxDecisions = 1
SYMMETRY CallSymmetry
INVARIANTS TypeOK HandedOverWhole
PROPERTIES ConcludedWhenReady VerifiedIsFinal
