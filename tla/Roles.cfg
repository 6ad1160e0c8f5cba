SPECIFICATION Spec
CONSTANTS
  a1 = a1
  a2 = a2
  p1 = p1
  p2 = p2
  h1 = h1
  h2 = h2
  t1 = t1
  t2 = t2
  g1 = g1
  None = None
  People = {a1, a2, p1, p2}
  Oidc = {a2, p1}
  Founders = {a1, a2}
  Callbacks = {h1, h2}
  Tokens = {t1}
  Roles = {"SYSTEM_ADMIN", "REQUESTER", "SECURITY_REVIEWER"}
  Groups = {g1}
  Mappings <- Tried
  DefaultRole = "REQUESTER"
  Wishes <- Plain
  InactiveLock = TRUE
  MaxTurns = 2
  MaxMoves = 2
INVARIANTS AdministratorsAreMadeByHand SignOnCompletesOnce
PROPERTIES LastAdministratorStays
CHECK_DEADLOCK FALSE
