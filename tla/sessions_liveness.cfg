SPECIFICATION FairSpec
CONSTANTS
  User = {u1}
  LoginId = {a1, a2, a3}
  ReplacementId = {b1, b2}
  Mortal = {a1}
  Request = {r1, r2}
  None = None
INVARIANTS
  DeadlockTakesTwoRevokeOthers
PROPERTIES
  RequestsAreAnswered
CHECK_DEADLOCK FALSE
