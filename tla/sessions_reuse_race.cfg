SPECIFICATION Spec
CONSTANTS
  User = {u1}
  LoginId = {a1}
  ReplacementId = {b1, b2}
  Mortal = {a1, b1, b2}
  Request = {r1, r2, r3}
  None = None
INVARIANTS
  ReuseRevokesFamily
CHECK_DEADLOCK FALSE
