SPECIFICATION Spec
CONSTANTS
  User = {u1, u2}
  LoginId = {a1, a2}
  ReplacementId = {b1, b2}
  Mortal = {a1, a2, b1, b2}
  Request = {r1, r2}
  None = None
SYMMETRY Symmetry
INVARIANTS
  TypeOK
  OneLiveSessionPerFamily
  ChainIntegrity
  TokenExchangedOnce
  SweepRevokesWhatItSaw
PROPERTIES
  RevocationIsPermanent
  RevokesOnlyOwn
  RefinesSessionFamily
CHECK_DEADLOCK FALSE
