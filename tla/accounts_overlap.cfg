SPECIFICATION Spec
CONSTANTS
  UserId = {n1, n2}
  Email = {e1, e2}
  Password = {p1, p2}
  Google = {g1, g2}
  Text = {t1}
  Admin = {e1}
  Request = {r1, r2}
  None = None
SYMMETRY Symmetry
INVARIANTS
  TypeOK
  SignInsAreEntitled
  AdminsAreConfigured
PROPERTIES
  CredentialsStay
