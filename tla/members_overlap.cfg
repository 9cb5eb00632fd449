SPECIFICATION Spec
CONSTANTS
  Org = {o1}
  User = {u1, u2}
  RoleId = {i1, i2, i3}
  Key = {owner, admin, staff}
  OwnerKey = owner
  ManagerKey = {owner, admin}
  SeedKey = {owner, admin}
  Request = {r1, r2}
  None = None
SYMMETRY Symmetry
INVARIANTS
  TypeOK
  SingleOwner
  KeysAreUnique
  OwnerRoleAvailable
PROPERTIES
  OwnershipNeverMoves
