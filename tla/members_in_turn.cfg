SPECIFICATION Spec
CONSTANTS
  Org = {o1, o2}
  User = {u1, u2}
  RoleId = {i1, i2, i3, i4}
  Key = {owner, admin, staff}
  OwnerKey = owner
  ManagerKey = {owner, admin}
  SeedKey = {owner, admin}
  Request = {r1}
  None = None
SYMMETRY Symmetry
INVARIANTS
  AssignedRoleExists
PROPERTIES
  RemovedStaysRemoved
  DeletedRoleStaysDeleted
