SPECIFICATION Spec
CONSTANTS
  Org = {o1, o2}
  User = {u1, u2}
  Base = {"gym"}
  Candidate <- MCCandidate
  Tries <- MCTries
  Name = name
  Brand = {name, color}
  Image = {logo}
  Text = {t1}
  File = {f1}
  Request = {r1}
  None = None
SYMMETRY Symmetry
PROPERTIES
  TenantWritesByMembers
  DeletedStaysDeleted
  EditsKeepOtherColumns
