SPECIFICATION Spec
CONSTANTS
  User = {u1}
  Org = {o1, o2}
  Role = {i1, i2}
  Session = {s1}
  Owner <- MCOwner
  Level <- MCLevel
  Sets <- MCSets
  Resource <- MCResource
  Served <- MCServed
  Start <- MCStart
  MaxChanges = 2
  Malformed = Malformed
  None = None
  u1 = u1
  u2 = u2
  o1 = o1
  o2 = o2
  i1 = i1
  i2 = i2
  s1 = s1
INVARIANTS
  DuplicateEmailIsConflict
CHECK_DEADLOCK FALSE
