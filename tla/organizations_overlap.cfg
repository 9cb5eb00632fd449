SPECIFICATION FairSpec
CONSTANTS
  Org = {o1, o2}
  User = {u1}
  Base = {"gym", "gym-2"}
  Candidate <- MCCandidate
  Tries <- MCTries
  Name = name
  Brand = {name}
  Image = {logo}
  Text = {t1}
  File = {f1}
  Request = {r1, r2}
  None = None
INVARIANTS
  TypeOK
  ActiveSlugsUnique
  ImagesAreStored
PROPERTIES
  DerivationEnds
