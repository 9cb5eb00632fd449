SPECIFICATION FairSpec
CONSTANTS
  Role = {i1, i2}
  Key = {"owner", "staff"}
  OwnerKey = "owner"
  SeedSet <- MCSeedSet
  Code = {"read", "update", "fly"}
  Catalog = {"read", "update"}
  List <- MCList
  Request = {r1, r2}
  None = None
INVARIANTS
  TypeOK
  GrantsAreWhatNobodyReplaced
PROPERTIES
  PermissionsGoByReplacement
  RefinesPermissionSets
  ReplacementsEnd
CHECK_DEADLOCK FALSE
