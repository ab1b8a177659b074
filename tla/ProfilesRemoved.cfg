\* An update that loaded the profile before it was removed.
SPECIFICATION Spec
CONSTANTS
  u1 = u1
  r1 = r1
  r2 = r2
  r3 = r3
  v0 = v0
  v1 = v1
  Call = {c1, c2}
  UserId = {u1}
  RowId = {r1, r2, r3}
  Field = {"firstName", "bio"}
  Value = {v0, v1}
  NoUser = NoUser
  NoRow = NoRow
  NoValue = NoValue
  Initial <- InitialFields
  SeedOwner <- OneSeed
  MaxCrash = 0
SYMMETRY RequestSymmetry
PROPERTIES RemovedStaysRemoved
CHECK_DEADLOCK FALSE
