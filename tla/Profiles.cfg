\* Three requests about one profile, and a restart.
SPECIFICATION Spec
CONSTANTS
  u1 = u1
  r1 = r1
  r2 = r2
  r3 = r3
  v0 = v0
  v1 = v1
  Call = {c1, c2, c3}
  UserId = {u1}
  RowId = {r1, r2, r3}
  Field = {"firstName", "bio"}
  Value = {v0, v1}
  NoUser = NoUser
  NoRow = NoRow
  NoValue = NoValue
  Initial <- InitialFields
  SeedOwner <- NoSeed
  MaxCrash = 1
SYMMETRY RequestSymmetry
INVARIANTS TypeOK OneKeptProfilePerUser CreatesAgree ClashMeansRemoved UpdatesInTurnAdd
CHECK_DEADLOCK FALSE
