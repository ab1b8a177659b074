\* Two deletions of one profile by the admin, none restarted.
SPECIFICATION Spec
CONSTANTS
  admin = admin
  u1 = u1
  u2 = u2
  u3 = u3
  ea = ea
  e1 = e1
  e2 = e2
  Call = {c1, c2}
  User = {admin, u1, u2, u3}
  Email = {ea, e1, e2}
  Admins <- OnlyAdmin
  SeedEmail <- Seeds
  SeedProfiles <- SeedWithProfile
  NoUser = NoUser
  NoEmail = NoEmail
  NoToken = NoToken
  Ops = {"remove"}
  Headers = {"Bearer"}
  AccessExpiresIn <- TwoSeconds
  Moments = {}
  MaxRestart = 0
SYMMETRY RequestSymmetry
INVARIANTS NotFoundMeansRemoved
CHECK_DEADLOCK FALSE
