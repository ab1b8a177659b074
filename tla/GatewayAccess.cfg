\* Three deletions and changes of password over three seconds, tokens of two.
SPECIFICATION Spec
CONSTANTS
  admin = admin
  u1 = u1
  u2 = u2
  u3 = u3
  ea = ea
  e1 = e1
  e2 = e2
  Call = {c1, c2, c3}
  User = {u1}
  Email = {e1}
  Admins <- OneAdmin
  SeedEmail <- OneSeed
  SeedProfiles <- SeedWithProfile
  NoUser = NoUser
  NoEmail = NoEmail
  NoToken = NoToken
  Ops = {"remove", "changePassword"}
  Headers = {"Bearer"}
  AccessExpiresIn <- TwoSeconds
  Moments = {1, 2}
  MaxRestart = 0
SYMMETRY RequestSymmetry
INVARIANTS BarredStaysOutside DeletedStaysOutside
CHECK_DEADLOCK FALSE
