\* Two requests of any kind, with timeouts, late messages and a restart; one header
\* the guard looks up in the blacklist and one it does not.
SPECIFICATION Spec
CONSTANTS
  admin = admin
  u1 = u1
  u2 = u2
  u3 = u3
  ea = ea
  e1 = e1
  e2 = e2
  Call = {c1, c2}
  User = {u1, u2, u3}
  Email = {e1, e2}
  Admins <- OneAdmin
  SeedEmail <- OneSeed
  SeedProfiles <- SeedWithProfile
  NoUser = NoUser
  NoEmail = NoEmail
  NoToken = NoToken
  Ops = {"register", "login", "me", "updateMe", "logout", "changePassword", "update", "remove"}
  Headers = {"Bearer", "bearer"}
  AccessExpiresIn <- TwoSeconds
  Moments = {}
  MaxRestart = 1
SYMMETRY KeySymmetry
INVARIANTS TypeOK RemovedProfileOfRemovedAccount RegisteredIsUsable BarredStaysOutside
CHECK_DEADLOCK FALSE
