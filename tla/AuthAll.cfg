\* Every operation, two requests at a time beside ensureAdmin, one restart, fair handlers.
SPECIFICATION FairSpec
CONSTANTS
  u1 = u1
  u2 = u2
  u3 = u3
  e1 = e1
  e2 = e2
  p1 = p1
  p2 = p2
  Call = {c1, c2}
  Boot = Boot
  UserId = {u1, u2, u3}
  Email = {e1}
  Password = {p1, p2}
  NoUser = NoUser
  NoEmail = NoEmail
  NoPassword = NoPassword
  NoToken = NoToken
  Ops = {"register", "login", "refresh", "logout", "changePassword", "deactivate"}
  SeedUser <- OneSeed
  SeedEmail <- OneSeedEmail
  SeedPassword <- OneSeedPassword
  AdminEmail = e1
  AdminPassword = p1
  RefreshExpiresIn <- OneSecond
  MaxTime = 1
  MaxCrash = 1
INVARIANTS TypeOK EmailUniqueAmongKept
PROPERTIES RotationOnlyForActiveUser PasswordOnlyByItsChange EveryRequestAnswered
CHECK_DEADLOCK FALSE
