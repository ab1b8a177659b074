\* A logout of every session beside a rotation in flight.
SPECIFICATION Spec
CONSTANTS
  u1 = u1
  u2 = u2
  u3 = u3
  e1 = e1
  e2 = e2
  p1 = p1
  p2 = p2
  Call = {c1, c2}
  Boot = Boot
  UserId = {u1}
  Email = {e1}
  Password = {p1}
  NoUser = NoUser
  NoEmail = NoEmail
  NoPassword = NoPassword
  NoToken = NoToken
  Ops = {"refresh", "logout"}
  SeedUser <- OneSeed
  SeedEmail <- OneSeedEmail
  SeedPassword <- OneSeedPassword
  AdminEmail = NoEmail
  AdminPassword = NoPassword
  RefreshExpiresIn <- TwoSeconds
  MaxTime = 1
  MaxCrash = 0
INVARIANTS LogoutAllEndsSessions
CHECK_DEADLOCK FALSE
