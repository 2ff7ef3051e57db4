\* Two admins change each other's role or status at the same time.
SPECIFICATION Spec
CONSTANTS
  u1 = u1
  u2 = u2
  Request = {r1, r2}
  User = {u1, u2}
  FirstUsers <- TwoAdmins
  Role = {"student", "admin"}
  Operation = {"status", "role"}
  NoUser = NoUser
  NoToken = NoToken
  OldToken = OldToken
  Faults = {}
SYMMETRY RequestSymmetry
INVARIANT ActiveAdminRemains
CHECK_DEADLOCK FALSE
