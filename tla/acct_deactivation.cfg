\* A deactivation and a request of the user that only changes the name.
SPECIFICATION Spec
CONSTANTS
  u1 = u1
  u2 = u2
  Request = {r1, r2}
  User = {u1, u2}
  FirstUsers <- AdminAndStudent
  Role = {"student", "admin"}
  Operation = {"status", "rename"}
  NoUser = NoUser
  NoToken = NoToken
  OldToken = OldToken
  Faults = {}
SYMMETRY RequestSymmetry
INVARIANT DeactivationSticks
CHECK_DEADLOCK FALSE
