\* Every operation, two users of whom one has yet to register, three calls.
SPECIFICATION Spec
CONSTANTS
  u1 = u1
  u2 = u2
  Request = {r1, r2, r3}
  User = {u1, u2}
  FirstUsers <- AdminAndNewcomer
  Role = {"student", "admin"}
  Operation = {"register", "registerAdmin", "bootstrap", "login", "loginAdmin", "refresh",
               "logout", "rename", "status", "role", "revoke"}
  NoUser = NoUser
  NoToken = NoToken
  OldToken = OldToken
  Faults = {"crash", "dbLost"}
SYMMETRY RequestSymmetry
INVARIANTS TypeOK ChangesStick OneRegistrationWins SerialKeepsAnAdmin TrailTellsState
CHECK_DEADLOCK FALSE
