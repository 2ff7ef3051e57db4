\* No fault of the database: a request that loses the insert, and then finds
\* the row of the winner gone, runs without a record next to a third one.
SPECIFICATION Spec
CONSTANTS
  p1 = p1
  p2 = p2
  x1 = x1
  x2 = x2
  Request = {r1, r2, r3}
  Key = {k1}
  NoKey = NoKey
  LongKey = LongKey
  Payload = {p1, p2}
  Resource = {x1, x2}
  ResourceOf <- PayloadNames
  Nobody = Nobody
  NoRow = NoRow
  WaitRetries = 2
  Faults = {}
INVARIANT SameKeySameResult
CHECK_DEADLOCK FALSE
