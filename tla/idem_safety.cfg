\* Three requests of one student, one key, every fault: what was recorded,
\* answered and replayed stays consistent.
SPECIFICATION Spec
CONSTANTS
  p1 = p1
  p2 = p2
  x1 = x1
  x2 = x2
  Request = {r1, r2, r3}
  Key = {k1}
  NoKey = NoKey
  LongKey = LongKey
  Payload = {p1, p2}
  Resource = {x1, x2}
  ResourceOf <- PayloadNames
  Nobody = Nobody
  NoRow = NoRow
  WaitRetries = 2
  Faults = {"crash", "expiry", "dbLost", "dbAmbiguous", "removal"}
SYMMETRY RequestSymmetry
INVARIANTS TypeOK ReplayFaithful RecordedBeforeAnswered OneProtectedCreation
CHECK_DEADLOCK FALSE
