\* A body with "score": null, which the DTO lets through.
SPECIFICATION Spec
CONSTANTS
  t1 = t1
  t2 = t2
  a1 = a1
  a2 = a2
  Request = {r1, r2}
  Student = {s1}
  Tutor = {t1}
  Assignment = {a1}
  TutorOf <- TutorOfOne
  Score = {90, Null}
  Absent = Absent
  Null = Null
  NoDoc = NoDoc
  Faults = {}
SYMMETRY RequestSymmetry
INVARIANT ReviewedIffScored
CHECK_DEADLOCK FALSE
