\* A removal and an update of one course, no faults.
SPECIFICATION Spec
CONSTANTS
  t1 = t1
  c1 = c1
  a1 = a1
  Request = {r1, r2}
  Tutor = {t1}
  Course = {c1}
  Assignment = {a1}
  Lecture = {l1}
  TutorOf <- TutorOfC1
  CourseOf <- CourseOfA1
  Order = {1, 2}
  Null = Null
  NoRow = NoRow
  Faults = {}
SYMMETRY RequestSymmetry
INVARIANT RemovedCourseIsGone
CHECK_DEADLOCK FALSE
