\* Three requests: one course, one assignment, two lectures, two orders.
SPECIFICATION Spec
CONSTANTS
  t1 = t1
  c1 = c1
  a1 = a1
  Request = {r1, r2, r3}
  Tutor = {t1, t2}
  Course = {c1}
  Assignment = {a1}
  Lecture = {l1, l2}
  TutorOf <- TutorOfC1
  CourseOf <- CourseOfA1
  Order = {1, 2}
  Null = Null
  NoRow = NoRow
  Faults = {"crash", "dbLost"}
SYMMETRY RequestSymmetry
INVARIANTS TypeOK LectureOrderUnique ChildrenHaveCourse ChangesStick
           TrailTellsState
CHECK_DEADLOCK FALSE
