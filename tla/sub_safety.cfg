\* Three requests about one submission, two tutors, lost answers and crashes.
SPECIFICATION Spec
CONSTANTS
  t1 = t1
  t2 = t2
  a1 = a1
  a2 = a2
  Request = {r1, r2, r3}
  Student = {s1}
  Tutor = {t1, t2}
  Assignment = {a1, a2}
  TutorOf <- TutorOfTwo
  Score = {0}
  Absent = Absent
  Null = Null
  NoDoc = NoDoc
  Faults = {"crash", "dbLost", "dbAmbiguous"}
SYMMETRY RequestSymmetry
INVARIANTS TypeOK AckedSubmissionStands AckedReviewStands FeedbackIsByOwner TrailTellsState
PROPERTIES ReviewIsFinal HiddenUntilShown ImplementsDesk
CHECK_DEADLOCK FALSE
