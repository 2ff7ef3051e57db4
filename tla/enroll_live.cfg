\* Three requests for one student and one course, with crashes and failed
\* statements, while the course is published, unpublished and deleted.
SPECIFICATION FairSpec
CONSTANTS
  s1 = s1
  tutor = tutor
  c1 = c1
  Request = {r1, r2, r3}
  Student = {s1, tutor}
  Course = {c1}
  TutorOf <- TutorOfC1
  Progress = {40, 70, 100}
  Full = 100
  Nobody = Nobody
  NoRow = NoRow
  Faults = {"crash", "dbLost", "dbAmbiguous"}
INVARIANTS TypeOK CompletedIffFull AckedProgressKept OneEnrollmentWins
PROPERTIES ProgressNeverDecreases EveryRequestAnswered ImplementsBook
CHECK_DEADLOCK FALSE
