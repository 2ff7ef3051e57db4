\* Two requests of one student for two courses, with one key or none, while
\* the courses come and go, calls fail, the process dies and a client walks the
\* list of enrollments: three earlier ones, two to a page, so that the rows that
\* come in at the head push others to the second and third page.
SPECIFICATION Spec
CONSTANTS
  tutor = tutor
  student = student
  Request = {r1, r2}
  Key = {k1}
  NoKey = NoKey
  LongKey = LongKey
  Course = {c1, c2}
  TutorOf <- TutorOfAll
  Nobody = Nobody
  NoRow = NoRow
  WaitRetries = 2
  Faults = {"crash", "expiry", "dbLost", "dbAmbiguous"}
  Reader = {browser}
  e1 = e1
  e2 = e2
  e3 = e3
  OldRow = {e1, e2, e3}
  Earlier <- EarlierRows
  Limit = 2
SYMMETRY RequestSymmetry
INVARIANTS TypeOK RefusedChangedNothing ConflictHasAWinner DoubleClickIsOneEnrollment StableRowsAreListed
PROPERTY ImplementsIdempotency
CHECK_DEADLOCK FALSE
