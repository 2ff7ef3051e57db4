---------------------------- MODULE Enrollments ----------------------------
(***************************************************************************)
(* EnrollmentsService: enroll (without the idempotency wrapper) and        *)
(* updateProgress, on the table enrollments, next to the changes of a      *)
(* course that they race with.                                             *)
(*                                                                         *)
(* The unique constraint allows one row per student and course, so a pair  *)
(* names the row.  A course that is deleted does not come back here: the   *)
(* stale save that re-creates one is a matter of Courses.  A Request is    *)
(* one HTTP call; a step is the code between two awaits.                   *)
(***************************************************************************)
EXTENDS Naturals, FiniteSets, Repository

CONSTANTS
  Request,    \* HTTP calls, each made at most once
  Student,    \* users who have the role of a student now: an admin may have
              \* given it to the tutor of a course
  Course,     \* courses, by id
  TutorOf,    \* the user who owns each course
  Progress,   \* the values of dto.progress that are sent
  Full,       \* 100: the progress that completes an enrollment
  Nobody,     \* no transaction holds the row
  NoRow,      \* no row
  Faults      \* "crash", "dbLost", "dbAmbiguous"

ASSUME ProgressAssumption == Full \in Nat \ {0} /\ Progress \subseteq 0 .. Full
ASSUME SomeAssumption == Student # {} /\ Course # {} /\ Progress # {}
ASSUME NobodyAssumption == Nobody \notin Request
ASSUME FaultAssumption == Faults \subseteq {"crash", "dbLost", "dbAmbiguous"}

Pair == Student \X Course

Row == [status : {"active", "completed", "dropped"}, progress : 0 .. Full]

ASSUME NoRowAssumption == NoRow \notin Row

NewEnrollment == [status |-> "active", progress |-> 0]

(* pair: the enrollment a request is about; progress: dto.progress.        *)
Call == [pair : Pair, progress : Progress]

(* What call holds of a request that has not arrived.                      *)
AnyCall == CHOOSE c \in Call : TRUE

Step == {"idle", "check", "dropped", "insert", "reload", "update",
         "lock", "save", "rollback", "done"}

Kind == {"pending", "enrolled", "updated", "notFound", "selfEnrollment",
         "conflict", "invalidReference", "notActive", "error", "lost"}

VARIABLES
  course,    \* the course rows: published or not, or deleted
  row,       \* the enrollment of each student in each course
  lock,      \* the transaction that holds the row FOR UPDATE
  pc,        \* the await at which a request stands
  call,      \* whom and what a request is about
  memory,    \* the entity a request has loaded and changed
  reloaded,  \* the row as save() has read it again
  answer,    \* how a request ended
  acked,     \* history: the highest progress answered with 200 since the
             \* student has (re)enrolled
  drops,     \* history: how often an operator has dropped an enrollment
  contested  \* history: the dropped enrollments two requests held at a time

history == <<acked, drops, contested>>
vars == <<course, row, lock, pc, call, memory, reloaded, answer, history>>

TypeOK ==
  /\ course \in [Course -> {"draft", "published", "deleted"}]
  /\ row \in [Pair -> Row \cup {NoRow}]
  /\ lock \in [Pair -> Request \cup {Nobody}]
  /\ pc \in [Request -> Step]
  /\ call \in [Request -> Call]
  /\ memory \in [Request -> Row \cup {NoRow}]
  /\ reloaded \in [Request -> Row \cup {NoRow}]
  /\ answer \in [Request -> Kind]
  /\ acked \in [Pair -> 0 .. Full]
  /\ drops \in [Pair -> Nat]
  /\ contested \subseteq Pair

Init ==
  /\ course \in [Course -> {"draft", "published"}]
  /\ row = [p \in Pair |-> NoRow]
  /\ lock = [p \in Pair |-> Nobody]
  /\ pc = [r \in Request |-> "idle"]
  /\ call = [r \in Request |-> AnyCall]
  /\ memory = [r \in Request |-> NoRow]
  /\ reloaded = [r \in Request |-> NoRow]
  /\ answer = [r \in Request |-> "pending"]
  /\ acked = [p \in Pair |-> 0]
  /\ drops = [p \in Pair |-> 0]
  /\ contested = {}

(***************************************************************************)
(* Helpers                                                                 *)
(***************************************************************************)
Enrollment(r) == row[call[r].pair]
CourseOf(p) == course[p[2]]

Go(r, step) ==
  /\ pc' = [pc EXCEPT ![r] = step]
  /\ UNCHANGED answer

Finish(r, kind) ==
  /\ pc' = [pc EXCEPT ![r] = "done"]
  /\ answer' = [answer EXCEPT ![r] = kind]

Exists(p) == row[p] # NoRow
Blocks(p) == Exists(p) /\ row[p].status \in {"active", "completed"}

(* The UPDATE of save(): one that finds no row is no error.                *)
Write(r, p, seen) ==
  row' = IF Exists(p) THEN [row EXCEPT ![p] = Updated(@, memory[r], seen)] ELSE row

Release(r) == lock' = [p \in Pair |-> IF lock[p] = r THEN Nobody ELSE lock[p]]

(***************************************************************************)
(* enroll                                                                  *)
(***************************************************************************)
(* findPublishedCourseOrFail and assertNotSelfEnrollment.                  *)
FindCourse(r, p) ==
  /\ pc[r] = "idle"
  /\ call' = [call EXCEPT ![r].pair = p]
  /\ UNCHANGED <<course, row, lock, memory, reloaded, history>>
  /\ \/ CourseOf(p) # "published" /\ Finish(r, "notFound")
     \/ CourseOf(p) = "published" /\ p[1] = TutorOf[p[2]] /\ Finish(r, "selfEnrollment")
     \/ CourseOf(p) = "published" /\ p[1] # TutorOf[p[2]] /\ Go(r, "check")

(* assertNoActiveOrCompletedEnrollment.                                    *)
CheckExisting(r) ==
  /\ pc[r] = "check"
  /\ UNCHANGED <<course, row, lock, call, memory, reloaded, history>>
  /\ IF Blocks(call[r].pair) THEN Finish(r, "conflict") ELSE Go(r, "dropped")

(* Another request has loaded the dropped enrollment p to reactivate it.   *)
Reactivating(r, p) ==
  \E other \in Request \ {r} : call[other].pair = p /\ pc[other] \in {"reload", "update"}

(* tryReactivateDroppedEnrollment, up to its save.                         *)
FindDropped(r) ==
  LET p == call[r].pair IN
    /\ pc[r] = "dropped"
    /\ UNCHANGED <<course, row, lock, call, reloaded, acked, drops>>
    /\ IF Exists(p) /\ row[p].status = "dropped"
         THEN /\ memory' = [memory EXCEPT ![r] = NewEnrollment]
              /\ contested' = IF Reactivating(r, p) THEN contested \cup {p} ELSE contested
              /\ Go(r, "reload")
         ELSE /\ Go(r, "insert")
              /\ UNCHANGED <<memory, contested>>

(* The save of the dropped entity reads the row again.  A row that is gone *)
(* is inserted, one that is already as wanted needs no UPDATE.             *)
Reload(r) ==
  /\ pc[r] = "reload"
  /\ reloaded' = [reloaded EXCEPT ![r] = Enrollment(r)]
  /\ UNCHANGED <<course, row, lock, call, memory, history>>
  /\ IF Enrollment(r) = NoRow THEN Go(r, "insert")
     ELSE IF Dirty(memory[r], Enrollment(r)) = {} THEN Finish(r, "enrolled")
     ELSE Go(r, "update")

(* Its UPDATE waits for a transaction that holds the row.                  *)
Reactivate(r) ==
  LET p == call[r].pair IN
    /\ pc[r] = "update"
    /\ lock[p] = Nobody
    /\ Write(r, p, reloaded[r])
    /\ acked' = [acked EXCEPT ![p] = 0]
    /\ UNCHANGED <<course, lock, call, memory, reloaded, drops, contested>>

UpdateDropped(r) == Reactivate(r) /\ Finish(r, "enrolled")

(* Mutant: the table has no unique constraint and the insert goes through. *)
InsertEnrollment_NoConstraint(r) ==
  LET p == call[r].pair IN
    /\ pc[r] = "insert"
    /\ row' = [row EXCEPT ![p] = NewEnrollment]
    /\ Finish(r, "enrolled")
    /\ UNCHANGED <<course, lock, call, memory, reloaded, history>>

(* Mutant: every error of the insert is taken for the unique violation.    *)
InsertEnrollment_AnyViolation(r) ==
  LET p == call[r].pair IN
    /\ pc[r] = "insert"
    /\ UNCHANGED <<course, lock, call, memory, reloaded, history>>
    /\ IF CourseOf(p) = "deleted" \/ Exists(p)
         THEN Finish(r, "conflict") /\ UNCHANGED row
         ELSE row' = [row EXCEPT ![p] = NewEnrollment] /\ Finish(r, "enrolled")

(* createEnrollmentSafely: the unique constraint refuses a second row of   *)
(* the pair, and that error becomes a conflict; the violation of the       *)
(* foreign key by a course that is gone is thrown on as it is.             *)
InsertEnrollment(r) ==
  LET p == call[r].pair IN
    /\ pc[r] = "insert"
    /\ UNCHANGED <<course, lock, call, memory, reloaded, history>>
    /\ \/ Exists(p) /\ Finish(r, "conflict") /\ UNCHANGED row
       \/ CourseOf(p) = "deleted" /\ Finish(r, "invalidReference") /\ UNCHANGED row
       \/ /\ CourseOf(p) # "deleted" /\ ~ Exists(p)
          /\ row' = [row EXCEPT ![p] = NewEnrollment]
          /\ Finish(r, "enrolled")

(***************************************************************************)
(* updateProgress: one transaction                                         *)
(***************************************************************************)
Maximum(a, b) == IF a >= b THEN a ELSE b

BeginProgress(r, p, v) ==
  /\ pc[r] = "idle"
  /\ call' = [call EXCEPT ![r] = [pair |-> p, progress |-> v]]
  /\ Go(r, "lock")
  /\ UNCHANGED <<course, row, lock, memory, reloaded, history>>

(* Mutants of the entity: the sum is taken for the maximum, the status is  *)
(* left alone, a late update replaces the progress.                        *)
Advanced_Sum(e, v) ==
  [status |-> IF e.progress + v = Full THEN "completed" ELSE e.status,
   progress |-> e.progress + v]
Advanced_StatusKept(e, v) ==
  [status |-> e.status, progress |-> Maximum(e.progress, v)]
Advanced_Replaced(e, v) ==
  [status |-> IF v = Full THEN "completed" ELSE e.status, progress |-> v]

(* The assignments to the entity after the status check.                   *)
Advanced(e, v) ==
  LET nextProgress == Maximum(e.progress, v) IN
    [status |-> IF nextProgress = Full THEN "completed" ELSE e.status,
     progress |-> nextProgress]

(* Mutant: the row is read without FOR UPDATE.                             *)
LockRow_NoLock(r) ==
  /\ pc[r] = "lock"
  /\ UNCHANGED <<course, row, lock, call, reloaded, history>>
  /\ IF Exists(call[r].pair) /\ Enrollment(r).status = "active"
       THEN /\ memory' = [memory EXCEPT ![r] = Advanced(Enrollment(r), call[r].progress)]
            /\ Go(r, "save")
       ELSE /\ Finish(r, "notFound")
            /\ UNCHANGED memory

(* Mutant: only a dropped enrollment counts as not active.                 *)
LockRow_DroppedOnly(r) ==
  LET p == call[r].pair
      refused == Exists(p) /\ row[p].status = "dropped" IN
    /\ pc[r] = "lock"
    /\ lock[p] = Nobody
    /\ UNCHANGED <<course, row, call, reloaded, history>>
    /\ \/ ~ Exists(p) /\ Finish(r, "notFound") /\ UNCHANGED <<lock, memory>>
       \/ /\ Exists(p)
          /\ lock' = [lock EXCEPT ![p] = r]
          /\ memory' = IF refused THEN memory
                       ELSE [memory EXCEPT ![r] = Advanced(row[p], call[r].progress)]
          /\ Go(r, IF refused THEN "rollback" ELSE "save")

(* SELECT ... FOR UPDATE waits for the holder of the row, then the code    *)
(* decides on what it has read.                                            *)
LockRow(r) ==
  LET p == call[r].pair IN
    /\ pc[r] = "lock"
    /\ lock[p] = Nobody
    /\ UNCHANGED <<course, row, call, reloaded, history>>
    /\ \/ /\ ~ Exists(p)
          /\ Finish(r, "notFound")
          /\ UNCHANGED <<lock, memory>>
       \/ /\ Exists(p)
          /\ row[p].status # "active"
          /\ lock' = [lock EXCEPT ![p] = r]
          /\ Go(r, "rollback")
          /\ UNCHANGED memory
       \/ /\ Exists(p)
          /\ row[p].status = "active"
          /\ lock' = [lock EXCEPT ![p] = r]
          /\ memory' = [memory EXCEPT ![r] = Advanced(row[p], call[r].progress)]
          /\ Go(r, "save")

(* save inside the transaction and its COMMIT: nobody else can write the   *)
(* row in between, so the row is reloaded and updated in one step.         *)
Commit(r) ==
  /\ Write(r, call[r].pair, Enrollment(r))
  /\ Release(r)

SaveProgress(r) ==
  LET p == call[r].pair IN
    /\ pc[r] = "save"
    /\ Commit(r)
    /\ Finish(r, "updated")
    /\ acked' = [acked EXCEPT ![p] = Maximum(@, memory[r].progress)]
    /\ UNCHANGED <<course, call, memory, reloaded, drops, contested>>

(* Mutant: the transaction is left open when the callback throws.          *)
Rollback_LeftOpen(r) ==
  /\ pc[r] = "rollback"
  /\ Finish(r, "notActive")
  /\ UNCHANGED <<course, row, lock, call, memory, reloaded, history>>

(* The callback threw ENROLLMENT_NOT_ACTIVE.                               *)
Rollback(r) ==
  /\ pc[r] = "rollback"
  /\ Release(r)
  /\ Finish(r, "notActive")
  /\ UNCHANGED <<course, row, call, memory, reloaded, history>>

(***************************************************************************)
(* Faults                                                                  *)
(***************************************************************************)
(* A statement fails and so does the request; an open transaction is       *)
(* rolled back.                                                            *)
CallFails(r) ==
  /\ "dbLost" \in Faults
  /\ pc[r] \notin {"idle", "done"}
  /\ Release(r)
  /\ Finish(r, "error")
  /\ UNCHANGED <<course, row, call, memory, reloaded, history>>

(* The INSERT is carried out, but its answer is lost.                      *)
InsertAmbiguous(r) ==
  LET p == call[r].pair IN
    /\ "dbAmbiguous" \in Faults
    /\ pc[r] = "insert"
    /\ CourseOf(p) # "deleted" /\ ~ Exists(p)
    /\ row' = [row EXCEPT ![p] = NewEnrollment]
    /\ Finish(r, "error")
    /\ UNCHANGED <<course, lock, call, memory, reloaded, history>>

(* So is the UPDATE that reactivates an enrollment.                        *)
UpdateAmbiguous(r) ==
  /\ "dbAmbiguous" \in Faults
  /\ Reactivate(r)
  /\ Finish(r, "error")

(* COMMIT is carried out, but its answer is lost.                          *)
CommitAmbiguous(r) ==
  /\ "dbAmbiguous" \in Faults
  /\ pc[r] = "save"
  /\ Commit(r)
  /\ Finish(r, "error")
  /\ UNCHANGED <<course, call, memory, reloaded, history>>

InFlight == {r \in Request : pc[r] \notin {"idle", "done"}}

(* The server dies; the database ends the transactions of its connections. *)
Crash ==
  /\ "crash" \in Faults
  /\ InFlight # {}
  /\ pc' = [r \in Request |-> IF r \in InFlight THEN "done" ELSE pc[r]]
  /\ answer' = [r \in Request |-> IF r \in InFlight THEN "lost" ELSE answer[r]]
  /\ lock' = [p \in Pair |-> Nobody]
  /\ UNCHANGED <<course, row, call, memory, reloaded, history>>

(***************************************************************************)
(* The course and the operator                                             *)
(***************************************************************************)
(* CoursesService.updateCourse with isPublished.                           *)
PublishCourse(c) ==
  /\ course[c] # "deleted"
  /\ course' = [course EXCEPT ![c] = IF @ = "draft" THEN "published" ELSE "draft"]
  /\ UNCHANGED <<row, lock, pc, call, memory, reloaded, answer, history>>

(* CoursesService.removeCourse: the DELETE cascades to the enrollments and *)
(* waits for the transactions that hold one of them.                       *)
RemoveCourse(c) ==
  /\ course[c] # "deleted"
  /\ \A s \in Student : lock[<<s, c>>] = Nobody
  /\ course' = [course EXCEPT ![c] = "deleted"]
  /\ row' = [p \in Pair |-> IF p[2] = c THEN NoRow ELSE row[p]]
  /\ UNCHANGED <<lock, pc, call, memory, reloaded, answer, history>>

(* Nothing in the repository sets DROPPED; a statement by hand may.        *)
OperatorDrops(p) ==
  /\ Exists(p)
  /\ row[p].status = "active"
  /\ lock[p] = Nobody
  /\ row' = [row EXCEPT ![p].status = "dropped"]
  /\ drops' = [drops EXCEPT ![p] = @ + 1]
  /\ UNCHANGED <<course, lock, pc, call, memory, reloaded, answer, acked, contested>>

(***************************************************************************)
(* The specification                                                       *)
(***************************************************************************)
Arrival(r) ==
  \E p \in Pair : FindCourse(r, p) \/ \E v \in Progress : BeginProgress(r, p, v)

Handle(r) ==
  \/ CheckExisting(r) \/ FindDropped(r) \/ Reload(r) \/ UpdateDropped(r)
  \/ InsertEnrollment(r) \/ LockRow(r) \/ SaveProgress(r) \/ Rollback(r)

Next ==
  \/ \E r \in Request : Arrival(r) \/ Handle(r) \/ CallFails(r)
                      \/ InsertAmbiguous(r) \/ UpdateAmbiguous(r) \/ CommitAmbiguous(r)
  \/ \E c \in Course : PublishCourse(c) \/ RemoveCourse(c)
  \/ \E p \in Pair : OperatorDrops(p)
  \/ Crash

Spec == Init /\ [][Next]_vars

(* Every statement is answered in the end, and a row lock that is released *)
(* is granted to a transaction that waits for it.                          *)
FairSpec == Spec /\ \A r \in Request : WF_vars(Handle(r))

(***************************************************************************)
(* Properties                                                              *)
(***************************************************************************)
(* Two requests that load one dropped enrollment at a time undo what comes *)
(* between their saves; nothing is claimed of these, the contested ones.   *)

(* status COMPLETED and progress 100 go together in every row a reader can *)
(* see, however updates, drops, reactivations, failures and crashes        *)
(* interleave (lines 112-119, 199-201).                                    *)
CompletedIffFull ==
  \A p \in Pair \ contested :
    Exists(p) => (row[p].status = "completed" <=> row[p].progress = Full)

(* Progress never goes back, whatever the order in which updates arrive,   *)
(* take the lock and commit; only the reactivation of a dropped enrollment *)
(* starts it again (lines 96-119, 191-201).                                *)
ProgressNeverDecreases ==
  [][\A p \in Pair \ contested :
       Exists(p) /\ Exists(p)' /\ row[p].status # "dropped" =>
         row'[p].progress >= row[p].progress]_vars

(* A progress that was answered with 200 is not lost, neither to an update *)
(* that read the row before it (lines 96-101 take the lock, line 119       *)
(* saves), nor to a reactivation that started before it and saves later.   *)
AckedProgressKept ==
  \A p \in Pair \ contested : Exists(p) => row[p].progress >= acked[p]

(* Of the requests to enroll one student in one course, sequential or      *)
(* concurrent, at most one is answered 201, and one more for each time the *)
(* enrollment was dropped (lines 154-201, 204-215;                         *)
(* test/enrollments.e2e-spec.ts:225).                                      *)
OneEnrollmentWins ==
  \A p \in Pair \ contested :
    Cardinality({r \in Request : answer[r] = "enrolled" /\ call[r].pair = p}) <= 1 + drops[p]

(* Every request is answered although transactions wait for each other:    *)
(* no path keeps a row locked.                                             *)
EveryRequestAnswered ==
  \A r \in Request : pc[r] # "idle" ~> pc[r] = "done"
=============================================================================
