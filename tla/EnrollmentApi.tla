---------------------------- MODULE EnrollmentApi ----------------------------
(***************************************************************************)
(* POST /enrollments as a client sees it, for one student: the idempotency *)
(* wrapper (Idempotency), run() inside it (enroll of Enrollments), the     *)
(* exception filter around both, the courses that change meanwhile, and    *)
(* the list of the student's enrollments.                                  *)
(*                                                                         *)
(* The payload of a request is the course it names, and the entity run()   *)
(* creates is the enrollment in that course.  W is the wrapper with        *)
(* `entity` as the ids of the enrollments, E the service with its rows.    *)
(***************************************************************************)
EXTENDS Naturals, FiniteSets, SequencesExt, ExceptionFilter

CONSTANTS
  Request, Key, NoKey, LongKey, Course, Nobody, NoRow, WaitRetries, Faults,
  TutorOf,    \* the user who owns each course
  student,    \* the user whose requests these are
  OldRow,     \* ids of the student's enrollments in courses left alone here
  Earlier,    \* those enrollments, newest first
  Reader,     \* clients that read the list of enrollments
  Limit       \* the rows of a page

ASSUME KeyAssumption == NoKey \notin Key /\ LongKey \notin Key /\ NoKey # LongKey
ASSUME NobodyAssumption == Nobody \notin Request
ASSUME WaitAssumption == WaitRetries \in Nat \ {0}
ASSUME CourseAssumption == Course # {}
ASSUME FaultAssumption == Faults \subseteq {"crash", "expiry", "dbLost", "dbAmbiguous"}
ASSUME EarlierAssumption == Earlier \in Seq(OldRow)
ASSUME LimitAssumption == Limit \in Nat \ {0}

VARIABLES
  pc, call, row, watched, polls, holds, outcome, entity, made,  \* Idempotency
  course, enrollment, step, about, answer,                      \* Enrollments
  newest,     \* the enrollments of the student, newest first
  at, page, got, missing                                        \* Lists

wrapper == <<pc, call, row, watched, polls, holds, outcome, entity, made>>
service == <<course, enrollment, step, about, answer>>
list == <<at, page, got, missing>>
vars == <<wrapper, service, newest, list>>

W == INSTANCE Idempotency WITH
  Payload <- Course, Resource <- Course, ResourceOf <- [c \in Course |-> c],
  Faults <- Faults \cup {"removal"}

(* No update of progress and no dropped enrollment takes part: nobody      *)
(* holds a row lock and no entity is loaded to be changed.                 *)
E == INSTANCE Enrollments WITH
  row <- enrollment, pc <- step, call <- about,
  Student <- {student}, Progress <- {0}, Full <- 100,
  Faults <- Faults \ {"expiry"},
  lock <- [p \in {student} \X Course |-> Nobody],
  memory <- [r \in Request |-> NoRow], reloaded <- [r \in Request |-> NoRow],
  acked <- [p \in {student} \X Course |-> 0],
  drops <- [p \in {student} \X Course |-> 0], contested <- {}

L == INSTANCE Lists WITH table <- newest

TypeOK ==
  /\ W!TypeOK
  /\ E!TypeOK
  /\ newest \in Seq(Request \cup OldRow)
  /\ L!ListTypeOK

Init ==
  /\ W!Init
  /\ E!Init
  /\ newest = Earlier
  /\ L!ListInit

ASSUME NoRowAssumption == NoRow \notin W!Row \cup E!Row

(***************************************************************************)
(* The wrapper outside of run()                                            *)
(***************************************************************************)
Arrive(r) ==
  /\ W!Arrival(r)
  /\ UNCHANGED <<service, newest, list>>

Wrap(r) ==
  /\ \/ W!Create(r) \/ W!Refind(r) \/ W!Poll(r) \/ W!Replay(r)
     \/ W!SaveCompleted(r) \/ W!DeleteRow(r)
  /\ UNCHANGED <<service, newest, list>>

WrapFails(r) ==
  /\ W!CallFails(r) \/ W!CreateAmbiguous(r) \/ W!SaveLost(r) \/ W!SaveAmbiguous(r)
  /\ UNCHANGED <<service, newest, list>>

Expire(r) ==
  /\ W!Expire(r)
  /\ UNCHANGED <<service, newest, list>>

(***************************************************************************)
(* run(): enrollOnce, one statement at a time, and what it returns         *)
(***************************************************************************)
PairOf(r) == <<student, call[r].payload>>

(* The first statement, the look-up of the course, fails.                  *)
FindCourseFails(r) ==
  /\ "dbLost" \in Faults
  /\ step[r] = "idle"
  /\ step' = [step EXCEPT ![r] = "done"]
  /\ answer' = [answer EXCEPT ![r] = "error"]
  /\ UNCHANGED <<course, enrollment, about>>

Statement(r) ==
  \/ E!FindCourse(r, PairOf(r)) \/ FindCourseFails(r)
  \/ E!CheckExisting(r) \/ E!FindDropped(r)
  \/ E!InsertEnrollment(r) \/ E!InsertAmbiguous(r) \/ E!CallFails(r)

Inserted(r) == enrollment[PairOf(r)] = NoRow /\ enrollment'[PairOf(r)] # NoRow

(* created_at is taken when the INSERT begins, so that a row may show up   *)
(* behind one that was inserted meanwhile, but before the earlier ones.    *)
Record(r) ==
  \/ /\ Inserted(r)
     /\ entity' = [entity EXCEPT ![call[r].payload] = r]
     /\ made' = made \cup {r}
     /\ \E i \in 1 .. Len(newest) + 1 - Len(Earlier) : newest' = InsertAt(newest, i, r)
  \/ /\ ~ Inserted(r)
     /\ UNCHANGED <<entity, made, newest>>

(* Mutant: the answer overtakes the save of the record.                    *)
Return_AnswersFirst(r) ==
  \/ /\ step'[r] # "done"
     /\ UNCHANGED <<pc, outcome>>
  \/ /\ step'[r] = "done" /\ answer'[r] = "enrolled"
     /\ W!Finish(r, [kind |-> "created", entity |-> r])
  \/ /\ step'[r] = "done" /\ answer'[r] = "conflict"
     /\ W!ThrowFromRun(r, "conflict")
  \/ /\ step'[r] = "done" /\ answer'[r] \notin {"enrolled", "conflict"}
     /\ W!ThrowFromRun(r, "rejected")

(* The result of run() goes to the save of the record, an exception to the *)
(* catch block; without a record both go to the caller.                    *)
Return(r) ==
  \/ /\ step'[r] # "done"
     /\ UNCHANGED <<pc, outcome>>
  \/ /\ step'[r] = "done" /\ answer'[r] = "enrolled"
     /\ outcome' = [outcome EXCEPT ![r] = [kind |-> "created", entity |-> r]]
     /\ W!Go(r, IF holds[r] THEN "save" ELSE "done")
  \/ /\ step'[r] = "done" /\ answer'[r] = "conflict"
     /\ W!ThrowFromRun(r, "conflict")
  \/ /\ step'[r] = "done" /\ answer'[r] \notin {"enrolled", "conflict"}
     /\ W!ThrowFromRun(r, "rejected")

Run(r) ==
  /\ pc[r] = "run"
  /\ Statement(r)
  /\ Record(r)
  /\ Return(r)
  /\ UNCHANGED <<call, row, watched, polls, holds, list>>

(***************************************************************************)
(* The answer                                                              *)
(***************************************************************************)
(* What enrollOnce throws.                                                 *)
ThrownByRun(kind) ==
  CASE kind = "notFound" -> HttpException(NOT_FOUND)
    [] kind = "selfEnrollment" -> HttpException(BAD_REQUEST)
    [] kind = "invalidReference" -> QueryFailedError(FOREIGN_KEY_VIOLATION)
    [] OTHER -> QueryFailedError("57P01")

(* What execute throws.                                                    *)
Thrown(r) ==
  CASE outcome[r].kind \in {"conflict", "mismatch", "inProgress"} -> HttpException(CONFLICT)
    [] outcome[r].kind = "badKey" -> HttpException(BAD_REQUEST)
    [] outcome[r].kind = "gone" -> HttpException(NOT_FOUND)
    [] outcome[r].kind = "rejected" -> ThrownByRun(answer[r])
    [] OTHER -> QueryFailedError("57P01")

Answered(r) == pc[r] = "done" /\ outcome[r].kind # "lost"

Status(r) ==
  IF outcome[r].kind \in {"created", "replayed"} THEN CREATED ELSE StatusOf(Thrown(r))

(***************************************************************************)
(* The list, the tutor and the process                                     *)
(***************************************************************************)
(* GET /enrollments/my; the administrator's list of enrollments, asked for *)
(* this student, takes the same two statements.                            *)
ReadList(q) ==
  /\ L!Find(q) \/ L!Count(q)
  /\ UNCHANGED <<wrapper, service, newest>>

ReadListFails(q) ==
  /\ "dbLost" \in Faults
  /\ at[q] \in {"find", "count"}
  /\ L!Abandon({q})
  /\ UNCHANGED <<wrapper, service, newest>>

PublishCourse(c) ==
  /\ E!PublishCourse(c)
  /\ UNCHANGED <<wrapper, newest, list>>

(* DELETE of a course cascades to its enrollments; the student has one or  *)
(* none, and the list shows it once.                                       *)
RemoveCourse(c) ==
  /\ E!RemoveCourse(c)
  /\ entity' = [entity EXCEPT ![c] = Nobody]
  /\ \/ /\ entity[c] = Nobody
        /\ UNCHANGED <<newest, list>>
     \/ \E i \in DOMAIN newest :
          /\ newest[i] = entity[c]
          /\ newest' = RemoveAt(newest, i)
          /\ L!RowsLeave
  /\ UNCHANGED <<pc, call, row, watched, polls, holds, outcome, made>>

(* The process dies with the requests inside and outside of run() and with *)
(* the reads of the list.                                                  *)
Crash ==
  /\ W!Crash
  /\ \/ E!Crash
     \/ E!InFlight = {} /\ UNCHANGED service
  /\ L!Abandon({q \in Reader : at[q] = "count"})
  /\ UNCHANGED newest

Next ==
  \/ \E r \in Request : Arrive(r) \/ Wrap(r) \/ Run(r) \/ WrapFails(r) \/ Expire(r)
  \/ \E c \in Course : PublishCourse(c) \/ RemoveCourse(c)
  \/ \E q \in Reader : ReadList(q) \/ ReadListFails(q)
  \/ Crash

Spec == Init /\ [][Next]_vars

(***************************************************************************)
(* Properties                                                              *)
(***************************************************************************)
(* The service inside the wrapper is one of the run() the wrapper was      *)
(* written for: all that is proved of Idempotency holds of POST            *)
(* /enrollments (enroll, lines 38-48, around enrollOnce, lines 51-68).     *)
ImplementsIdempotency == W!Spec

(* A request that was refused, with a status from 400 to 499, has not      *)
(* enrolled the student: whatever failed after the INSERT, be it the save  *)
(* of the record or an answer that was lost, is a 5xx to the client, who   *)
(* may then ask again (http-exception.filter.ts:42-114).                   *)
RefusedChangedNothing ==
  \A r \in Request : Answered(r) /\ Refused(Status(r)) => r \notin made

(* ALREADY_ENROLLED means that another request has enrolled the student:   *)
(* neither a course that has gone nor an error of the database is taken    *)
(* for it (lines 154-170, 204-215).                                        *)
ConflictHasAWinner ==
  \A r \in Request :
    Answered(r) /\ outcome[r].kind = "conflict" =>
      \E o \in made \ {r} : call[o].payload = call[r].payload

(* However often the button is pressed, with one key, several or none, and *)
(* whatever fails in between: all answers 201 for one course name the same *)
(* enrollment (README.md:22, test/enrollments.e2e-spec.ts:225).            *)
DoubleClickIsOneEnrollment ==
  \A a, b \in Request :
    /\ Answered(a) /\ Status(a) = CREATED
    /\ Answered(b) /\ Status(b) = CREATED
    /\ call[a].payload = call[b].payload
    => outcome[a].entity = outcome[b].entity

StableRowsAreListed == L!StableRowsAreListed
==============================================================================
