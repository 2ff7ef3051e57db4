---------------------------- MODULE Submissions ----------------------------
(***************************************************************************)
(* SubmissionsService (without the idempotency wrapper of submit) and the  *)
(* moderation of submissions by AdminContentService, on the collection     *)
(* submissions of MongoDB, next to the assignments and enrollments in      *)
(* PostgreSQL on which the checks are made.                                *)
(*                                                                         *)
(* The unique index allows one document per student and assignment, and    *)
(* none is ever removed, so a pair names the document.  Every write is one *)
(* atomic statement on one document; what it relies on was read before.    *)
(***************************************************************************)
EXTENDS Naturals, FiniteSets

CONSTANTS
  Request,     \* HTTP calls, each made at most once
  Student,     \* users with the role of a student
  Tutor,       \* users with the role of a tutor
  Assignment,  \* assignments, by id
  TutorOf,     \* the tutor of the course of each assignment
  Score,       \* the values of dto.score that are sent, Null among them or not
  Absent,      \* dto.score is undefined
  Null,        \* JSON null
  NoDoc,       \* no document
  Faults       \* "crash", "dbLost", "dbAmbiguous"

ASSUME SomeAssumption == Student # {} /\ Assignment # {}
ASSUME TutorAssumption == TutorOf \in [Assignment -> Tutor]
ASSUME ScoreAssumption == Absent \notin Score \cup {Null}
ASSUME NullAssumption == Null \notin Request
ASSUME FaultAssumption == Faults \subseteq {"crash", "dbLost", "dbAmbiguous"}

Pair == Student \X Assignment

(* content, feedback, reason: the request whose text it is; adminHiddenAt  *)
(* and reviewedAt are set together with reason and feedback.               *)
Doc == [content : Request,
        status : {"submitted", "returned", "reviewed"},
        feedback : Request \cup {Null},
        score : Score \cup {Null},
        isAdminHidden : BOOLEAN,
        adminHiddenReason : Request \cup {Null}]

(* isOverdue: the due date, which never changes, lies in the past.         *)
AssignmentRow == [isDeleted : BOOLEAN, isPublished : BOOLEAN, isOverdue : BOOLEAN]

ASSUME NoDocAssumption == NoDoc \notin Doc

Step == {"idle", "enrolled", "duplicate", "create", "owner", "feedback",
         "moderate", "audit", "done"}

Kind == {"pending", "submitted", "reviewed", "moderated", "notFound", "badRequest",
         "forbidden", "alreadySubmitted", "alreadyReviewed", "error", "lost"}

(* pair: the document; user: who calls; score, isHidden: the body.         *)
Call == [pair : Pair, user : Tutor, score : Score \cup {Absent}, isHidden : BOOLEAN]

(* What call holds of a request that has not arrived.                      *)
AnyCall == CHOOSE c \in Call : TRUE

VARIABLES
  assignment,  \* the assignment rows
  enrolled,    \* the students with a live enrollment in the course of one
  docs,        \* the collection
  pc,          \* the await at which a request stands
  call,        \* what each request asks for
  answer,      \* how it ended
  before,      \* beforeState, from the look-up of a moderation to its record
  trail,       \* afterState of the last record about each document
  untold       \* history: the documents whose trail has a gap or an overlap

audit == <<before, trail, untold>>
vars == <<assignment, enrolled, docs, pc, call, answer, audit>>

(* createModerationSnapshot                                                *)
Snapshot(d) == [isAdminHidden |-> d.isAdminHidden, adminHiddenReason |-> d.adminHiddenReason]

Shown == [isAdminHidden |-> FALSE, adminHiddenReason |-> Null]

TypeOK ==
  /\ assignment \in [Assignment -> AssignmentRow]
  /\ enrolled \subseteq Pair
  /\ docs \in [Pair -> Doc \cup {NoDoc}]
  /\ pc \in [Request -> Step]
  /\ call \in [Request -> Call]
  /\ answer \in [Request -> Kind]
  /\ LET State == [isAdminHidden : BOOLEAN, adminHiddenReason : Request \cup {Null}]
     IN  before \in [Request -> State] /\ trail \in [Pair -> State]
  /\ untold \subseteq Pair

Init ==
  /\ assignment = [a \in Assignment |->
                     [isDeleted |-> FALSE, isPublished |-> TRUE, isOverdue |-> FALSE]]
  /\ enrolled = {}
  /\ docs = [p \in Pair |-> NoDoc]
  /\ pc = [r \in Request |-> "idle"]
  /\ call = [r \in Request |-> AnyCall]
  /\ answer = [r \in Request |-> "pending"]
  /\ before = [r \in Request |-> Shown]
  /\ trail = [p \in Pair |-> Shown]
  /\ untold = {}

(***************************************************************************)
(* Helpers                                                                 *)
(***************************************************************************)
Go(r, step) ==
  /\ pc' = [pc EXCEPT ![r] = step]
  /\ UNCHANGED answer

Finish(r, kind) ==
  /\ pc' = [pc EXCEPT ![r] = "done"]
  /\ answer' = [answer EXCEPT ![r] = kind]

Exists(p) == docs[p] # NoDoc

Arrive(r, p, t, score, isHidden) ==
  /\ pc[r] = "idle"
  /\ call' = [call EXCEPT ![r] = [pair |-> p, user |-> t, score |-> score, isHidden |-> isHidden]]
  /\ UNCHANGED <<assignment, enrolled, docs>>

(***************************************************************************)
(* submit                                                                  *)
(***************************************************************************)
(* findOne, assertAssignmentPublished, assertSubmissionWithinDeadline.     *)
FindAssignment(r, p) ==
  /\ Arrive(r, p, AnyCall.user, Absent, FALSE)
  /\ UNCHANGED audit
  /\ LET found == assignment[p[2]] IN
       IF found.isDeleted THEN Finish(r, "notFound")
       ELSE IF ~ found.isPublished \/ found.isOverdue THEN Finish(r, "badRequest")
       ELSE Go(r, "enrolled")

(* assertStudentCanSubmit.                                                 *)
CheckEnrolled(r) ==
  /\ pc[r] = "enrolled"
  /\ IF call[r].pair \in enrolled THEN Go(r, "duplicate") ELSE Finish(r, "forbidden")
  /\ UNCHANGED <<assignment, enrolled, docs, call, audit>>

(* assertNoDuplicateSubmission.                                            *)
CheckDuplicate(r) ==
  /\ pc[r] = "duplicate"
  /\ IF Exists(call[r].pair) THEN Finish(r, "alreadySubmitted") ELSE Go(r, "create")
  /\ UNCHANGED <<assignment, enrolled, docs, call, audit>>

(* Mutant: a default of the schema is missing.                             *)
NewSubmission_NoDefault(r) ==
  [content |-> r, status |-> "submitted", feedback |-> Null,
   isAdminHidden |-> FALSE, adminHiddenReason |-> Null]

(* What the schema makes of the document given to create.                  *)
NewSubmission(r) ==
  [content |-> r, status |-> "submitted", feedback |-> Null, score |-> Null,
   isAdminHidden |-> FALSE, adminHiddenReason |-> Null]

(* Mutant: the collection has no unique index; readers find the last one.  *)
CreateSubmission_NoIndex(r) ==
  /\ pc[r] = "create"
  /\ docs' = [docs EXCEPT ![call[r].pair] = NewSubmission(r)]
  /\ Finish(r, "submitted")
  /\ UNCHANGED <<assignment, enrolled, call, audit>>

(* createSubmissionSafely.  MongoDB knows no foreign key: neither the      *)
(* assignment nor the enrollment is looked at again.                       *)
CreateSubmission(r) ==
  LET p == call[r].pair IN
    /\ pc[r] = "create"
    /\ IF Exists(p)
         THEN Finish(r, "alreadySubmitted") /\ UNCHANGED docs
         ELSE /\ docs' = [docs EXCEPT ![p] = NewSubmission(r)]
              /\ Finish(r, "submitted")
    /\ UNCHANGED <<assignment, enrolled, call, audit>>

(***************************************************************************)
(* addFeedback                                                             *)
(***************************************************************************)
(* findSubmissionOrFail, assertSubmissionBelongsToAssignment; a is the     *)
(* assignment in the URL.                                                  *)
FindSubmission(r, t, p, a, score) ==
  /\ Arrive(r, p, t, score, FALSE)
  /\ UNCHANGED audit
  /\ IF ~ Exists(p) THEN Finish(r, "notFound")
     ELSE IF p[2] # a THEN Finish(r, "badRequest")
     ELSE Go(r, "owner")

(* Mutant: the tutor of any course may review.                             *)
CheckOwner_AnyTutor(r) ==
  /\ pc[r] = "owner"
  /\ IF assignment[call[r].pair[2]].isDeleted THEN Finish(r, "notFound") ELSE Go(r, "feedback")
  /\ UNCHANGED <<assignment, enrolled, docs, call, audit>>

(* The assignment again, and the owner of its course.                      *)
CheckOwner(r) ==
  LET a == call[r].pair[2] IN
    /\ pc[r] = "owner"
    /\ IF assignment[a].isDeleted THEN Finish(r, "notFound")
       ELSE IF TutorOf[a] # call[r].user THEN Finish(r, "forbidden")
       ELSE Go(r, "feedback")
    /\ UNCHANGED <<assignment, enrolled, docs, call, audit>>

(* Mutant: the score 0 counts as no score.                                 *)
Reviewed_Truthy(d, r) ==
  IF call[r].score \notin {Absent, Null, 0}
    THEN [d EXCEPT !.feedback = r, !.score = call[r].score, !.status = "reviewed"]
    ELSE [d EXCEPT !.feedback = r, !.score = Null, !.status = "returned"]

(* Mutant: the document is replaced, with the defaults of the schema.      *)
Reviewed_Replaces(d, r) ==
  [d EXCEPT !.feedback = r, !.isAdminHidden = FALSE,
            !.score = IF call[r].score # Absent THEN call[r].score ELSE Null,
            !.status = IF call[r].score # Absent THEN "reviewed" ELSE "returned"]

(* The document after $set.                                                *)
Reviewed(d, r) ==
  IF call[r].score # Absent
    THEN [d EXCEPT !.feedback = r, !.score = call[r].score, !.status = "reviewed"]
    ELSE [d EXCEPT !.feedback = r, !.score = Null, !.status = "returned"]

(* Mutant: the filter is { _id, assignmentId }.                            *)
MatchesFilter_AnyStatus(p) == Exists(p)

(* Mutant: the filter asks for a first review.                             *)
MatchesFilter_FirstOnly(p) == Exists(p) /\ docs[p].status = "submitted"

(* The filter of findOneAndUpdate.                                         *)
MatchesFilter(p) == Exists(p) /\ docs[p].status # "reviewed"

(* updateFeedbackAtomically.                                               *)
UpdateFeedback(r) ==
  LET p == call[r].pair IN
    /\ pc[r] = "feedback"
    /\ IF MatchesFilter(p)
         THEN /\ docs' = [docs EXCEPT ![p] = Reviewed(@, r)]
              /\ Finish(r, "reviewed")
         ELSE Finish(r, "alreadyReviewed") /\ UNCHANGED docs
    /\ UNCHANGED <<assignment, enrolled, call, audit>>

(***************************************************************************)
(* updateSubmissionModeration                                              *)
(***************************************************************************)
(* The moderations of p between their look-up and their record.            *)
Moderating(p) == {r \in Request : pc[r] \in {"moderate", "audit"} /\ call[r].pair = p}

(* A request that ends gives up its snapshot.                              *)
Forget(r) == before' = [before EXCEPT ![r] = Shown]

FindModerated(r, p, isHidden) ==
  /\ Arrive(r, p, AnyCall.user, Absent, isHidden)
  /\ IF Exists(p)
       THEN /\ Go(r, "moderate")
            /\ before' = [before EXCEPT ![r] = Snapshot(docs[p])]
            /\ untold' = IF Moderating(p) # {} THEN untold \cup {p} ELSE untold
       ELSE Finish(r, "notFound") /\ UNCHANGED <<before, untold>>
  /\ UNCHANGED trail

(* The document after $set.                                                *)
Moderated(d, r) ==
  [d EXCEPT !.isAdminHidden = call[r].isHidden,
            !.adminHiddenReason = IF call[r].isHidden THEN r ELSE Null]

(* Mutant: the snapshot is taken of the document that was updated.         *)
UpdateModeration_LateSnapshot(r) ==
  LET p == call[r].pair IN
    /\ pc[r] = "moderate"
    /\ docs' = [docs EXCEPT ![p] = Moderated(@, r)]
    /\ before' = [before EXCEPT ![r] = Snapshot(docs'[p])]
    /\ Go(r, "audit")
    /\ UNCHANGED <<assignment, enrolled, call, trail, untold>>

UpdateModeration(r) ==
  LET p == call[r].pair IN
    /\ pc[r] = "moderate"
    /\ docs' = [docs EXCEPT ![p] = Moderated(@, r)]
    /\ Go(r, "audit")
    /\ UNCHANGED <<assignment, enrolled, call, audit>>

(* The row with beforeState, and afterState taken of the updated document. *)
WriteTrail(r) == trail' = [trail EXCEPT ![call[r].pair] = Snapshot(Moderated(docs[call[r].pair], r))]

(* recordModerationAudit, in the other database.                           *)
RecordAudit(r) ==
  /\ pc[r] = "audit"
  /\ WriteTrail(r)
  /\ Forget(r)
  /\ Finish(r, "moderated")
  /\ UNCHANGED <<assignment, enrolled, docs, call, untold>>

(***************************************************************************)
(* Faults                                                                  *)
(***************************************************************************)
(* A statement fails and so does the request.                              *)
CallFails(r) ==
  /\ "dbLost" \in Faults
  /\ pc[r] \notin {"idle", "done"}
  /\ untold' = IF pc[r] = "audit" THEN untold \cup {call[r].pair} ELSE untold
  /\ Forget(r)
  /\ Finish(r, "error")
  /\ UNCHANGED <<assignment, enrolled, docs, call, trail>>

(* A write is carried out, but its answer is lost.                         *)
WriteAmbiguous(r) ==
  LET p == call[r].pair IN
    /\ "dbAmbiguous" \in Faults
    /\ \/ /\ pc[r] = "create" /\ ~ Exists(p)
          /\ docs' = [docs EXCEPT ![p] = NewSubmission(r)]
          /\ UNCHANGED <<trail, untold>>
       \/ /\ pc[r] = "feedback" /\ MatchesFilter(p)
          /\ docs' = [docs EXCEPT ![p] = Reviewed(@, r)]
          /\ UNCHANGED <<trail, untold>>
       \/ /\ pc[r] = "moderate"
          /\ docs' = [docs EXCEPT ![p] = Moderated(@, r)]
          /\ untold' = untold \cup {p}
          /\ UNCHANGED trail
       \/ /\ pc[r] = "audit"
          /\ WriteTrail(r)
          /\ UNCHANGED <<docs, untold>>
    /\ Forget(r)
    /\ Finish(r, "error")
    /\ UNCHANGED <<assignment, enrolled, call>>

InFlight == {r \in Request : pc[r] \notin {"idle", "done"}}

Crash ==
  /\ "crash" \in Faults
  /\ InFlight # {}
  /\ pc' = [r \in Request |-> IF r \in InFlight THEN "done" ELSE pc[r]]
  /\ answer' = [r \in Request |-> IF r \in InFlight THEN "lost" ELSE answer[r]]
  /\ untold' = untold \cup {call[r].pair : r \in {o \in Request : pc[o] = "audit"}}
  /\ before' = [r \in Request |-> Shown]
  /\ UNCHANGED <<assignment, enrolled, docs, call, trail>>

(***************************************************************************)
(* The other database                                                      *)
(***************************************************************************)
(* AssignmentsService.updatePublishStatus.                                 *)
Publish(a) ==
  /\ ~ assignment[a].isDeleted
  /\ assignment' = [assignment EXCEPT ![a].isPublished = ~ @]
  /\ UNCHANGED <<enrolled, docs, pc, call, answer, audit>>

(* The due date passes.                                                    *)
Expire(a) ==
  /\ ~ assignment[a].isDeleted /\ ~ assignment[a].isOverdue
  /\ assignment' = [assignment EXCEPT ![a].isOverdue = TRUE]
  /\ UNCHANGED <<enrolled, docs, pc, call, answer, audit>>

(* EnrollmentsService.enroll, in the course of an assignment.              *)
Enroll(p) ==
  /\ ~ assignment[p[2]].isDeleted
  /\ enrolled' = enrolled \cup {p}
  /\ UNCHANGED <<assignment, docs, pc, call, answer, audit>>

(* CoursesService.remove: the assignments and the enrollments go with the  *)
(* course, the documents stay.  A row that is gone has no other columns.   *)
RemoveCourse(a) ==
  /\ ~ assignment[a].isDeleted
  /\ assignment' = [assignment EXCEPT ![a] =
                      [isDeleted |-> TRUE, isPublished |-> FALSE, isOverdue |-> FALSE]]
  /\ enrolled' = {p \in enrolled : p[2] # a}
  /\ UNCHANGED <<docs, pc, call, answer, audit>>

(***************************************************************************)
(* The specification                                                       *)
(***************************************************************************)
Arrival(r) ==
  \E p \in Pair :
    \/ FindAssignment(r, p)
    \/ \E t \in Tutor, a \in Assignment, score \in Score \cup {Absent} :
         FindSubmission(r, t, p, a, score)
    \/ \E isHidden \in BOOLEAN : FindModerated(r, p, isHidden)

Handle(r) ==
  \/ CheckEnrolled(r) \/ CheckDuplicate(r) \/ CreateSubmission(r)
  \/ CheckOwner(r) \/ UpdateFeedback(r)
  \/ UpdateModeration(r) \/ RecordAudit(r)

Next ==
  \/ \E r \in Request : Arrival(r) \/ Handle(r) \/ CallFails(r) \/ WriteAmbiguous(r)
  \/ \E a \in Assignment : Publish(a) \/ Expire(a) \/ RemoveCourse(a)
  \/ \E p \in Pair : Enroll(p)
  \/ Crash

Spec == Init /\ [][Next]_vars

(***************************************************************************)
(* Properties                                                              *)
(***************************************************************************)
(* A student whose submission was answered 201 finds it: the document has  *)
(* the content of that request, through concurrent submissions, feedback   *)
(* and moderation.  So at most one request per pair is answered 201        *)
(* (lines 172-185, 211-231; test/assignments-submissions.e2e-spec.ts:525). *)
AckedSubmissionStands ==
  \A r \in Request :
    answer[r] = "submitted" => /\ Exists(call[r].pair)
                               /\ docs[call[r].pair].content = r

(* A review with a score that was answered 201 stands: its feedback and    *)
(* its score are those of the document from then on, so of two concurrent  *)
(* ones the second is refused (lines 257-286;                              *)
(* test/assignments-submissions.e2e-spec.ts:730).                          *)
AckedReviewStands ==
  \A r \in Request :
    answer[r] = "reviewed" /\ call[r].score # Absent =>
      LET d == docs[call[r].pair] IN
        d.status = "reviewed" /\ d.feedback = r /\ d.score = call[r].score

(* A reviewed submission is closed, also when the answer to the review was *)
(* lost: no later or slower request changes feedback, score or status.     *)
ReviewIsFinal ==
  [][\A p \in Pair :
       Exists(p) /\ docs[p].status = "reviewed" =>
         /\ docs'[p].status = "reviewed"
         /\ docs'[p].feedback = docs[p].feedback
         /\ docs'[p].score = docs[p].score]_vars

(* A submission an admin has hidden stays hidden until an admin shows it:  *)
(* no submission or feedback that is under way uncovers it.                *)
HiddenUntilShown ==
  [][\A p \in Pair :
       Exists(p) /\ docs[p].isAdminHidden /\ ~ docs'[p].isAdminHidden =>
         \E r \in Request :
           pc[r] = "moderate" /\ pc'[r] # "moderate" /\ call[r].pair = p /\ ~ call[r].isHidden]_vars

(* The feedback of a submission was written by the tutor of its course,    *)
(* whatever assignment the URL named (lines 113-123).                      *)
FeedbackIsByOwner ==
  \A p \in Pair :
    Exists(p) /\ docs[p].feedback # Null => call[docs[p].feedback].user = TutorOf[p[2]]

(* The audit trail of a submission tells its state: its last record names  *)
(* what is hidden and why, and a moderation that is about to be recorded   *)
(* starts from there, whatever students and tutors write meanwhile.  A     *)
(* moderation that overlapped another, or whose record is missing after a  *)
(* crash or a failure, is excepted (lines 202-237).                        *)
TrailTellsState ==
  \A p \in Pair \ untold :
    /\ Moderating(p) = {} /\ Exists(p) => trail[p] = Snapshot(docs[p])
    /\ \A r \in Moderating(p) : before[r] = trail[p]

(* "feedback without a score: RETURNED", "feedback with a score: REVIEWED" *)
(* (test/assignments-submissions.e2e-spec.ts:669, 691).                    *)
ReviewedIffScored ==
  \A p \in Pair : Exists(p) => (docs[p].status = "reviewed" <=> docs[p].score # Null)
=============================================================================
