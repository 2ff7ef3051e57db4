-------------------------- MODULE SubmissionsProofs --------------------------
(***************************************************************************)
(* What was submitted, reviewed, hidden and recorded stands, for every     *)
(* number of requests, students, tutors and assignments.                   *)
(*                                                                         *)
(* DocEffect says all that a step of a request does to the collection;     *)
(* from it follows how a document may evolve (Evolves), and from that the  *)
(* part of the invariant that is about acknowledged requests.  The audit   *)
(* trail has an invariant of its own (TrailGood), with the document and    *)
(* the moderation that is under way.                                       *)
(***************************************************************************)
EXTENDS SubmissionsRefinement, TLAPS

USE DEF Step, Kind

AuditState == [isAdminHidden : BOOLEAN, adminHiddenReason : Request \cup {Null}]

(***************************************************************************)
(* Types                                                                   *)
(***************************************************************************)
LEMMA AnyCallIsCall == AnyCall \in Call
<1>1. PICK s \in Student, a \in Assignment : TRUE
  BY SomeAssumption
<1>2. <<s, a>> \in Pair /\ TutorOf[a] \in Tutor
  BY <1>1, TutorAssumption DEF Pair
<1>3. [pair |-> <<s, a>>, user |-> TutorOf[a], score |-> Absent, isHidden |-> FALSE] \in Call
  BY <1>2 DEF Call
<1> QED
  BY <1>3 DEF AnyCall

LEMMA DocTypes ==
  ASSUME NEW r \in Request
  PROVE  /\ NewSubmission(r) \in Doc
         /\ \A d \in Doc : call[r] \in Call => Reviewed(d, r) \in Doc /\ Moderated(d, r) \in Doc
         /\ \A d \in Doc : Snapshot(d) \in AuditState
         /\ Shown \in AuditState
<1>1. NewSubmission(r) \in Doc
  BY DEF NewSubmission, Doc
<1>2. ASSUME NEW d \in Doc, call[r] \in Call PROVE Reviewed(d, r) \in Doc
  BY <1>2 DEF Reviewed, Doc, Call
<1>3. ASSUME NEW d \in Doc, call[r] \in Call PROVE Moderated(d, r) \in Doc
  BY <1>3 DEF Moderated, Doc, Call
<1>4. ASSUME NEW d \in Doc PROVE Snapshot(d) \in AuditState
  BY <1>4 DEF Snapshot, AuditState, Doc
<1>5. Shown \in AuditState
  BY DEF Shown, AuditState
<1> QED
  BY <1>1, <1>2, <1>3, <1>4, <1>5

(* A request that has found a document still has it: none is ever removed. *)
Found(r) == pc[r] \in {"owner", "feedback", "moderate", "audit"} => Exists(call[r].pair)

(* What a step of r does to the collection.                                *)
DocEffect(r) ==
  LET p == call[r].pair IN
    \/ docs' = docs
    \/ /\ pc[r] = "create" /\ ~ Exists(p)
       /\ docs' = [docs EXCEPT ![p] = NewSubmission(r)]
    \/ /\ pc[r] = "feedback" /\ MatchesFilter(p)
       /\ docs' = [docs EXCEPT ![p] = Reviewed(@, r)]
    \/ /\ pc[r] = "moderate" /\ Exists(p)
       /\ docs' = [docs EXCEPT ![p] = Moderated(@, r)]

RequestStep(r) == Arrival(r) \/ Handle(r) \/ CallFails(r) \/ WriteAmbiguous(r)

Other == \/ \E a \in Assignment : Publish(a) \/ Expire(a) \/ RemoveCourse(a)
         \/ \E p \in Pair : Enroll(p)

LEMMA Steps == Next <=> (\E r \in Request : RequestStep(r)) \/ Other \/ Crash
  BY DEF Next, RequestStep, Other

(* A request that arrives.                                                 *)
Arrived(r) ==
  /\ pc[r] = "idle"
  /\ \E c \in Call : call' = [call EXCEPT ![r] = c]
  /\ docs' = docs

LEMMA ArrivalIs ==
  ASSUME TypeOK, NEW r \in Request, Arrival(r)
  PROVE  Arrived(r) /\ assignment' = assignment /\ enrolled' = enrolled
<1>1. ASSUME NEW p \in Pair, NEW t \in Tutor, NEW score \in Score \cup {Absent}, NEW b \in BOOLEAN,
             Arrive(r, p, t, score, b)
      PROVE Arrived(r) /\ assignment' = assignment /\ enrolled' = enrolled
  <2>1. [pair |-> p, user |-> t, score |-> score, isHidden |-> b] \in Call
    BY DEF Call
  <2> QED
    BY <1>1, <2>1 DEF Arrive, Arrived
<1>2. AnyCall.user \in Tutor
  BY AnyCallIsCall DEF Call
<1> QED
  BY <1>1, <1>2 DEF Arrival, FindAssignment, FindSubmission, FindModerated

LEMMA StepDocs ==
  ASSUME TypeOK, NEW r \in Request, Found(r), RequestStep(r)
  PROVE  DocEffect(r) /\ assignment' = assignment /\ enrolled' = enrolled
<1>1. CASE Arrival(r)
  BY <1>1, ArrivalIs DEF DocEffect, Arrived
<1>2. CASE Handle(r)
  BY <1>2 DEF Found, Handle, DocEffect, CheckEnrolled, CheckDuplicate, CreateSubmission, CheckOwner,
       UpdateFeedback, UpdateModeration, RecordAudit
<1>3. CASE CallFails(r)
  BY <1>3 DEF CallFails, DocEffect
<1>4. CASE WriteAmbiguous(r)
  BY <1>4 DEF Found, WriteAmbiguous, DocEffect
<1> QED
  BY <1>1, <1>2, <1>3, <1>4 DEF RequestStep

(* The control of a step: r moves, and nobody else.                        *)
Moves(r) ==
  /\ pc[r] # "done"
  /\ \E s \in Step \ {"idle"} : pc' = [pc EXCEPT ![r] = s]
  /\ \/ answer' = answer /\ pc'[r] # "done"
     \/ pc'[r] = "done" /\ \E k \in Kind \ {"pending"} : answer' = [answer EXCEPT ![r] = k]
  /\ pc[r] = "idle" \/ call' = call

LEMMA StepMoves ==
  ASSUME TypeOK, NEW r \in Request, RequestStep(r)
  PROVE  Moves(r) /\ call' \in [Request -> Call] /\ \A o \in Request \ {r} : call'[o] = call[o]
<1> USE DEF TypeOK
<1>g. ASSUME NEW s \in Step \ {"idle", "done"}, Go(r, s)
      PROVE  /\ \E t \in Step \ {"idle"} : pc' = [pc EXCEPT ![r] = t]
             /\ answer' = answer /\ pc'[r] # "done"
  BY <1>g DEF Go
<1>f. ASSUME NEW k \in Kind \ {"pending"}, Finish(r, k)
      PROVE  /\ \E t \in Step \ {"idle"} : pc' = [pc EXCEPT ![r] = t]
             /\ pc'[r] = "done" /\ \E j \in Kind \ {"pending"} : answer' = [answer EXCEPT ![r] = j]
  BY <1>f DEF Finish
<1> HIDE DEF TypeOK
<1>1. CASE Arrival(r)
  <2>1. Arrived(r)
    BY <1>1, ArrivalIs
  <2>2. (\E s \in Step \ {"idle", "done"} : Go(r, s)) \/ (\E k \in Kind \ {"pending"} : Finish(r, k))
    BY <1>1 DEF Arrival, FindAssignment, FindSubmission, FindModerated
  <2>3. Moves(r)
    BY <2>1, <2>2, <1>g, <1>f DEF Moves, Arrived
  <2> QED
    BY <2>1, <2>3 DEF Arrived, TypeOK
<1>2. CASE Handle(r)
  <2>1. /\ (\E s \in Step \ {"idle", "done"} : Go(r, s)) \/ (\E k \in Kind \ {"pending"} : Finish(r, k))
        /\ call' = call
        /\ pc[r] # "done"
    BY <1>2 DEF Handle, CheckEnrolled, CheckDuplicate, CreateSubmission, CheckOwner,
         UpdateFeedback, UpdateModeration, RecordAudit
  <2>2. Moves(r)
    BY <2>1, <1>g, <1>f DEF Moves
  <2> QED
    BY <2>1, <2>2 DEF TypeOK
<1>3. CASE CallFails(r) \/ WriteAmbiguous(r)
  <2>1. Finish(r, "error") /\ call' = call /\ pc[r] # "done"
    BY <1>3 DEF CallFails, WriteAmbiguous
  <2>2. Moves(r)
    BY <2>1, <1>f DEF Moves
  <2> QED
    BY <2>1, <2>2 DEF TypeOK
<1> QED
  BY <1>1, <1>2, <1>3 DEF RequestStep

(***************************************************************************)
(* Type correctness                                                        *)
(***************************************************************************)
LEMMA DocsTyped ==
  ASSUME TypeOK, NEW r \in Request, DocEffect(r)
  PROVE  docs' \in [Pair -> Doc \cup {NoDoc}]
<1>1. call[r] \in Call /\ call[r].pair \in Pair /\ docs \in [Pair -> Doc \cup {NoDoc}]
  BY DEF TypeOK, Call
<1>2. CASE docs' = docs
  BY <1>1, <1>2
<1>3. CASE pc[r] = "create" /\ docs' = [docs EXCEPT ![call[r].pair] = NewSubmission(r)]
  BY <1>1, <1>3, DocTypes
<1>4. CASE MatchesFilter(call[r].pair)
           /\ docs' = [docs EXCEPT ![call[r].pair] = Reviewed(@, r)]
  BY <1>1, <1>4, DocTypes DEF MatchesFilter, Exists
<1>5. CASE Exists(call[r].pair) /\ docs' = [docs EXCEPT ![call[r].pair] = Moderated(@, r)]
  BY <1>1, <1>5, DocTypes DEF Exists
<1> QED
  BY <1>2, <1>3, <1>4, <1>5 DEF DocEffect

LEMMA AuditTyped ==
  ASSUME TypeOK, NEW r \in Request, Found(r), RequestStep(r)
  PROVE  /\ before' \in [Request -> AuditState] /\ trail' \in [Pair -> AuditState]
         /\ untold' \subseteq Pair
<1>1. /\ before \in [Request -> AuditState] /\ trail \in [Pair -> AuditState]
      /\ untold \subseteq Pair
      /\ call[r] \in Call /\ call[r].pair \in Pair /\ docs \in [Pair -> Doc \cup {NoDoc}]
  BY DEF TypeOK, AuditState, Call
<1>2. before' \in [Request -> AuditState] /\ untold' \subseteq Pair
  <2>1. CASE UNCHANGED audit
    BY <1>1, <2>1 DEF audit
  <2>2. ASSUME NEW p \in Pair, NEW b \in BOOLEAN, FindModerated(r, p, b)
        PROVE before' \in [Request -> AuditState] /\ untold' \subseteq Pair
    <3>1. Exists(p) => Snapshot(docs[p]) \in AuditState
      BY <1>1, DocTypes DEF Exists
    <3> QED
      BY <1>1, <2>2, <3>1 DEF FindModerated
  <2>3. CASE RecordAudit(r) \/ CallFails(r) \/ WriteAmbiguous(r)
    BY <1>1, <2>3, DocTypes DEF RecordAudit, CallFails, WriteAmbiguous, Forget
  <2> QED
    BY <2>1, <2>2, <2>3 DEF RequestStep, Arrival, Handle, FindAssignment, FindSubmission,
         CheckEnrolled, CheckDuplicate, CreateSubmission, CheckOwner, UpdateFeedback, UpdateModeration
<1>3. trail' = trail \/ (pc[r] = "audit" /\ WriteTrail(r))
  BY DEF RequestStep, Arrival, Handle, FindAssignment, FindSubmission, FindModerated,
       CheckEnrolled, CheckDuplicate, CreateSubmission, CheckOwner, UpdateFeedback, UpdateModeration,
       RecordAudit, CallFails, WriteAmbiguous, audit
<1>4. ASSUME pc[r] = "audit", WriteTrail(r) PROVE trail' \in [Pair -> AuditState]
  <2>1. docs[call[r].pair] \in Doc
    BY <1>1, <1>4 DEF Found, Exists
  <2>2. Snapshot(Moderated(docs[call[r].pair], r)) \in AuditState
    BY <1>1, <2>1, DocTypes
  <2> QED
    BY <1>1, <1>4, <2>2 DEF WriteTrail
<1> QED
  BY <1>1, <1>2, <1>3, <1>4

LEMMA TypesKept ==
  ASSUME TypeOK, \A r \in Request : Found(r), [Next]_vars
  PROVE  TypeOK'
<1>1. ASSUME NEW r \in Request, RequestStep(r) PROVE TypeOK'
  <2>1. docs' \in [Pair -> Doc \cup {NoDoc}] /\ assignment' = assignment /\ enrolled' = enrolled
    BY <1>1, StepDocs, DocsTyped
  <2>2. pc' \in [Request -> Step] /\ answer' \in [Request -> Kind] /\ call' \in [Request -> Call]
    <3>1. Moves(r) /\ call' \in [Request -> Call]
      BY <1>1, StepMoves
    <3>2. pc \in [Request -> Step] /\ answer \in [Request -> Kind]
      BY DEF TypeOK
    <3>3. pc' \in [Request -> Step]
      BY <3>1, <3>2 DEF Moves
    <3>4. answer' \in [Request -> Kind]
      <4> HIDE DEF Kind
      <4> QED
        BY <3>1, <3>2 DEF Moves
    <3> QED
      BY <3>1, <3>3, <3>4
  <2>3. /\ before' \in [Request -> AuditState] /\ trail' \in [Pair -> AuditState]
        /\ untold' \subseteq Pair
    BY <1>1, AuditTyped
  <2> QED
    BY <2>1, <2>2, <2>3 DEF TypeOK, AuditState
<1>2. ASSUME Other PROVE TypeOK'
  <2>1. assignment' \in [Assignment -> AssignmentRow] /\ enrolled' \subseteq Pair
    <3>1. assignment \in [Assignment -> AssignmentRow] /\ enrolled \subseteq Pair
      BY DEF TypeOK
    <3>2. ASSUME NEW a \in Assignment, Publish(a) \/ Expire(a)
          PROVE assignment' \in [Assignment -> AssignmentRow] /\ enrolled' = enrolled
      <4>1. /\ [assignment[a] EXCEPT !.isPublished = ~ assignment[a].isPublished] \in AssignmentRow
            /\ [assignment[a] EXCEPT !.isOverdue = TRUE] \in AssignmentRow
        BY <3>1 DEF AssignmentRow
      <4> QED
        BY <3>1, <3>2, <4>1 DEF Publish, Expire
    <3>3. ASSUME NEW a \in Assignment, RemoveCourse(a)
          PROVE assignment' \in [Assignment -> AssignmentRow] /\ enrolled' \subseteq Pair
      <4>1. [isDeleted |-> TRUE, isPublished |-> FALSE, isOverdue |-> FALSE] \in AssignmentRow
        BY <3>1 DEF AssignmentRow
      <4> QED
        BY <3>1, <3>3, <4>1 DEF RemoveCourse
    <3> QED
      BY <1>2, <3>1, <3>2, <3>3 DEF Other, Enroll
  <2> QED
    BY <1>2, <2>1 DEF Other, Publish, Expire, Enroll, RemoveCourse, TypeOK, audit
<1>3. ASSUME Crash PROVE TypeOK'
  <2>1. untold' \subseteq Pair
    BY <1>3 DEF Crash, TypeOK, Call
  <2>2. before' \in [Request -> AuditState]
    BY <1>3, DocTypes DEF Crash
  <2> QED
    BY <1>3, <2>1, <2>2 DEF Crash, TypeOK, AuditState
<1>4. ASSUME UNCHANGED vars PROVE TypeOK'
  BY <1>4 DEF TypeOK, vars, audit
<1> QED
  BY <1>1, <1>2, <1>3, <1>4, Steps

(***************************************************************************)
(* Documents and requests                                                  *)
(***************************************************************************)
(* A document stays, keeps its content, and is closed by a review.         *)
Evolves(p) ==
  Exists(p) =>
    /\ Exists(p)' /\ docs'[p].content = docs[p].content
    /\ docs[p].status = "reviewed" =>
         /\ docs'[p].status = "reviewed"
         /\ docs'[p].feedback = docs[p].feedback /\ docs'[p].score = docs[p].score

LEMMA DocsEvolve ==
  ASSUME TypeOK, NEW r \in Request, DocEffect(r), NEW p \in Pair
  PROVE  Evolves(p)
<1>1. call[r] \in Call /\ call[r].pair \in Pair /\ docs \in [Pair -> Doc \cup {NoDoc}]
  BY DEF TypeOK, Call
<1> SUFFICES ASSUME Exists(p), docs'[p] # docs[p] PROVE Evolves(p)
  BY DEF Evolves, Exists
<1>2. docs[p] \in Doc /\ p = call[r].pair
  BY <1>1 DEF Exists, DocEffect
<1>3. CASE MatchesFilter(p) /\ docs'[p] = Reviewed(docs[p], r)
  <2>1. Reviewed(docs[p], r).content = docs[p].content
    BY <1>2 DEF Reviewed, Doc
  <2> QED
    BY <1>1, <1>2, <1>3, <2>1, DocTypes, NoDocAssumption DEF Evolves, Exists, MatchesFilter
<1>4. CASE docs'[p] = Moderated(docs[p], r)
  <2>1. /\ Moderated(docs[p], r).content = docs[p].content
        /\ Moderated(docs[p], r).status = docs[p].status
        /\ Moderated(docs[p], r).feedback = docs[p].feedback
        /\ Moderated(docs[p], r).score = docs[p].score
    BY <1>2 DEF Moderated, Doc
  <2> QED
    BY <1>1, <1>2, <1>4, <2>1, DocTypes, NoDocAssumption DEF Evolves, Exists
<1> QED
  BY <1>1, <1>2, <1>3, <1>4 DEF DocEffect

(* What has become of a request and of what it was told.                   *)
Good(r) ==
  /\ Found(r)
  /\ pc[r] # "done" => answer[r] = "pending"
  /\ pc[r] = "feedback" => call[r].user = TutorOf[call[r].pair[2]]
  /\ answer[r] = "submitted" =>
       Exists(call[r].pair) /\ docs[call[r].pair].content = r
  /\ answer[r] = "reviewed" /\ call[r].score # Absent =>
       /\ Exists(call[r].pair) /\ docs[call[r].pair].status = "reviewed"
       /\ docs[call[r].pair].feedback = r /\ docs[call[r].pair].score = call[r].score

(* Feedback is by a request that has ended, of the tutor of the course.    *)
ByOwner(p) ==
  Exists(p) /\ docs[p].feedback # Null =>
    LET f == docs[p].feedback IN pc[f] = "done" /\ call[f].user = TutorOf[p[2]]

(* The requests that were there already.                                   *)
LEMMA OthersGood ==
  ASSUME TypeOK, NEW r \in Request, Found(r), RequestStep(r),
         NEW o \in Request \ {r}, Good(o)
  PROVE  Good(o)'
<1>1. pc'[o] = pc[o] /\ answer'[o] = answer[o] /\ call'[o] = call[o]
  BY StepMoves DEF Moves, TypeOK
<1>2. call[o].pair \in Pair
  BY DEF TypeOK, Call
<1>3. Evolves(call[o].pair)
  BY <1>2, StepDocs, DocsEvolve
<1>4. Found(o)'
  BY <1>1, <1>3 DEF Good, Found, Evolves, Exists
<1>5. answer[o] = "submitted" => Exists(call[o].pair)' /\ docs'[call[o].pair].content = o
  BY <1>3 DEF Good, Evolves
<1>6. answer[o] = "reviewed" /\ call[o].score # Absent =>
        /\ Exists(call[o].pair)' /\ docs'[call[o].pair].status = "reviewed"
        /\ docs'[call[o].pair].feedback = o /\ docs'[call[o].pair].score = call[o].score
  BY <1>3 DEF Good, Evolves
<1> QED
  BY <1>1, <1>4, <1>5, <1>6 DEF Good, Exists

(* The request that takes the step.                                        *)
LEMMA ActorGood ==
  ASSUME TypeOK, NEW r \in Request, Good(r), RequestStep(r)
  PROVE  Good(r)'
<1>1. /\ pc[r] \in Step /\ pc \in [Request -> Step] /\ answer \in [Request -> Kind]
      /\ call[r] \in Call /\ call[r].pair \in Pair /\ docs \in [Pair -> Doc \cup {NoDoc}]
  BY DEF TypeOK, Call
<1>2. answer[r] = "pending"
  BY StepMoves DEF Moves, Good
<1> HIDE DEF Step, Kind
<1>g. ASSUME NEW s \in Step, Go(r, s) PROVE pc'[r] = s /\ answer'[r] = "pending"
  BY <1>1, <1>2, <1>g DEF Go
<1>f. ASSUME NEW k \in Kind, Finish(r, k) PROVE pc'[r] = "done" /\ answer'[r] = k
  BY <1>1, <1>f DEF Finish
<1>v. ASSUME pc'[r] \in {"enrolled", "duplicate", "create"}, answer'[r] = "pending" PROVE Good(r)'
  BY <1>v DEF Good, Found
<1>e. ASSUME pc'[r] = "done", answer'[r] \notin {"submitted", "reviewed"} PROVE Good(r)'
  BY <1>e DEF Good, Found
<1>n. ASSUME pc'[r] \in {"owner", "moderate", "audit"}, answer'[r] = "pending", Exists(call[r].pair)'
      PROVE call'[r].pair = call[r].pair => Good(r)'
  BY <1>n DEF Good, Found, Exists
<1>a. ASSUME NEW p \in Pair, NEW t \in Tutor, NEW score \in Score \cup {Absent}, NEW b \in BOOLEAN,
             Arrive(r, p, t, score, b)
      PROVE  call'[r].pair = p /\ docs' = docs
  BY <1>a DEF Arrive, TypeOK
<1>3. ASSUME NEW p \in Pair, FindAssignment(r, p) PROVE Good(r)'
  <2>1. Go(r, "enrolled") \/ Finish(r, "notFound") \/ Finish(r, "badRequest")
    BY <1>3 DEF FindAssignment
  <2> QED
    BY <2>1, <1>g, <1>f, <1>v, <1>e DEF Step, Kind
<1>4. ASSUME NEW p \in Pair, NEW t \in Tutor, NEW a \in Assignment, NEW score \in Score \cup {Absent},
             FindSubmission(r, t, p, a, score)
      PROVE Good(r)'
  <2>1. call'[r].pair = p /\ docs' = docs
    BY <1>4, <1>a DEF FindSubmission
  <2>2. Finish(r, "notFound") \/ Finish(r, "badRequest") \/ (Exists(p) /\ Go(r, "owner"))
    BY <1>4 DEF FindSubmission
  <2>3. CASE Exists(p) /\ Go(r, "owner")
    <3>1. pc'[r] = "owner" /\ answer'[r] = "pending"
      BY <2>3, <1>g DEF Step
    <3> QED
      BY <3>1, <2>1, <2>3 DEF Good, Found, Exists
  <2> QED
    BY <2>2, <2>3, <1>f, <1>e DEF Kind
<1>5. ASSUME NEW p \in Pair, NEW b \in BOOLEAN, FindModerated(r, p, b) PROVE Good(r)'
  <2>1. call'[r].pair = p /\ docs' = docs
    BY <1>5, <1>a, AnyCallIsCall DEF FindModerated, Call
  <2>2. Finish(r, "notFound") \/ (Exists(p) /\ Go(r, "moderate"))
    BY <1>5 DEF FindModerated
  <2>3. CASE Exists(p) /\ Go(r, "moderate")
    <3>1. pc'[r] = "moderate" /\ answer'[r] = "pending"
      BY <2>3, <1>g DEF Step
    <3> QED
      BY <3>1, <2>1, <2>3 DEF Good, Found, Exists
  <2> QED
    BY <2>2, <2>3, <1>f, <1>e DEF Kind
<1>6. CASE CheckEnrolled(r) \/ CheckDuplicate(r)
  <2>1. \/ Go(r, "duplicate") \/ Go(r, "create")
        \/ Finish(r, "forbidden") \/ Finish(r, "alreadySubmitted")
    BY <1>6 DEF CheckEnrolled, CheckDuplicate
  <2> QED
    BY <2>1, <1>g, <1>f, <1>v, <1>e DEF Step, Kind
<1>7. CASE CreateSubmission(r)
  <2>1. CASE Finish(r, "alreadySubmitted")
    BY <2>1, <1>f, <1>e DEF Kind
  <2>2. CASE Finish(r, "submitted") /\ docs' = [docs EXCEPT ![call[r].pair] = NewSubmission(r)]
    <3>1. pc'[r] = "done" /\ answer'[r] = "submitted"
      BY <2>2, <1>f DEF Kind
    <3>2. docs'[call[r].pair] = NewSubmission(r) /\ call' = call
      BY <1>1, <1>7, <2>2 DEF CreateSubmission
    <3>3. NewSubmission(r) # NoDoc /\ NewSubmission(r).content = r
      BY DocTypes, NoDocAssumption DEF NewSubmission
    <3> QED
      BY <3>1, <3>2, <3>3 DEF Good, Found, Exists
  <2> QED
    BY <1>7, <2>1, <2>2 DEF CreateSubmission
<1>8. CASE CheckOwner(r)
  <2>1. CASE Finish(r, "notFound") \/ Finish(r, "forbidden")
    BY <2>1, <1>f, <1>e DEF Kind
  <2>2. CASE Go(r, "feedback") /\ TutorOf[call[r].pair[2]] = call[r].user
    <3>1. pc[r] = "owner" /\ pc'[r] = "feedback" /\ answer'[r] = "pending" /\ call' = call /\ docs' = docs
      BY <1>8, <2>2, <1>g DEF CheckOwner, Step
    <3> QED
      BY <3>1, <2>2 DEF Good, Found, Exists
  <2> QED
    BY <1>8, <2>1, <2>2 DEF CheckOwner
<1>9. CASE UpdateFeedback(r)
  <2>1. CASE Finish(r, "alreadyReviewed")
    BY <2>1, <1>f, <1>e DEF Kind
  <2>2. CASE /\ Finish(r, "reviewed") /\ MatchesFilter(call[r].pair)
             /\ docs' = [docs EXCEPT ![call[r].pair] = Reviewed(@, r)]
    <3>1. pc'[r] = "done" /\ answer'[r] = "reviewed"
      BY <2>2, <1>f DEF Kind
    <3> DEFINE d == docs[call[r].pair]
    <3>2. docs'[call[r].pair] = Reviewed(d, r) /\ call' = call /\ d \in Doc
      BY <1>1, <1>9, <2>2 DEF UpdateFeedback, MatchesFilter, Exists
    <3>3. Reviewed(d, r) # NoDoc
      BY <1>1, <3>2, DocTypes, NoDocAssumption
    <3>4. call[r].score # Absent =>
            /\ Reviewed(d, r).feedback = r /\ Reviewed(d, r).score = call[r].score
            /\ Reviewed(d, r).status = "reviewed"
      BY <3>2 DEF Reviewed, Doc
    <3> QED
      BY <3>1, <3>2, <3>3, <3>4 DEF Good, Found, Exists
  <2> QED
    BY <1>9, <2>1, <2>2 DEF UpdateFeedback
<1>10. CASE UpdateModeration(r)
  <2>1. pc[r] = "moderate" /\ pc'[r] = "audit" /\ answer'[r] = "pending" /\ call' = call
    BY <1>10, <1>g DEF UpdateModeration, Step
  <2>2. Exists(call[r].pair)'
    BY <2>1, StepDocs, DocsEvolve, <1>1 DEF Good, Found, Evolves
  <2> QED
    BY <2>1, <2>2 DEF Good, Found, Exists
<1>11. CASE RecordAudit(r) \/ CallFails(r) \/ WriteAmbiguous(r)
  <2>1. Finish(r, "moderated") \/ Finish(r, "error")
    BY <1>11 DEF RecordAudit, CallFails, WriteAmbiguous
  <2> QED
    BY <2>1, <1>f, <1>e DEF Kind
<1> QED
  BY <1>3, <1>4, <1>5, <1>6, <1>7, <1>8, <1>9, <1>10, <1>11 DEF RequestStep, Arrival, Handle

LEMMA FeedbackKept ==
  ASSUME TypeOK, NEW r \in Request, Good(r), RequestStep(r), NEW p \in Pair, ByOwner(p)
  PROVE  ByOwner(p)'
<1>1. /\ pc \in [Request -> Step]
      /\ call[r] \in Call /\ call[r].pair \in Pair /\ docs \in [Pair -> Doc \cup {NoDoc}]
  BY DEF TypeOK, Call
<1>2. DocEffect(r) /\ Moves(r) /\ \A o \in Request \ {r} : call'[o] = call[o]
  BY StepDocs, StepMoves DEF Good
<1>3. ASSUME NEW f \in Request, pc[f] = "done" PROVE pc'[f] = "done" /\ call'[f] = call[f]
  BY <1>1, <1>2, <1>3 DEF Moves
<1>4. CASE docs'[p] = docs[p] \/ (Exists(p) /\ docs'[p] = Moderated(docs[p], r))
  <2> SUFFICES ASSUME Exists(p)', docs'[p].feedback # Null PROVE ByOwner(p)'
    BY DEF ByOwner
  <2>1. Exists(p) /\ docs'[p].feedback = docs[p].feedback
    BY <1>1, <1>4 DEF Exists, Moderated, Doc
  <2>2. docs[p].feedback \in Request
    BY <1>1, <2>1 DEF Exists, Doc
  <2> QED
    BY <2>1, <2>2, <1>3 DEF ByOwner
<1>5. CASE docs'[p] = NewSubmission(r)
  BY <1>5 DEF ByOwner, NewSubmission
<1>6. CASE /\ pc[r] = "feedback" /\ p = call[r].pair /\ Exists(p)
           /\ docs'[p] = Reviewed(docs[p], r)
  <2>1. docs'[p].feedback = r
    BY <1>1, <1>6 DEF Reviewed, Exists, Doc
  <2>2. UpdateFeedback(r) \/ WriteAmbiguous(r) \/ CallFails(r)
    BY <1>6 DEF RequestStep, Handle, Arrival, FindAssignment, FindSubmission, FindModerated, Arrive,
         CheckEnrolled, CheckDuplicate, CreateSubmission, CheckOwner, UpdateModeration, RecordAudit
  <2>3. pc'[r] = "done" /\ call' = call
    BY <1>1, <2>2 DEF UpdateFeedback, WriteAmbiguous, CallFails, Finish
  <2> QED
    BY <1>6, <2>1, <2>3 DEF ByOwner, Good
<1> QED
  BY <1>1, <1>2, <1>4, <1>5, <1>6 DEF DocEffect, MatchesFilter

(***************************************************************************)
(* The audit trail                                                         *)
(***************************************************************************)
(* What moderation m makes of the columns it writes.                       *)
After(m) ==
  [isAdminHidden |-> call[m].isHidden,
   adminHiddenReason |-> IF call[m].isHidden THEN m ELSE Null]

(* Where the trail has no gap, a moderation is alone and knows its last    *)
(* record, and the document is as that record or as the moderation says.   *)
TrailGood(p) ==
  /\ ~ Exists(p) => trail[p] = Shown
  /\ p \notin untold =>
       /\ Moderating(p) = {} /\ Exists(p) => trail[p] = Snapshot(docs[p])
       /\ \A m \in Moderating(p) :
            /\ before[m] = trail[p] /\ \A o \in Moderating(p) : o = m
            /\ pc[m] = "moderate" => Snapshot(docs[p]) = trail[p]
            /\ pc[m] = "audit" => Snapshot(docs[p]) = After(m)

LEMMA Snapshots ==
  ASSUME NEW r \in Request
  PROVE  /\ Snapshot(NewSubmission(r)) = Shown
         /\ \A d \in Doc : /\ Snapshot(Reviewed(d, r)) = Snapshot(d)
                           /\ Snapshot(Moderated(d, r)) = After(r)
  BY DEF Snapshot, Shown, NewSubmission, Reviewed, Moderated, After, Doc

(* Nothing happens to the moderations of p, nor to what they see.          *)
Quiet(p) ==
  /\ Moderating(p)' = Moderating(p)
  /\ \A m \in Moderating(p) : pc'[m] = pc[m] /\ call'[m] = call[m] /\ before'[m] = before[m]
  /\ trail'[p] = trail[p] /\ (p \in untold' <=> p \in untold)
  /\ \/ docs'[p] = docs[p]
     \/ Exists(p) /\ Exists(p)' /\ Snapshot(docs'[p]) = Snapshot(docs[p])
     \/ ~ Exists(p) /\ Snapshot(docs'[p]) = Shown /\ Moderating(p) = {}

LEMMA QuietKeeps ==
  ASSUME NEW p \in Pair, TrailGood(p), Quiet(p)
  PROVE  TrailGood(p)'
<1>1. \A m \in Moderating(p) : After(m)' = After(m)
  BY DEF Quiet, After
<1>2. CASE docs'[p] = docs[p]
  BY <1>1, <1>2 DEF Quiet, TrailGood, Exists
<1>3. CASE Exists(p) /\ Exists(p)' /\ Snapshot(docs'[p]) = Snapshot(docs[p])
  BY <1>1, <1>3 DEF Quiet, TrailGood
<1>4. CASE ~ Exists(p) /\ Snapshot(docs'[p]) = Shown /\ Moderating(p) = {}
  BY <1>4 DEF Quiet, TrailGood
<1> QED
  BY <1>2, <1>3, <1>4 DEF Quiet

(* A step that is not about a moderation of p.                             *)
LEMMA QuietSteps ==
  ASSUME TypeOK, \A o \in Request : Good(o), NEW r \in Request, RequestStep(r), NEW p \in Pair,
         r \notin Moderating(p), r \notin Moderating(p)',
         trail'[p] = trail[p], p \in untold' <=> p \in untold,
         \A o \in Request \ {r} : before'[o] = before[o]
  PROVE  Quiet(p)
<1>1. /\ pc \in [Request -> Step]
      /\ call[r] \in Call /\ call[r].pair \in Pair /\ docs \in [Pair -> Doc \cup {NoDoc}]
  BY DEF TypeOK, Call
<1>2. DocEffect(r) /\ Moves(r) /\ \A o \in Request \ {r} : call'[o] = call[o]
  BY StepDocs, StepMoves DEF Good
<1>3. \A o \in Request \ {r} : pc'[o] = pc[o] /\ call'[o] = call[o]
  BY <1>1, <1>2 DEF Moves
<1>4. Moderating(p)' = Moderating(p)
  BY <1>3 DEF Moderating
<1>5. ~ Exists(p) => Moderating(p) = {}
  BY DEF Good, Found, Moderating
<1>6. \/ docs'[p] = docs[p]
      \/ Exists(p) /\ Exists(p)' /\ Snapshot(docs'[p]) = Snapshot(docs[p])
      \/ ~ Exists(p) /\ Snapshot(docs'[p]) = Shown
  <2>1. CASE docs' = docs \/ p # call[r].pair
    BY <1>1, <1>2, <2>1 DEF DocEffect
  <2>2. CASE p = call[r].pair /\ ~ Exists(p) /\ docs'[p] = NewSubmission(r)
    BY <2>2, Snapshots
  <2>3. CASE p = call[r].pair /\ Exists(p) /\ docs'[p] = Reviewed(docs[p], r)
    <3>1. docs[p] \in Doc
      BY <1>1, <2>3 DEF Exists
    <3>2. Reviewed(docs[p], r) # NoDoc
      BY <1>1, <3>1, DocTypes, NoDocAssumption
    <3> QED
      BY <2>3, <3>1, <3>2, Snapshots DEF Exists
  <2>4. ~ (p = call[r].pair /\ pc[r] = "moderate")
    BY DEF Moderating
  <2> QED
    BY <1>1, <1>2, <2>1, <2>2, <2>3, <2>4 DEF DocEffect, MatchesFilter
<1> QED
  BY <1>3, <1>4, <1>5, <1>6 DEF Quiet, Moderating

(* One step per thing that can happen to a moderation.                     *)
LEMMA TrailKept ==
  ASSUME TypeOK, \A o \in Request : Good(o), NEW r \in Request, RequestStep(r),
         NEW p \in Pair, TrailGood(p)
  PROVE  TrailGood(p)'
<1>1. /\ pc \in [Request -> Step] /\ call \in [Request -> Call] /\ call[r].pair \in Pair
      /\ docs \in [Pair -> Doc \cup {NoDoc}]
      /\ before \in [Request -> AuditState] /\ trail \in [Pair -> AuditState]
  BY DEF TypeOK, Call, AuditState
<1>2. DocEffect(r) /\ Moves(r) /\ \A o \in Request \ {r} : call'[o] = call[o]
  BY StepDocs, StepMoves DEF Good
<1>3. \A o \in Request \ {r} : pc'[o] = pc[o] /\ call'[o] = call[o]
  BY <1>1, <1>2 DEF Moves
<1>4. Exists(p) => Exists(p)'
  BY <1>2, DocsEvolve DEF Evolves
<1>5. ASSUME r \notin Moderating(p), r \notin Moderating(p)', trail'[p] = trail[p],
             p \in untold' <=> p \in untold, \A o \in Request \ {r} : before'[o] = before[o]
      PROVE TrailGood(p)'
  BY <1>5, QuietSteps, QuietKeeps
<1>6. CASE UNCHANGED audit /\ pc[r] \notin {"moderate", "audit"} /\ pc'[r] \notin {"moderate", "audit"}
  BY <1>5, <1>6 DEF audit, Moderating
<1>7. ASSUME NEW q \in Pair, NEW b \in BOOLEAN, FindModerated(r, q, b) PROVE TrailGood(p)'
  <2>1. call'[r].pair = q /\ docs' = docs /\ pc[r] = "idle" /\ trail' = trail
    BY <1>1, <1>7 DEF FindModerated, Arrive
  <2>2. CASE ~ Exists(q)
    <3>1. pc'[r] = "done" /\ before' = before /\ untold' = untold
      BY <1>1, <1>7, <2>2 DEF FindModerated, Finish
    <3> QED
      BY <1>5, <2>1, <3>1 DEF Moderating
  <2>3. CASE Exists(q)
    <3>1. /\ pc'[r] = "moderate" /\ before' = [before EXCEPT ![r] = Snapshot(docs[q])]
          /\ untold' = IF Moderating(q) # {} THEN untold \cup {q} ELSE untold
      BY <1>1, <1>7, <2>3 DEF FindModerated, Go
    <3>2. CASE p # q
      BY <1>1, <1>5, <2>1, <3>1, <3>2 DEF Moderating
    <3>3. CASE p = q /\ Moderating(p) # {}
      BY <2>1, <2>3, <3>1, <3>3 DEF TrailGood, Exists
    <3>4. CASE p = q /\ Moderating(p) = {}
      <4>1. Moderating(p)' = {r}
        BY <1>3, <2>1, <3>1, <3>4 DEF Moderating
      <4>2. before'[r] = Snapshot(docs[p])
        BY <1>1, <3>1, <3>4
      <4> QED
        BY <2>1, <2>3, <3>1, <3>4, <4>1, <4>2 DEF TrailGood, Exists
    <3> QED
      BY <3>2, <3>3, <3>4
  <2> QED
    BY <2>2, <2>3
<1>8. ASSUME r \in Moderating(p), p \notin untold
      PROVE  Moderating(p) = {r} /\ Exists(p) /\ docs[p] \in Doc /\ call[r].pair = p
  BY <1>1, <1>8 DEF TrailGood, Moderating, Good, Found, Exists
<1>9. CASE UpdateModeration(r)
  <2>1. /\ pc[r] = "moderate" /\ pc'[r] = "audit" /\ call' = call
        /\ UNCHANGED audit /\ docs' = [docs EXCEPT ![call[r].pair] = Moderated(@, r)]
    BY <1>1, <1>9 DEF UpdateModeration, Go
  <2>2. CASE p # call[r].pair
    BY <1>5, <2>1, <2>2 DEF audit, Moderating
  <2>3. CASE p = call[r].pair /\ p \in untold
    <3>1. Exists(p)
      BY <2>1, <2>3 DEF Good, Found
    <3> QED
      BY <1>4, <2>1, <2>3, <3>1 DEF audit, TrailGood
  <2>4. CASE p = call[r].pair /\ p \notin untold
    <3>1. Moderating(p) = {r} /\ Exists(p) /\ docs[p] \in Doc
      BY <1>8, <2>1, <2>4 DEF Moderating
    <3>2. Moderating(p)' = {r}
      BY <1>3, <2>1, <2>4, <3>1 DEF Moderating
    <3>3. Snapshot(docs'[p]) = After(r) /\ After(r)' = After(r)
      BY <1>1, <2>1, <2>4, <3>1, Snapshots DEF After
    <3>4. before'[r] = before[r] /\ trail' = trail /\ untold' = untold
      BY <2>1 DEF audit
    <3> QED
      BY <1>4, <2>1, <2>4, <3>1, <3>2, <3>3, <3>4 DEF TrailGood
  <2> QED
    BY <2>2, <2>3, <2>4
<1>10. CASE /\ pc[r] = "audit" /\ pc'[r] = "done" /\ WriteTrail(r) /\ Forget(r)
            /\ call' = call /\ docs' = docs /\ untold' = untold
  <2>1. CASE p # call[r].pair
    BY <1>1, <1>5, <1>10, <2>1 DEF Moderating, WriteTrail, Forget
  <2>2. CASE p = call[r].pair /\ p \in untold
    BY <1>4, <1>10, <2>2 DEF TrailGood, Good, Found
  <2>3. CASE p = call[r].pair /\ p \notin untold
    <3>1. Moderating(p) = {r} /\ Exists(p) /\ docs[p] \in Doc
      BY <1>8, <1>10, <2>3 DEF Moderating
    <3>2. Moderating(p)' = {}
      BY <1>3, <1>10, <2>3, <3>1 DEF Moderating
    <3>3. trail'[p] = After(r)
      BY <1>1, <1>10, <2>3, <3>1, Snapshots DEF WriteTrail
    <3> QED
      BY <1>4, <1>10, <2>3, <3>1, <3>2, <3>3 DEF TrailGood
  <2> QED
    BY <2>1, <2>2, <2>3
<1>11. CASE /\ pc[r] \notin {"idle", "done"} /\ pc'[r] = "done" /\ Forget(r) /\ trail' = trail
            /\ call' = call
            /\ \/ pc[r] \notin {"moderate", "audit"} /\ untold' = untold
               \/ pc[r] = "moderate" /\ docs' = docs /\ untold' = untold
               \/ pc[r] \in {"moderate", "audit"} /\ untold' = untold \cup {call[r].pair}
  <2>1. CASE p # call[r].pair \/ pc[r] \notin {"moderate", "audit"}
    BY <1>1, <1>5, <1>11, <2>1 DEF Moderating, Forget
  <2>2. CASE p = call[r].pair /\ pc[r] \in {"moderate", "audit"} /\ p \in untold'
    BY <1>4, <1>11, <2>2 DEF TrailGood, Good, Found
  <2>3. CASE p = call[r].pair /\ pc[r] = "moderate" /\ docs' = docs /\ untold' = untold /\ p \notin untold
    <3>1. Moderating(p) = {r} /\ Exists(p) /\ docs[p] \in Doc
      BY <1>8, <2>3 DEF Moderating
    <3>2. Moderating(p)' = {}
      BY <1>3, <1>11, <2>3, <3>1 DEF Moderating
    <3> QED
      BY <1>4, <1>11, <2>3, <3>1, <3>2 DEF TrailGood
  <2> QED
    BY <1>11, <2>1, <2>2, <2>3
<1>12. CASE RecordAudit(r) \/ CallFails(r) \/ WriteAmbiguous(r)
  <2>1. CASE RecordAudit(r)
    BY <1>1, <1>10, <2>1 DEF RecordAudit, Finish
  <2>2. CASE CallFails(r)
    BY <1>1, <1>11, <2>2 DEF CallFails, Finish
  <2>3. CASE WriteAmbiguous(r) /\ pc[r] = "audit"
    BY <1>1, <1>10, <2>3 DEF WriteAmbiguous, Finish
  <2>4. CASE WriteAmbiguous(r) /\ pc[r] # "audit"
    BY <1>1, <1>11, <2>4 DEF WriteAmbiguous, Finish
  <2> QED
    BY <1>12, <2>1, <2>2, <2>3, <2>4
<1>13. ASSUME NEW q \in Pair, FindAssignment(r, q) PROVE TrailGood(p)'
  BY <1>1, <1>6, <1>13 DEF FindAssignment, Arrive, Go, Finish
<1>14. ASSUME NEW t \in Tutor, NEW q \in Pair, NEW a \in Assignment, NEW score \in Score \cup {Absent},
              FindSubmission(r, t, q, a, score)
       PROVE TrailGood(p)'
  BY <1>1, <1>6, <1>14 DEF FindSubmission, Arrive, Go, Finish
<1>15. CASE \/ CheckEnrolled(r) \/ CheckDuplicate(r) \/ CreateSubmission(r)
            \/ CheckOwner(r) \/ UpdateFeedback(r)
  BY <1>1, <1>6, <1>15 DEF CheckEnrolled, CheckDuplicate, CreateSubmission, CheckOwner, UpdateFeedback,
     Go, Finish
<1> QED
  BY <1>7, <1>9, <1>12, <1>13, <1>14, <1>15 DEF RequestStep, Arrival, Handle

(***************************************************************************)
(* The inductive invariant                                                 *)
(***************************************************************************)
IInv ==
  /\ TypeOK
  /\ \A r \in Request : Good(r)
  /\ \A p \in Pair : ByOwner(p) /\ TrailGood(p)

LEMMA InitIInv == Init => IInv
<1> SUFFICES ASSUME Init PROVE IInv
  OBVIOUS
<1>1. TypeOK
  BY AnyCallIsCall, DocTypes DEF Init, TypeOK, AssignmentRow, AuditState, Shown
<1>2. \A r \in Request : Good(r)
  BY DEF Init, Good, Found
<1>3. \A p \in Pair : ByOwner(p) /\ TrailGood(p)
  BY DEF Init, ByOwner, TrailGood, Exists, Moderating
<1> QED
  BY <1>1, <1>2, <1>3 DEF IInv

(* The other database: the documents and the requests are left alone.      *)
LEMMA OtherKeeps == IInv /\ (Other \/ UNCHANGED vars) => IInv'
<1> SUFFICES ASSUME IInv, Other \/ UNCHANGED vars PROVE IInv'
  OBVIOUS
<1>1. UNCHANGED <<docs, pc, call, answer, audit>>
  BY DEF Other, Publish, Expire, Enroll, RemoveCourse, vars
<1>2. TypeOK'
  BY TypesKept, Steps DEF IInv, Good
<1>3. ASSUME NEW r \in Request PROVE Good(r)'
  BY <1>1 DEF IInv, Good, Found, Exists
<1>4. ASSUME NEW p \in Pair PROVE ByOwner(p)' /\ TrailGood(p)'
  <2>1. Moderating(p)' = Moderating(p) /\ \A m \in Request : After(m)' = After(m)
    BY <1>1 DEF Moderating, After
  <2>2. ByOwner(p)'
    BY <1>1 DEF IInv, ByOwner, Exists
  <2>3. TrailGood(p)'
    BY <1>1, <2>1 DEF IInv, TrailGood, Exists, audit, Moderating
  <2> QED
    BY <2>2, <2>3
<1> QED
  BY <1>2, <1>3, <1>4 DEF IInv

LEMMA CrashKeeps == IInv /\ Crash => IInv'
<1> SUFFICES ASSUME IInv, Crash PROVE IInv'
  OBVIOUS
<1>1. TypeOK'
  BY TypesKept, Steps DEF IInv, Good
<1>2. docs' = docs /\ call' = call /\ trail' = trail
  BY DEF Crash
<1>0. ASSUME NEW r \in Request
      PROVE  \/ pc[r] \in {"idle", "done"} /\ pc'[r] = pc[r] /\ answer'[r] = answer[r]
             \/ pc'[r] = "done" /\ answer'[r] = "lost"
  <2>1. r \in InFlight <=> pc[r] \notin {"idle", "done"}
    BY DEF InFlight
  <2>2. pc'[r] = (IF r \in InFlight THEN "done" ELSE pc[r])
    BY DEF Crash
  <2>3. answer'[r] = (IF r \in InFlight THEN "lost" ELSE answer[r])
    BY DEF Crash
  <2> QED
    BY <2>1, <2>2, <2>3
<1>3. ASSUME NEW r \in Request PROVE Good(r)'
  <2>1. Good(r)
    BY DEF IInv
  <2>2. CASE pc'[r] = "done" /\ answer'[r] = "lost"
    BY <2>2 DEF Good, Found
  <2>3. CASE pc'[r] = pc[r] /\ answer'[r] = answer[r]
    BY <1>2, <2>1, <2>3 DEF Good, Found, Exists
  <2> QED
    BY <1>0, <2>2, <2>3
<1>4. ASSUME NEW p \in Pair PROVE ByOwner(p)'
  <2>1. ByOwner(p) /\ (Exists(p) /\ docs[p].feedback # Null => docs[p].feedback \in Request)
    BY DEF IInv, TypeOK, Exists, Doc
  <2> SUFFICES ASSUME Exists(p), docs[p].feedback # Null
               PROVE pc'[docs[p].feedback] = "done" /\ call[docs[p].feedback].user = TutorOf[p[2]]
    BY <1>2 DEF ByOwner, Exists
  <2> QED
    BY <1>0, <2>1 DEF ByOwner
<1>5. ASSUME NEW p \in Pair PROVE TrailGood(p)'
  <2>1. Moderating(p)' = {}
    BY <1>0 DEF Moderating
  <2>2. ASSUME p \notin untold' PROVE p \notin untold /\ \A m \in Moderating(p) : pc[m] = "moderate"
    BY <2>2 DEF Crash, Moderating
  <2>3. TrailGood(p) /\ \A m \in Moderating(p) : Exists(p)
    BY DEF IInv, Good, Found, Moderating
  <2> QED
    BY <1>2, <2>1, <2>2, <2>3 DEF TrailGood, Exists
<1> QED
  BY <1>1, <1>3, <1>4, <1>5 DEF IInv

LEMMA StepKeeps == IInv /\ [Next]_vars => IInv'
<1> SUFFICES ASSUME IInv, [Next]_vars PROVE IInv'
  OBVIOUS
<1>1. ASSUME NEW r \in Request, RequestStep(r) PROVE IInv'
  <2>1. TypeOK /\ (\A o \in Request : Good(o) /\ Found(o))
    BY DEF IInv, Good
  <2>2. TypeOK'
    BY <1>1, <2>1, TypesKept, Steps
  <2>3. \A o \in Request : Good(o)'
    BY <1>1, <2>1, OthersGood, ActorGood
  <2>4. ASSUME NEW p \in Pair PROVE ByOwner(p)' /\ TrailGood(p)'
    BY <1>1, <2>1, FeedbackKept, TrailKept DEF IInv
  <2> QED
    BY <2>2, <2>3, <2>4 DEF IInv
<1> QED
  BY <1>1, OtherKeeps, CrashKeeps, Steps

(***************************************************************************)
(* Theorems                                                                *)
(***************************************************************************)
(* The types, and with them everything above, hold in every reachable      *)
(* state (SubmissionsService and updateSubmissionModeration).              *)
THEOREM Invariance == Spec => []IInv
  BY InitIInv, StepKeeps, PTL DEF Spec

(* Every variable keeps its type.                                         *)
THEOREM TypeCorrect == Spec => []TypeOK
<1>1. IInv => TypeOK
  BY DEF IInv
<1> QED
  BY <1>1, Invariance, PTL

(* A student whose submission was answered 201 finds it, with the content  *)
(* of that request (lines 172-185, 211-231).                               *)
THEOREM SubmissionStands == Spec => []AckedSubmissionStands
<1>1. IInv => AckedSubmissionStands
  BY DEF IInv, Good, AckedSubmissionStands
<1> QED
  BY <1>1, Invariance, PTL

(* A review with a score that was answered 201 stands (lines 257-286).     *)
THEOREM ReviewStands == Spec => []AckedReviewStands
<1>1. IInv => AckedReviewStands
  BY DEF IInv, Good, AckedReviewStands
<1> QED
  BY <1>1, Invariance, PTL

(* Feedback is by the tutor of the course (lines 113-123).                 *)
THEOREM OnlyOwnersReview == Spec => []FeedbackIsByOwner
<1>1. IInv => FeedbackIsByOwner
  BY DEF IInv, ByOwner, FeedbackIsByOwner
<1> QED
  BY <1>1, Invariance, PTL

(* The audit trail tells what is hidden and why, unless moderations of one *)
(* submission overlapped or a record was lost (lines 199-239).             *)
THEOREM TrailIsTrue == Spec => []TrailTellsState
<1>1. ASSUME IInv PROVE TrailTellsState
  <2> SUFFICES ASSUME NEW p \in Pair \ untold
               PROVE /\ Moderating(p) = {} /\ Exists(p) => trail[p] = Snapshot(docs[p])
                     /\ \A r \in Moderating(p) : before[r] = trail[p]
    BY DEF TrailTellsState
  <2> QED
    BY <1>1 DEF IInv, TrailGood
<1> QED
  BY <1>1, Invariance, PTL

(* No step changes what a review has closed (lines 257-286).               *)
THEOREM ClosedStaysClosed == Spec => ReviewIsFinal
<1>1. ASSUME IInv, [Next]_vars, NEW p \in Pair PROVE Evolves(p)
  <2>1. CASE docs' = docs
    BY <2>1 DEF Evolves, Exists
  <2>2. ASSUME NEW r \in Request, RequestStep(r) PROVE Evolves(p)
    BY <1>1, <2>2, StepDocs, DocsEvolve DEF IInv, Good
  <2>3. Other \/ Crash \/ UNCHANGED vars => docs' = docs
    BY DEF Other, Publish, Expire, Enroll, RemoveCourse, Crash, vars
  <2> QED
    BY <1>1, <2>1, <2>2, <2>3, Steps
<1>2. IInv /\ [Next]_vars =>
        [\A p \in Pair :
           Exists(p) /\ docs[p].status = "reviewed" =>
             /\ docs'[p].status = "reviewed"
             /\ docs'[p].feedback = docs[p].feedback
             /\ docs'[p].score = docs[p].score]_vars
  BY <1>1 DEF Evolves
<1> QED
  BY <1>2, Invariance, PTL DEF Spec, ReviewIsFinal

(* Only a moderation that shows a submission uncovers it (lines 211-222).  *)
THEOREM OnlyAdminsUncover == Spec => HiddenUntilShown
<1>1. ASSUME IInv, [Next]_vars, NEW p \in Pair,
             Exists(p), docs[p].isAdminHidden, ~ docs'[p].isAdminHidden
      PROVE \E r \in Request :
              pc[r] = "moderate" /\ pc'[r] # "moderate" /\ call[r].pair = p /\ ~ call[r].isHidden
  <2>1. PICK r \in Request : RequestStep(r)
    BY <1>1, Steps DEF Other, Publish, Expire, Enroll, RemoveCourse, Crash, vars
  <2>2. /\ docs[p] \in Doc /\ call[r] \in Call /\ call[r].pair \in Pair
        /\ docs \in [Pair -> Doc \cup {NoDoc}] /\ pc \in [Request -> Step]
    BY <1>1 DEF IInv, TypeOK, Exists, Call
  <2>3. DocEffect(r) /\ Moves(r)
    BY <1>1, <2>1, StepDocs, StepMoves DEF IInv, Good
  <2>4. ~ (docs'[p] = Reviewed(docs[p], r))
    BY <1>1, <2>2 DEF Reviewed, Doc
  <2>5. pc[r] = "moderate" /\ p = call[r].pair /\ docs'[p] = Moderated(docs[p], r)
    BY <1>1, <2>2, <2>3, <2>4 DEF DocEffect, MatchesFilter
  <2>6. ~ call[r].isHidden
    BY <1>1, <2>2, <2>5 DEF Moderated, Doc, Call
  <2>7. pc'[r] # "moderate"
    BY <2>1, <2>2, <2>5 DEF RequestStep, Arrival, FindAssignment, FindSubmission, FindModerated, Arrive,
         Handle, CheckEnrolled, CheckDuplicate, CreateSubmission, CheckOwner, UpdateFeedback,
         UpdateModeration, RecordAudit, CallFails, WriteAmbiguous, Go, Finish
  <2> QED
    BY <2>5, <2>6, <2>7
<1>2. IInv /\ [Next]_vars =>
        [\A p \in Pair :
           Exists(p) /\ docs[p].isAdminHidden /\ ~ docs'[p].isAdminHidden =>
             \E r \in Request :
               pc[r] = "moderate" /\ pc'[r] # "moderate" /\ call[r].pair = p /\ ~ call[r].isHidden]_vars
  BY <1>1
<1> QED
  BY <1>2, Invariance, PTL DEF Spec, HiddenUntilShown

(***************************************************************************)
(* The desk                                                                *)
(***************************************************************************)
Replies == [r \in Request |-> Reply(r)]

(* How the place and the answer of a request are told to its caller.       *)
LEMMA SaidIs ==
  /\ \A k \in {"error", "lost"} : Said(k) = "unknown"
  /\ \A k \in {"notFound", "badRequest", "forbidden"} : Said(k) = "refused"
  /\ \A k \in {"submitted", "reviewed", "moderated", "alreadySubmitted", "alreadyReviewed"} :
       Said(k) = k
  BY DEF Said

LEMMA ReplyIs ==
  ASSUME NEW r \in Request
  PROVE  /\ pc[r] = "idle" => Reply(r) = "none"
         /\ pc[r] \in {"enrolled", "duplicate", "create"} => Reply(r) = "submitting"
         /\ pc[r] \in {"owner", "feedback"} => Reply(r) = "reviewing"
         /\ pc[r] = "moderate" => Reply(r) = "moderating"
         /\ pc[r] = "audit" => Reply(r) = "served"
         /\ pc[r] = "done" => Reply(r) = Said(answer[r])
  BY DEF Reply

LEMMA ReplyWillBe ==
  ASSUME NEW r \in Request
  PROVE  /\ pc'[r] \in {"enrolled", "duplicate", "create"} => Reply(r)' = "submitting"
         /\ pc'[r] \in {"owner", "feedback"} => Reply(r)' = "reviewing"
         /\ pc'[r] = "moderate" => Reply(r)' = "moderating"
         /\ pc'[r] = "audit" => Reply(r)' = "served"
         /\ pc'[r] = "done" => Reply(r)' = Said(answer'[r])
  BY DEF Reply

(* One step is told to one caller.                                         *)
LEMMA OneIsTold ==
  ASSUME TypeOK, NEW r \in Request, Moves(r)
  PROVE  Replies' = [Replies EXCEPT ![r] = Reply(r)']
<1>1. \A o \in Request \ {r} : pc'[o] = pc[o] /\ answer'[o] = answer[o]
  BY DEF TypeOK, Moves
<1>2. \A o \in Request \ {r} : Reply(o)' = Reply(o)
  BY <1>1 DEF Reply
<1> QED
  BY <1>2 DEF Replies

LEMMA Told ==
  ASSUME TypeOK, NEW r \in Request, Moves(r), NEW from, NEW answers,
         Reply(r) = from, Reply(r)' \in answers
  PROVE  Desk!Tell(r, from, answers)
<1>1. Replies[r] = from /\ Replies' = [Replies EXCEPT ![r] = Reply(r)']
  BY OneIsTold DEF Replies
<1> QED
  BY <1>1 DEF Desk!Tell, Replies

(* The sheets follow the documents.                                        *)
LEMMA SheetsAre ==
  ASSUME NEW p \in Pair
  PROVE  /\ p \in DOMAIN Sheets <=> Exists(p)
         /\ Exists(p) => Sheets[p] = SheetOf(docs[p])
  BY DEF Sheets

LEMMA SheetIsClosed ==
  ASSUME NEW d
  PROVE  SheetOf(d).isClosed <=> d.status = "reviewed"
  BY DEF SheetOf

LEMMA SheetsStay == ASSUME docs' = docs PROVE Sheets' = Sheets
  BY DEF Sheets, Exists

LEMMA SheetReplaced ==
  ASSUME TypeOK, NEW p \in Pair, NEW d \in Doc, Exists(p), docs' = [docs EXCEPT ![p] = d]
  PROVE  Sheets' = [Sheets EXCEPT ![p] = SheetOf(d)]
<1>1. \A q \in Pair : Exists(q)' <=> Exists(q)
  BY NoDocAssumption DEF TypeOK, Exists
<1>2. \A q \in Pair : docs'[q] = IF q = p THEN d ELSE docs[q]
  BY DEF TypeOK
<1>3. {q \in Pair : Exists(q)'} = DOMAIN Sheets
  BY <1>1 DEF Sheets
<1>4. \A q \in DOMAIN Sheets : Sheets[q] = SheetOf(docs[q]) /\ q \in Pair
  BY DEF Sheets
<1>5. Sheets' = [q \in DOMAIN Sheets |-> SheetOf(docs'[q])]
  BY <1>3 DEF Sheets
<1>6. ASSUME NEW q \in DOMAIN Sheets
      PROVE SheetOf(docs'[q]) = IF q = p THEN SheetOf(d) ELSE Sheets[q]
  BY <1>2, <1>4
<1>7. Sheets' = [q \in DOMAIN Sheets |-> IF q = p THEN SheetOf(d) ELSE Sheets[q]]
  BY <1>5, <1>6
<1>8. Sheets = [q \in DOMAIN Sheets |-> Sheets[q]]
  BY DEF Sheets
<1> QED
  BY <1>7, <1>8

LEMMA SheetAdded ==
  ASSUME TypeOK, NEW p \in Pair, NEW d \in Doc, ~ Exists(p), docs' = [docs EXCEPT ![p] = d]
  PROVE  Sheets' = [q \in DOMAIN Sheets \cup {p} |-> IF q # p THEN Sheets[q] ELSE SheetOf(d)]
<1>1. \A q \in Pair : Exists(q)' <=> Exists(q) \/ q = p
  BY NoDocAssumption DEF TypeOK, Exists
<1>2. \A q \in Pair : docs'[q] = IF q = p THEN d ELSE docs[q]
  BY DEF TypeOK
<1>3. {q \in Pair : Exists(q)'} = DOMAIN Sheets \cup {p}
  BY <1>1 DEF Sheets
<1>4. \A q \in DOMAIN Sheets : q # p /\ docs'[q] = docs[q] /\ Sheets[q] = SheetOf(docs[q])
  BY <1>2 DEF Sheets
<1> QED
  BY <1>2, <1>3, <1>4 DEF Sheets

(* A step of a request is a step of its caller, or is not seen at all.     *)
Served(r) ==
  /\ Reply(r)' # Reply(r)
  /\ \/ Desk!Begin(r)
     \/ Desk!HandIn(r, call[r].pair)
     \/ Desk!Review(r, call[r].pair)
     \/ Desk!Moderate(r, call[r].pair)
     \/ Desk!Return(r, call[r].pair)

Unseen(r) == Reply(r)' = Reply(r) /\ docs' = docs /\ call' = call

LEMMA ServedIsStep ==
  ASSUME TypeOK, NEW r \in Request, Moves(r), Served(r) \/ Unseen(r)
  PROVE  [Desk!Next]_Desk!deskVars
<1>1. CASE Served(r)
  <2>1. Replies'[r] # Replies[r]
    BY <1>1 DEF Served, Replies
  <2> QED
    BY <1>1, <2>1 DEF Served, Desk!Next, Replies
<1>2. CASE Unseen(r)
  <2>1. Replies' = Replies
    BY <1>2, OneIsTold DEF Unseen, Replies
  <2> QED
    BY <1>2, <2>1, SheetsStay DEF Unseen, Desk!deskVars, Replies
<1> QED
  BY <1>1, <1>2

(* Where a step of r leads.                                                *)
LEMMA Goes ==
  ASSUME TypeOK, NEW r \in Request, NEW s, Go(r, s)
  PROVE  pc'[r] = s /\ answer'[r] = answer[r]
  BY DEF TypeOK, Go

LEMMA Finishes ==
  ASSUME TypeOK, NEW r \in Request, NEW k, Finish(r, k)
  PROVE  pc'[r] = "done" /\ answer'[r] = k
  BY DEF TypeOK, Finish

LEMMA ArrivalBegins ==
  ASSUME TypeOK, NEW r \in Request, Arrival(r), Moves(r)
  PROVE  Served(r)
<1>1. Arrived(r)
  BY ArrivalIs
<1>2. \/ Go(r, "enrolled") \/ Go(r, "owner") \/ Go(r, "moderate")
      \/ Finish(r, "notFound") \/ Finish(r, "badRequest")
  BY DEF Arrival, FindAssignment, FindSubmission, FindModerated
<1>3. Reply(r)' \in {"submitting", "reviewing", "moderating", "refused"}
  BY <1>2, Goes, Finishes, ReplyWillBe, SaidIs
<1>4. Reply(r) = "none"
  BY <1>1, ReplyIs DEF Arrived
<1>5. Desk!Tell(r, "none", Desk!Begun)
  BY <1>3, <1>4, Told DEF Desk!Begun
<1>6. Sheets' = Sheets
  BY <1>1, SheetsStay DEF Arrived
<1> QED
  BY <1>1, <1>3, <1>4, <1>5, <1>6 DEF Served, Desk!Begin, Arrived

(* Answers without a write.                                                *)
LEMMA Returns ==
  ASSUME TypeOK, NEW r \in Request, Moves(r), docs' = docs, call' = call,
         \/ Reply(r) = "submitting" /\ Reply(r)' \in {"refused", "unknown"}
         \/ Reply(r) = "submitting" /\ Reply(r)' = "alreadySubmitted" /\ Exists(call[r].pair)
         \/ Reply(r) = "reviewing" /\ Reply(r)' \in {"refused", "unknown"}
         \/ /\ Reply(r) = "reviewing" /\ Reply(r)' = "alreadyReviewed" /\ Exists(call[r].pair)
            /\ docs[call[r].pair].status = "reviewed"
         \/ Reply(r) = "moderating" /\ Reply(r)' = "unknown"
         \/ Reply(r) = "served" /\ Reply(r)' \in {"moderated", "unknown"}
  PROVE  Served(r)
<1> DEFINE p == call[r].pair
<1>1. p \in Pair
  BY DEF TypeOK, Call
<1>2. Sheets' = Sheets
  BY SheetsStay
<1>3. /\ p \in DOMAIN Sheets <=> Exists(p)
      /\ Exists(p) => (Sheets[p].isClosed <=> docs[p].status = "reviewed")
  BY <1>1, SheetsAre, SheetIsClosed
<1>4. \/ Desk!Tell(r, "submitting", {"refused", "unknown"})
      \/ Desk!Tell(r, "submitting", {"alreadySubmitted"}) /\ p \in DOMAIN Sheets
      \/ Desk!Tell(r, "reviewing", {"refused", "unknown"})
      \/ /\ Desk!Tell(r, "reviewing", {"alreadyReviewed"})
         /\ p \in DOMAIN Sheets /\ Sheets[p].isClosed
      \/ Desk!Tell(r, "moderating", {"unknown"})
      \/ Desk!Tell(r, "served", {"moderated", "unknown"})
  BY <1>3, Told
<1>5. Desk!Return(r, p)
  BY <1>2, <1>4 DEF Desk!Return
<1> QED
  BY <1>5 DEF Served

LEMMA Creates ==
  ASSUME TypeOK, NEW r \in Request, Moves(r), call' = call, pc[r] = "create",
         ~ Exists(call[r].pair), docs' = [docs EXCEPT ![call[r].pair] = NewSubmission(r)],
         Finish(r, "submitted") \/ Finish(r, "error")
  PROVE  Served(r)
<1> DEFINE p == call[r].pair
<1>1. p \in Pair /\ NewSubmission(r) \in Doc
  BY DocTypes DEF TypeOK, Call
<1>2. Reply(r) = "submitting" /\ Reply(r)' \in {"submitted", "unknown"}
  BY Finishes, ReplyIs, ReplyWillBe, SaidIs
<1>3. Desk!Tell(r, "submitting", {"submitted", "unknown"})
  BY <1>2, Told
<1>4. SheetOf(NewSubmission(r)) =
        [text |-> r, feedback |-> Null, score |-> Null, isClosed |-> FALSE, cover |-> Null]
  BY DEF SheetOf, NewSubmission
<1>5. Sheets' = [q \in DOMAIN Sheets \cup {p} |->
                   IF q # p THEN Sheets[q] ELSE SheetOf(NewSubmission(r))]
  BY <1>1, SheetAdded
<1>6. p \notin DOMAIN Sheets
  BY <1>1, SheetsAre
<1>7. Desk!HandIn(r, p)
  BY <1>3, <1>4, <1>5, <1>6 DEF Desk!HandIn
<1> QED
  BY <1>2, <1>7 DEF Served

LEMMA Reviews ==
  ASSUME TypeOK, NEW r \in Request, Good(r), Moves(r), call' = call, pc[r] = "feedback",
         MatchesFilter(call[r].pair),
         docs' = [docs EXCEPT ![call[r].pair] = Reviewed(@, r)],
         Finish(r, "reviewed") \/ Finish(r, "error")
  PROVE  Served(r)
<1> DEFINE p == call[r].pair
           d == docs[p]
           isScored == call[r].score # Absent
<1>1. p \in Pair /\ d \in Doc /\ Reviewed(d, r) \in Doc /\ Exists(p)
  BY DocTypes DEF TypeOK, Call, MatchesFilter, Exists
<1>2. Reply(r) = "reviewing" /\ Reply(r)' \in {"reviewed", "unknown"}
  BY Finishes, ReplyIs, ReplyWillBe, SaidIs
<1>3. Desk!Tell(r, "reviewing", {"reviewed", "unknown"})
  BY <1>2, Told
<1>4. p \in DOMAIN Sheets /\ Sheets[p] = SheetOf(d) /\ d.status # "reviewed"
  BY <1>1, SheetsAre DEF MatchesFilter
<1>5. SheetOf(Reviewed(d, r)) =
        [SheetOf(d) EXCEPT !.feedback = r, !.isClosed = isScored,
                           !.score = IF isScored THEN call[r].score ELSE Null]
  <2> DEFINE cover == IF d.isAdminHidden THEN d.adminHiddenReason ELSE Null
             isClosed == d.status = "reviewed"
             e == Reviewed(d, r)
  <2>1. /\ e.content = d.content /\ e.feedback = r
        /\ e.isAdminHidden = d.isAdminHidden /\ e.adminHiddenReason = d.adminHiddenReason
        /\ isScored => e.score = call[r].score /\ e.status = "reviewed"
        /\ ~ isScored => e.score = Null /\ e.status = "returned"
    BY <1>1 DEF Reviewed, Doc
  <2>2. (e.status = "reviewed") = isScored
    BY <2>1
  <2>3. SheetOf(e) = [text |-> d.content, feedback |-> r,
                      score |-> IF isScored THEN call[r].score ELSE Null,
                      isClosed |-> isScored, cover |-> cover]
    BY <2>1, <2>2 DEF SheetOf
  <2>4. SheetOf(d) = [text |-> d.content, feedback |-> d.feedback, score |-> d.score,
                      isClosed |-> isClosed, cover |-> cover]
    BY DEF SheetOf
  <2> DEFINE score == IF isScored THEN call[r].score ELSE Null
             R(i, j, k) == [text |-> d.content, feedback |-> i, score |-> k, isClosed |-> j, cover |-> cover]
  <2> HIDE DEF d, e, isScored, isClosed, cover, score
  <2>5. [R(d.feedback, isClosed, d.score) EXCEPT !.feedback = r] = R(r, isClosed, d.score)
    OBVIOUS
  <2>6. [R(r, isClosed, d.score) EXCEPT !.isClosed = isScored] = R(r, isScored, d.score)
    OBVIOUS
  <2>7. [R(r, isScored, d.score) EXCEPT !.score = score] = R(r, isScored, score)
    OBVIOUS
  <2>8. SheetOf(d) = R(d.feedback, isClosed, d.score) /\ SheetOf(e) = R(r, isScored, score)
    BY <2>3, <2>4 DEF score
  <2> HIDE DEF R
  <2> QED
    BY <2>5, <2>6, <2>7, <2>8 DEF e, score
<1>6. Sheets' = [Sheets EXCEPT ![p] = SheetOf(Reviewed(d, r))]
  BY <1>1, SheetReplaced
<1>7. ~ Sheets[p].isClosed /\ call[r].user = TutorOf[p[2]]
  BY <1>4, SheetIsClosed DEF Good
<1>8. Desk!Review(r, p)
  BY <1>1, <1>3, <1>4, <1>5, <1>6, <1>7 DEF Desk!Review, Desk!Put
<1> QED
  BY <1>2, <1>8 DEF Served

LEMMA Moderates ==
  ASSUME TypeOK, NEW r \in Request, Good(r), Moves(r), call' = call, pc[r] = "moderate",
         docs' = [docs EXCEPT ![call[r].pair] = Moderated(@, r)],
         Go(r, "audit") \/ Finish(r, "error")
  PROVE  Served(r)
<1> DEFINE p == call[r].pair
           d == docs[p]
<1>1. p \in Pair /\ d \in Doc /\ Moderated(d, r) \in Doc /\ Exists(p) /\ call[r].isHidden \in BOOLEAN
  BY DocTypes DEF TypeOK, Call, Good, Found, Exists
<1>2. Reply(r) = "moderating" /\ Reply(r)' \in {"served", "unknown"}
  BY Goes, Finishes, ReplyIs, ReplyWillBe, SaidIs
<1>3. Desk!Tell(r, "moderating", {"served", "unknown"})
  BY <1>2, Told
<1>4. p \in DOMAIN Sheets /\ Sheets[p] = SheetOf(d)
  BY <1>1, SheetsAre
<1>5. SheetOf(Moderated(d, r)) =
        [SheetOf(d) EXCEPT !.cover = IF call[r].isHidden THEN r ELSE Null]
  BY <1>1 DEF SheetOf, Moderated, Doc
<1>6. Sheets' = [Sheets EXCEPT ![p] = SheetOf(Moderated(d, r))]
  BY <1>1, SheetReplaced
<1>7. Desk!Moderate(r, p)
  BY <1>3, <1>4, <1>5, <1>6 DEF Desk!Moderate, Desk!Put
<1> QED
  BY <1>2, <1>7 DEF Served

LEMMA HandleServes ==
  ASSUME TypeOK, NEW r \in Request, Good(r), Moves(r), Handle(r)
  PROVE  Served(r) \/ Unseen(r)
<1>1. CASE CheckEnrolled(r)
  <2>1. pc[r] = "enrolled" /\ docs' = docs /\ call' = call
    BY <1>1 DEF CheckEnrolled
  <2>2. CASE Go(r, "duplicate")
    BY <2>1, <2>2, Goes, ReplyIs, ReplyWillBe DEF Unseen
  <2>3. CASE Finish(r, "forbidden")
    <3>1. Reply(r) = "submitting" /\ Reply(r)' = "refused"
      BY <2>1, <2>3, Finishes, ReplyIs, ReplyWillBe, SaidIs
    <3> QED
      BY <2>1, <3>1, Returns
  <2> QED
    BY <1>1, <2>2, <2>3 DEF CheckEnrolled
<1>2. CASE CheckDuplicate(r)
  <2>1. pc[r] = "duplicate" /\ docs' = docs /\ call' = call
    BY <1>2 DEF CheckDuplicate
  <2>2. CASE Go(r, "create")
    BY <2>1, <2>2, Goes, ReplyIs, ReplyWillBe DEF Unseen
  <2>3. CASE Exists(call[r].pair) /\ Finish(r, "alreadySubmitted")
    <3>1. Reply(r) = "submitting" /\ Reply(r)' = "alreadySubmitted"
      BY <2>1, <2>3, Finishes, ReplyIs, ReplyWillBe, SaidIs
    <3> QED
      BY <2>1, <2>3, <3>1, Returns
  <2> QED
    BY <1>2, <2>2, <2>3 DEF CheckDuplicate
<1>3. CASE CreateSubmission(r)
  <2>1. pc[r] = "create" /\ call' = call
    BY <1>3 DEF CreateSubmission
  <2>2. CASE Exists(call[r].pair) /\ Finish(r, "alreadySubmitted") /\ docs' = docs
    <3>1. Reply(r) = "submitting" /\ Reply(r)' = "alreadySubmitted"
      BY <2>1, <2>2, Finishes, ReplyIs, ReplyWillBe, SaidIs
    <3> QED
      BY <2>1, <2>2, <3>1, Returns
  <2>3. CASE /\ ~ Exists(call[r].pair) /\ Finish(r, "submitted")
             /\ docs' = [docs EXCEPT ![call[r].pair] = NewSubmission(r)]
    BY <2>1, <2>3, Creates
  <2> QED
    BY <1>3, <2>2, <2>3 DEF CreateSubmission
<1>4. CASE CheckOwner(r)
  <2>1. pc[r] = "owner" /\ docs' = docs /\ call' = call
    BY <1>4 DEF CheckOwner
  <2>2. CASE Go(r, "feedback")
    BY <2>1, <2>2, Goes, ReplyIs, ReplyWillBe DEF Unseen
  <2>3. CASE Finish(r, "notFound") \/ Finish(r, "forbidden")
    <3>1. Reply(r) = "reviewing" /\ Reply(r)' = "refused"
      BY <2>1, <2>3, Finishes, ReplyIs, ReplyWillBe, SaidIs
    <3> QED
      BY <2>1, <3>1, Returns
  <2> QED
    BY <1>4, <2>2, <2>3 DEF CheckOwner
<1>5. CASE UpdateFeedback(r)
  <2>1. pc[r] = "feedback" /\ call' = call
    BY <1>5 DEF UpdateFeedback
  <2>2. CASE ~ MatchesFilter(call[r].pair) /\ Finish(r, "alreadyReviewed") /\ docs' = docs
    <3>1. Reply(r) = "reviewing" /\ Reply(r)' = "alreadyReviewed"
      BY <2>1, <2>2, Finishes, ReplyIs, ReplyWillBe, SaidIs
    <3>2. Exists(call[r].pair) /\ docs[call[r].pair].status = "reviewed"
      BY <2>1, <2>2 DEF Good, Found, MatchesFilter
    <3> QED
      BY <2>1, <2>2, <3>1, <3>2, Returns
  <2>3. CASE /\ MatchesFilter(call[r].pair) /\ Finish(r, "reviewed")
             /\ docs' = [docs EXCEPT ![call[r].pair] = Reviewed(@, r)]
    BY <2>1, <2>3, Reviews
  <2> QED
    BY <1>5, <2>2, <2>3 DEF UpdateFeedback
<1>6. CASE UpdateModeration(r)
  BY <1>6, Moderates DEF UpdateModeration
<1>7. CASE RecordAudit(r)
  <2>1. pc[r] = "audit" /\ docs' = docs /\ call' = call /\ Finish(r, "moderated")
    BY <1>7 DEF RecordAudit
  <2>2. Reply(r) = "served" /\ Reply(r)' = "moderated"
    BY <2>1, Finishes, ReplyIs, ReplyWillBe, SaidIs
  <2> QED
    BY <2>1, <2>2, Returns
<1> QED
  BY <1>1, <1>2, <1>3, <1>4, <1>5, <1>6, <1>7 DEF Handle

(* A failed call: the caller does not know.                                *)
LEMMA FaultServes ==
  ASSUME TypeOK, NEW r \in Request, Good(r), Moves(r), CallFails(r) \/ WriteAmbiguous(r)
  PROVE  Served(r)
<1>1. Finish(r, "error") /\ call' = call /\ pc[r] \in Step \ {"idle", "done"}
  BY DEF CallFails, WriteAmbiguous, TypeOK
<1>2. Reply(r)' = "unknown" /\ Reply(r) \in {"submitting", "reviewing", "moderating", "served"}
  BY <1>1, Finishes, ReplyIs, ReplyWillBe, SaidIs
<1>3. CASE docs' = docs
  BY <1>1, <1>2, <1>3, Returns
<1>4. CASE /\ pc[r] = "create" /\ ~ Exists(call[r].pair)
           /\ docs' = [docs EXCEPT ![call[r].pair] = NewSubmission(r)]
  BY <1>1, <1>4, Creates
<1>5. CASE /\ pc[r] = "feedback" /\ MatchesFilter(call[r].pair)
           /\ docs' = [docs EXCEPT ![call[r].pair] = Reviewed(@, r)]
  BY <1>1, <1>5, Reviews
<1>6. CASE pc[r] = "moderate" /\ docs' = [docs EXCEPT ![call[r].pair] = Moderated(@, r)]
  BY <1>1, <1>6, Moderates
<1> QED
  BY <1>3, <1>4, <1>5, <1>6 DEF CallFails, WriteAmbiguous

LEMMA CrashIsBlackout == TypeOK /\ Crash => Desk!Blackout
<1> SUFFICES ASSUME TypeOK, Crash PROVE Desk!Blackout
  OBVIOUS
<1>1. call' = call /\ docs' = docs
  BY DEF Crash
<1>2. ASSUME NEW r \in Request
      PROVE  Reply(r)' = IF Reply(r) \in Desk!Waiting THEN "unknown" ELSE Reply(r)
  <2>1. pc[r] \in Step
    BY DEF TypeOK
  <2>2. CASE pc[r] \in {"idle", "done"}
    <3>1. pc'[r] = pc[r] /\ answer'[r] = answer[r]
      BY <2>2 DEF Crash, InFlight
    <3>2. Reply(r)' = Reply(r)
      BY <3>1 DEF Reply
    <3>3. Reply(r) \notin Desk!Waiting
      <4>1. answer[r] \in Kind
        BY DEF TypeOK
      <4>2. Said(answer[r]) \notin Desk!Waiting
        BY <4>1 DEF Said, Desk!Waiting
      <4> QED
        BY <2>2, <4>2, ReplyIs DEF Desk!Waiting
    <3> QED
      BY <3>2, <3>3
  <2>3. CASE pc[r] \notin {"idle", "done"}
    <3>1. pc'[r] = "done" /\ answer'[r] = "lost"
      BY <2>3 DEF Crash, InFlight
    <3>2. Reply(r)' = "unknown"
      BY <3>1, ReplyWillBe, SaidIs
    <3>3. Reply(r) \in Desk!Waiting
      BY <2>1, <2>3, ReplyIs DEF Desk!Waiting
    <3> QED
      BY <3>2, <3>3
  <2> QED
    BY <2>2, <2>3
<1>3. Replies' = [r \in Request |-> IF Replies[r] \in Desk!Waiting THEN "unknown" ELSE Replies[r]]
  BY <1>2 DEF Replies
<1> QED
  BY <1>1, <1>3, SheetsStay DEF Desk!Blackout, Replies

LEMMA DeskStep == IInv /\ [Next]_vars => [Desk!Next]_Desk!deskVars
<1> SUFFICES ASSUME IInv, [Next]_vars PROVE [Desk!Next]_Desk!deskVars
  OBVIOUS
<1>1. ASSUME NEW r \in Request, RequestStep(r) PROVE [Desk!Next]_Desk!deskVars
  <2>1. TypeOK /\ Good(r) /\ Moves(r)
    BY <1>1, StepMoves DEF IInv
  <2>2. Served(r) \/ Unseen(r)
    BY <1>1, <2>1, ArrivalBegins, HandleServes, FaultServes DEF RequestStep
  <2> QED
    BY <2>1, <2>2, ServedIsStep
<1>2. CASE Other \/ UNCHANGED vars
  <2>1. docs' = docs /\ pc' = pc /\ call' = call /\ answer' = answer
    BY <1>2 DEF Other, Publish, Expire, Enroll, RemoveCourse, vars
  <2>2. Replies' = Replies
    BY <2>1 DEF Replies, Reply
  <2> QED
    BY <2>1, <2>2, SheetsStay DEF Desk!deskVars, Replies
<1>3. CASE Crash
  BY <1>3, CrashIsBlackout DEF IInv, Desk!Next
<1> QED
  BY <1>1, <1>2, <1>3, Steps

LEMMA DeskInit == Init => Desk!Init
<1> SUFFICES ASSUME Init PROVE Desk!Init
  OBVIOUS
<1>1. Sheets = [p \in {} |-> Null]
  <2>1. {p \in Pair : Exists(p)} = {}
    BY DEF Init, Exists
  <2> QED
    BY <2>1 DEF Sheets
<1>2. Replies = [r \in Request |-> "none"]
  BY ReplyIs DEF Init, Replies
<1>3. call \in [Request -> Call]
  BY AnyCallIsCall DEF Init
<1> QED
  BY <1>1, <1>2, <1>3 DEF Desk!Init, Replies

(* Submissions, reviews and moderations behave like steps at one desk, for *)
(* any number of requests and pairs and under every fault: each takes      *)
(* effect once between call and answer, and is refused only for a reason   *)
(* that held then (lines 74-136, 172-231, 257-286).                        *)
THEOREM DeskIsKept == Spec => ImplementsDesk
<1>1. Spec => Desk!Init /\ [][Desk!Next]_Desk!deskVars
  BY DeskInit, DeskStep, Invariance, PTL DEF Spec
<1> QED
  BY <1>1 DEF ImplementsDesk, Desk!Spec

=============================================================================
