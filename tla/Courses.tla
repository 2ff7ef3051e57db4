------------------------------ MODULE Courses ------------------------------
(***************************************************************************)
(* The tables courses, lectures and assignments and everything that writes *)
(* them: CoursesService, AssignmentsService, and the moderation of courses *)
(* and assignments by AdminContentService.                                 *)
(*                                                                         *)
(* Each write is "load, assign some columns, save" or "check, insert" or   *)
(* "check, delete", with awaits in between and nothing that excludes       *)
(* another request.  The constraints of the database are the safety net.   *)
(***************************************************************************)
EXTENDS Naturals, FiniteSets, Repository

CONSTANTS
  Request,     \* HTTP calls, each made at most once
  Tutor,       \* users with the role of a tutor
  Course,      \* courses, by id
  Assignment,  \* assignments, by id
  Lecture,     \* lectures, by id
  TutorOf,     \* who creates, and so owns, each course
  CourseOf,    \* the course of each assignment
  Order,       \* the values of dto.order that are sent
  Null,        \* SQL NULL, or a property the body leaves out
  NoRow,       \* no row
  Faults       \* "crash", "dbLost"

Content == Course \cup Assignment

ASSUME OwnerAssumption == TutorOf \in [Course -> Tutor] /\ CourseOf \in [Assignment -> Course]
ASSUME SomeAssumption == Course # {}
ASSUME IdAssumption ==
  /\ Course \cap Assignment = {}
  /\ Null \notin Request \cup Course
  /\ Null \notin BOOLEAN
  /\ Null \notin Order
ASSUME FaultAssumption == Faults \subseteq {"crash", "dbLost"}

(* title: who wrote the text columns last; adminHiddenBy stands for        *)
(* adminHiddenReason and adminHiddenAt, which are always set together.     *)
Row == [title : Request \cup {Null}, isPublished : BOOLEAN,
        isAdminHidden : BOOLEAN, adminHiddenBy : Request \cup {Null}]

(* The columns createModerationSnapshot copies.                            *)
ModerationColumns == {"isAdminHidden", "adminHiddenBy"}

LectureRow == [course : Course \cup {Null}, order : Order]

ASSUME RowAssumption == NoRow \notin Row \cup LectureRow

Operations ==
  {"createCourse", "update", "remove", "createLecture", "updateLecture",
   "removeLecture", "createAssignment", "publishAssignment", "moderate"}

(* target: the assignment or lecture in the course, or the content to      *)
(* moderate, where there is one; isSet: isPublished or isHidden; order:    *)
(* dto.order.                                                              *)
Call == [op : Operations, user : Tutor, course : Course,
         target : Content \cup Lecture, isSet : BOOLEAN \cup {Null},
         order : Order \cup {Null}]

AnyCall == CHOOSE c \in Call : TRUE

Step == {"idle", "find", "insert", "delete", "reload", "update", "reinsert",
         "audit", "done"}

Kind == {"pending", "ok", "notFound", "forbidden", "badRequest", "conflict",
         "error", "lost"}

VARIABLES
  rows,      \* the tables courses and assignments
  lectures,  \* the table lectures
  issued,    \* the ids of rows that exist or have existed
  pc,        \* the await at which a request stands
  call,      \* what each request asks for
  memory,    \* the entity it has loaded and changed
  seen,      \* the lectures loaded along with a course
  reloaded,  \* the row as save() has read it again
  orphans,   \* the lectures save() takes to have left the course
  answer,    \* how the request ended
  trail,     \* afterState of the last record about each course or assignment
  meant,     \* history: the moderation of each row, had only moderations set it
  removed,   \* history: the courses whose removal was answered 204
  overtaken, \* history: the requests whose row changed between load and save()
  stale,     \* history: the content an overtaken request has written back
  untold     \* history: the content whose trail has a gap or an overlap

entities == <<memory, seen, reloaded, orphans>>
history == <<meant, removed, overtaken, stale, untold>>
vars == <<rows, lectures, issued, pc, call, entities, answer, trail, history>>

TypeOK ==
  /\ rows \in [Content -> Row \cup {NoRow}]
  /\ lectures \in [Lecture -> LectureRow \cup {NoRow}]
  /\ issued \subseteq Content \cup Lecture
  /\ pc \in [Request -> Step]
  /\ call \in [Request -> Call]
  /\ memory \in [Request -> Row \cup LectureRow \cup {NoRow}]
  /\ seen \in [Request -> SUBSET Lecture]
  /\ reloaded \in [Request -> Row \cup LectureRow \cup {NoRow}]
  /\ orphans \in [Request -> SUBSET Lecture]
  /\ answer \in [Request -> Kind]
  /\ trail \in [Content -> [isAdminHidden : BOOLEAN, adminHiddenBy : Request \cup {Null}]]
  /\ meant \in [Content -> [isAdminHidden : BOOLEAN, adminHiddenBy : Request \cup {Null}]]
  /\ removed \subseteq Course
  /\ overtaken \subseteq Request
  /\ stale \subseteq Content
  /\ untold \subseteq Content

(* Mutant: a course is created without its default for is_published.       *)
NewCourse_NoDefault(r) ==
  [title |-> r, isPublished |-> Null, isAdminHidden |-> FALSE, adminHiddenBy |-> Null]

NewCourse(r) ==
  [title |-> r, isPublished |-> FALSE, isAdminHidden |-> FALSE, adminHiddenBy |-> Null]

(* createAssignmentEntity: assignments are published from the start.       *)
NewAssignment(r) == [NewCourse(r) EXCEPT !.isPublished = TRUE]

(* createModerationSnapshot                                                *)
Snapshot(e) == [isAdminHidden |-> e.isAdminHidden, adminHiddenBy |-> e.adminHiddenBy]

Init ==
  /\ \E born \in SUBSET Course :
       /\ rows = [x \in Content |-> IF x \in born THEN NewCourse(Null) ELSE NoRow]
       /\ issued = born
  /\ lectures = [l \in Lecture |-> NoRow]
  /\ pc = [r \in Request |-> "idle"]
  /\ call = [r \in Request |-> AnyCall]
  /\ memory = [r \in Request |-> NoRow]
  /\ seen = [r \in Request |-> {}]
  /\ reloaded = [r \in Request |-> NoRow]
  /\ orphans = [r \in Request |-> {}]
  /\ answer = [r \in Request |-> "pending"]
  /\ trail = [x \in Content |-> Snapshot(NewCourse(Null))]
  /\ meant = [x \in Content |-> Snapshot(NewCourse(Null))]
  /\ removed = {}
  /\ overtaken = {}
  /\ stale = {}
  /\ untold = {}

(***************************************************************************)
(* Helpers                                                                 *)
(***************************************************************************)
Exists(x) == rows[x] # NoRow

LecturesOf(c) == {l \in Lecture : lectures[l] # NoRow /\ lectures[l].course = c}

(* The unique index (course_id, order), for a row other than that of l.    *)
Taken(l, c, order) == \E other \in LecturesOf(c) \ {l} : lectures[other].order = order

Go(r, step) ==
  /\ pc' = [pc EXCEPT ![r] = step]
  /\ UNCHANGED answer

Finish(r, kind) ==
  /\ pc' = [pc EXCEPT ![r] = "done"]
  /\ answer' = [answer EXCEPT ![r] = kind]

(* The entities of a request go out of scope when it ends.                 *)
Forget(r) ==
  /\ memory' = [memory EXCEPT ![r] = NoRow]
  /\ seen' = [seen EXCEPT ![r] = {}]
  /\ reloaded' = [reloaded EXCEPT ![r] = NoRow]
  /\ orphans' = [orphans EXCEPT ![r] = {}]

(* The row a request loads, changes and saves.                             *)
Subject(r) == IF call[r].op = "update" THEN call[r].course ELSE call[r].target

(* The requests with an entity of some content that save() will compare    *)
(* with the row, or has found no row for: it writes back what has changed. *)
Exposed(xs) ==
  {r \in Request : /\ call[r].op \in {"update", "publishAssignment", "moderate"}
                   /\ pc[r] \in {"reload", "reinsert"}
                   /\ Subject(r) \in xs}

(* A moderation has set these columns as it was asked to.                  *)
Means(r, columns) ==
  meant' = IF call[r].op # "moderate" THEN meant
           ELSE [meant EXCEPT ![Subject(r)] = With(@, memory[r], columns)]

(***************************************************************************)
(* Arrivals: the first SELECT of each operation                            *)
(***************************************************************************)
Arrive(r, c) ==
  /\ pc[r] = "idle"
  /\ call' = [call EXCEPT ![r] = c]
  /\ UNCHANGED <<rows, lectures, issued, seen, reloaded, orphans, trail, history>>

(* The assignments to a loaded course or assignment before its save; the  *)
(* body of an update carries the text or isPublished.                      *)
Assigned(e, c, r) ==
  CASE c.op = "moderate" ->
         [e EXCEPT !.isAdminHidden = c.isSet, !.adminHiddenBy = IF c.isSet THEN r ELSE Null]
    [] c.isSet = Null -> [e EXCEPT !.title = r]
    [] OTHER -> [e EXCEPT !.isPublished = c.isSet]

(* findByIdAndVerifyOwner or findCourseOrFail, assertTutorOwnsCourse, and  *)
(* what the callback does before its first await.                          *)
BeginOwned(r, c) ==
  /\ c.op \notin {"createCourse", "moderate"}
  /\ Arrive(r, c)
  /\ \/ /\ ~ Exists(c.course)
        /\ Finish(r, "notFound")
        /\ UNCHANGED memory
     \/ /\ Exists(c.course)
        /\ TutorOf[c.course] # c.user
        /\ Finish(r, "forbidden")
        /\ UNCHANGED memory
     \/ /\ Exists(c.course)
        /\ TutorOf[c.course] = c.user
        /\ CASE c.op = "update" ->
                  /\ memory' = [memory EXCEPT ![r] = Assigned(rows[c.course], c, r)]
                  /\ Go(r, "reload")
             [] c.op = "remove" -> Go(r, "delete") /\ UNCHANGED memory
             [] c.op = "createLecture" -> Go(r, "insert") /\ UNCHANGED memory
             [] c.op = "createAssignment" ->
                  /\ Go(r, "insert") \/ Finish(r, "badRequest")
                  /\ UNCHANGED memory
             [] OTHER -> Go(r, "find") /\ UNCHANGED memory

(* CoursesService.create.                                                  *)
CreateCourse(r, c) ==
  /\ c.op = "createCourse"
  /\ c.user = TutorOf[c.course]
  /\ c.course \notin issued
  /\ pc[r] = "idle"
  /\ call' = [call EXCEPT ![r] = c]
  /\ rows' = [rows EXCEPT ![c.course] = NewCourse(r)]
  /\ issued' = issued \cup {c.course}
  /\ Finish(r, "ok")
  /\ UNCHANGED <<lectures, entities, trail, history>>

(* findCourseById, with the lectures, or findAssignmentById, and the       *)
(* assignments to what they found.                                         *)
FindModerated(r, c) ==
  /\ c.op = "moderate"
  /\ pc[r] = "idle"
  /\ call' = [call EXCEPT ![r] = c]
  /\ IF Exists(c.target)
       THEN /\ memory' = [memory EXCEPT ![r] = Assigned(rows[c.target], c, r)]
            /\ seen' = [seen EXCEPT ![r] = LecturesOf(c.target)]
            /\ Go(r, "reload")
       ELSE Finish(r, "notFound") /\ UNCHANGED <<memory, seen>>
  /\ UNCHANGED <<rows, lectures, issued, reloaded, orphans, trail, history>>

(***************************************************************************)
(* save() of a course or an assignment                                     *)
(***************************************************************************)
(* findAssignmentInCourseOrFail.                                           *)
FindAssignment(r) ==
  LET c == call[r] IN
    /\ pc[r] = "find"
    /\ c.op = "publishAssignment"
    /\ IF Exists(c.target) /\ CourseOf[c.target] = c.course
         THEN /\ memory' = [memory EXCEPT ![r] = Assigned(rows[c.target], c, r)]
              /\ Go(r, "reload")
         ELSE Finish(r, "notFound") /\ UNCHANGED memory
    /\ UNCHANGED <<rows, lectures, issued, call, seen, reloaded, orphans, trail, history>>

SavesContent(r) == call[r].op \in {"update", "publishAssignment", "moderate"}

(* The moderations of x that are saved and not recorded yet.               *)
Unrecorded(x) ==
  {r \in Request : pc[r] = "audit" /\ call[r].target = x}

(* The moderations of x between the SELECT and the UPDATE of save().       *)
Compared(x) ==
  {r \in Request : pc[r] = "update" /\ call[r].op = "moderate" /\ call[r].target = x}

(* save() returns.  The records of moderations that overlap may be in      *)
(* another order than their writes.                                        *)
Saved(r) ==
  LET x == Subject(r) IN
    /\ IF call[r].op = "moderate"
         THEN /\ Go(r, "audit")
              /\ untold' = IF Unrecorded(x) \cup (Compared(x) \ {r}) # {}
                             THEN untold \cup {x} ELSE untold
         ELSE Finish(r, "ok") /\ UNCHANGED untold
    /\ UNCHANGED removed
    /\ Forget(r)

(* The SELECT of save(): the row and, where the lectures were loaded, the  *)
(* ids of the lectures.  Those that have been added since seem to have     *)
(* been taken out of the course by the caller.                             *)
ReloadContent(r) ==
  LET x == Subject(r)
      dirty == Dirty(memory[r], rows[x])
      left == IF call[r].op = "moderate" THEN LecturesOf(x) \ seen[r] ELSE {}
  IN
    /\ pc[r] = "reload"
    /\ SavesContent(r)
    /\ \/ /\ ~ Exists(x)
          /\ Go(r, "reinsert")
          /\ UNCHANGED <<entities, history>>
       \/ /\ Exists(x) /\ dirty = {} /\ left = {}
          /\ Means(r, ModerationColumns)
          /\ Saved(r)
          /\ UNCHANGED <<overtaken, stale>>
       \/ /\ Exists(x) /\ (dirty # {} \/ left # {})
          /\ Means(r, ModerationColumns \ dirty)
          /\ reloaded' = [reloaded EXCEPT ![r] = rows[x]]
          /\ orphans' = [orphans EXCEPT ![r] = left]
          /\ Go(r, "update")
          /\ UNCHANGED <<memory, seen, removed, overtaken, stale, untold>>
    /\ UNCHANGED <<rows, lectures, issued, call, trail>>

(* The history of an UPDATE: whose entities it makes old, and what it may  *)
(* undo because its own has become old.                                    *)
Overtakes(r) ==
  LET x == Subject(r)
      written == Dirty(memory[r], reloaded[r])
  IN
    /\ Means(r, written)
    /\ overtaken' = overtaken \cup (IF written \cap ModerationColumns # {} THEN Exposed({x}) ELSE {})
    /\ stale' = stale \cup (IF r \in overtaken /\ call[r].op # "moderate" THEN {x} ELSE {})

(* Mutant: the UPDATE sets every column, not those that differ.            *)
UpdateContent_WholeRow(r) ==
  LET x == Subject(r) IN
    /\ pc[r] = "update"
    /\ SavesContent(r)
    /\ rows' = IF Exists(x) THEN [rows EXCEPT ![x] = memory[r]] ELSE rows
    /\ Overtakes(r)
    /\ Saved(r)
    /\ UNCHANGED <<lectures, issued, call, trail>>

(* The UPDATEs of save(), in a transaction.  course_id is NOT NULL, so a   *)
(* lecture cannot leave its course and the transaction fails: 500.  An     *)
(* UPDATE that finds no row is no error.                                   *)
UpdateContent(r) ==
  LET x == Subject(r) IN
    /\ pc[r] = "update"
    /\ SavesContent(r)
    /\ IF \E l \in orphans[r] : lectures[l] # NoRow
         THEN /\ Finish(r, "error")
              /\ Forget(r)
              /\ UNCHANGED <<rows, history>>
         ELSE /\ rows' = IF Exists(x)
                           THEN [rows EXCEPT ![x] = Updated(@, memory[r], reloaded[r])]
                           ELSE rows
              /\ Overtakes(r)
              /\ Saved(r)
    /\ UNCHANGED <<lectures, issued, call, trail>>

(* save() did not find the row and inserts the entity under its old id.    *)
(* The primary key and the foreign key may refuse it: 409.                 *)
ReinsertContent(r) ==
  LET x == Subject(r) IN
    /\ pc[r] = "reinsert"
    /\ SavesContent(r)
    /\ IF Exists(x) \/ (x \in Assignment /\ ~ Exists(CourseOf[x]))
         THEN Finish(r, "conflict") /\ Forget(r) /\ UNCHANGED <<rows, history>>
         ELSE /\ rows' = [rows EXCEPT ![x] = memory[r]]
              /\ stale' = stale \cup (IF r \in overtaken THEN {x} ELSE {})
              /\ Saved(r)
              /\ UNCHANGED <<meant, overtaken>>
    /\ UNCHANGED <<lectures, issued, call, trail>>

(* Mutant: the record names the reason of the request, also when it shows. *)
AfterState_KeepsReason(r) == [isAdminHidden |-> call[r].isSet, adminHiddenBy |-> r]

(* What request r asks for, as the saved entity shows it.                  *)
AfterState(r) ==
  [isAdminHidden |-> call[r].isSet, adminHiddenBy |-> IF call[r].isSet THEN r ELSE Null]

(* recordModerationAudit, in no transaction with the change.               *)
RecordAudit(r) ==
  /\ pc[r] = "audit"
  /\ trail' = [trail EXCEPT ![call[r].target] = AfterState(r)]
  /\ Finish(r, "ok")
  /\ UNCHANGED <<rows, lectures, issued, call, entities, history>>

(***************************************************************************)
(* Removal of a course                                                     *)
(***************************************************************************)
(* The foreign key of lectures refuses to let go of a course that has any: *)
(* 409.  Assignments are removed with their course; a DELETE that finds no *)
(* row is no error.                                                        *)
DeleteCourse(r) ==
  LET c == call[r].course
      gone == {c} \cup {a \in Assignment : CourseOf[a] = c}
  IN
    /\ pc[r] = "delete"
    /\ call[r].op = "remove"
    /\ IF LecturesOf(c) # {}
         THEN Finish(r, "conflict") /\ UNCHANGED <<rows, history>>
         ELSE /\ rows' = [x \in Content |-> IF x \in gone THEN NoRow ELSE rows[x]]
              /\ overtaken' = overtaken \cup Exposed(gone)
              /\ removed' = removed \cup {c}
              /\ Finish(r, "ok")
              /\ UNCHANGED <<meant, stale, untold>>
    /\ UNCHANGED <<lectures, issued, call, entities, trail>>

(***************************************************************************)
(* Assignments and lectures                                                *)
(***************************************************************************)
(* The ids that are left for a new assignment of the course c.             *)
NewIds(c) == {a \in Assignment \ issued : CourseOf[a] = c}

(* Mutant: no foreign key checks the course again.                         *)
InsertAssignment_NoForeignKey(r) ==
  /\ pc[r] = "insert"
  /\ call[r].op = "createAssignment"
  /\ \E a \in NewIds(call[r].course) :
       /\ rows' = [rows EXCEPT ![a] = NewAssignment(r)]
       /\ issued' = issued \cup {a}
  /\ Finish(r, "ok")
  /\ UNCHANGED <<lectures, call, entities, trail, history>>

(* save() of a new assignment of the course that was found: the foreign    *)
(* key refuses it once the course is gone.                                 *)
InsertAssignment(r) ==
  /\ pc[r] = "insert"
  /\ call[r].op = "createAssignment"
  /\ IF ~ Exists(call[r].course)
       THEN Finish(r, "conflict") /\ UNCHANGED <<rows, issued>>
       ELSE \E a \in NewIds(call[r].course) :
              /\ rows' = [rows EXCEPT ![a] = NewAssignment(r)]
              /\ issued' = issued \cup {a}
              /\ Finish(r, "ok")
  /\ UNCHANGED <<lectures, call, entities, trail, history>>

(* Mutant: the table has no unique index.                                  *)
InsertLecture_NoIndex(r) ==
  LET c == call[r].course IN
    /\ pc[r] = "insert"
    /\ call[r].op = "createLecture"
    /\ Exists(c)
    /\ \E l \in Lecture \ issued :
         /\ lectures' = [lectures EXCEPT ![l] = [course |-> c, order |-> call[r].order]]
         /\ issued' = issued \cup {l}
    /\ Finish(r, "ok")
    /\ UNCHANGED <<rows, call, entities, trail, history>>

(* createLecture after the check: the unique index and the foreign key     *)
(* decide.  The first is answered here with 409, the second by the filter. *)
InsertLecture(r) ==
  LET c == call[r].course IN
    /\ pc[r] = "insert"
    /\ call[r].op = "createLecture"
    /\ IF ~ Exists(c) \/ \E l \in LecturesOf(c) : lectures[l].order = call[r].order
         THEN Finish(r, "conflict") /\ UNCHANGED <<lectures, issued>>
         ELSE \E l \in Lecture \ issued :
                /\ lectures' = [lectures EXCEPT ![l] = [course |-> c, order |-> call[r].order]]
                /\ issued' = issued \cup {l}
                /\ Finish(r, "ok")
    /\ UNCHANGED <<rows, call, entities, trail, history>>

(* findLectureOrFail, for updateLecture and removeLecture.                 *)
FindLecture(r) ==
  LET c == call[r]
      found == lectures[c.target]
  IN
    /\ pc[r] = "find"
    /\ c.op \in {"updateLecture", "removeLecture"}
    /\ IF found = NoRow \/ found.course # c.course
         THEN Finish(r, "notFound") /\ UNCHANGED memory
         ELSE IF c.op = "removeLecture"
         THEN Go(r, "delete") /\ UNCHANGED memory
         ELSE /\ memory' = [memory EXCEPT ![r] =
                              IF c.order = Null THEN found ELSE [found EXCEPT !.order = c.order]]
              /\ Go(r, "reload")
    /\ UNCHANGED <<rows, lectures, issued, call, seen, reloaded, orphans, trail, history>>

(* The SELECT of save() of a lecture.  A change of the text alone, which   *)
(* is not modelled, is an UPDATE that changes nothing here.                *)
ReloadLecture(r) ==
  LET l == call[r].target IN
    /\ pc[r] = "reload"
    /\ call[r].op = "updateLecture"
    /\ reloaded' = [reloaded EXCEPT ![r] = lectures[l]]
    /\ Go(r, IF lectures[l] = NoRow THEN "reinsert" ELSE "update")
    /\ UNCHANGED <<rows, lectures, issued, call, memory, seen, orphans, trail, history>>

(* The row updateLecture is about to write.                                *)
NextLecture(r) ==
  IF pc[r] = "reinsert" THEN memory[r] ELSE Updated(lectures[call[r].target], memory[r], reloaded[r])

(* The UPDATE, or the INSERT of a lecture that is gone; the constraints    *)
(* refuse either, and the filter answers 409.                              *)
WriteLecture(r) ==
  LET l == call[r].target
      c == call[r].course
  IN
    /\ call[r].op = "updateLecture"
    /\ \/ pc[r] = "update" /\ lectures[l] = NoRow
          /\ Finish(r, "ok")
          /\ UNCHANGED lectures
       \/ /\ \/ pc[r] = "update" /\ lectures[l] # NoRow
             \/ pc[r] = "reinsert"
          /\ IF \/ Taken(l, c, NextLecture(r).order)
                \/ pc[r] = "reinsert" /\ (~ Exists(c) \/ lectures[l] # NoRow)
               THEN Finish(r, "conflict") /\ UNCHANGED lectures
               ELSE /\ lectures' = [lectures EXCEPT ![l] = NextLecture(r)]
                    /\ Finish(r, "ok")
    /\ Forget(r)
    /\ UNCHANGED <<rows, issued, call, trail, history>>

(* removeLecture after the look-up.                                        *)
DeleteLecture(r) ==
  /\ pc[r] = "delete"
  /\ call[r].op = "removeLecture"
  /\ lectures' = [lectures EXCEPT ![call[r].target] = NoRow]
  /\ Finish(r, "ok")
  /\ UNCHANGED <<rows, issued, call, entities, trail, history>>

(***************************************************************************)
(* Faults                                                                  *)
(***************************************************************************)
(* A statement fails, with its transaction, and so does the request.       *)
CallFails(r) ==
  /\ "dbLost" \in Faults
  /\ pc[r] \notin {"idle", "done"}
  /\ Finish(r, "error")
  /\ untold' = IF pc[r] = "audit" THEN untold \cup {call[r].target} ELSE untold
  /\ Forget(r)
  /\ UNCHANGED <<rows, lectures, issued, call, trail, meant, removed, overtaken, stale>>

InFlight == {r \in Request : pc[r] \notin {"idle", "done"}}

Crash ==
  /\ "crash" \in Faults
  /\ InFlight # {}
  /\ pc' = [r \in Request |-> IF r \in InFlight THEN "done" ELSE pc[r]]
  /\ answer' = [r \in Request |-> IF r \in InFlight THEN "lost" ELSE answer[r]]
  /\ memory' = [r \in Request |-> NoRow]
  /\ seen' = [r \in Request |-> {}]
  /\ reloaded' = [r \in Request |-> NoRow]
  /\ orphans' = [r \in Request |-> {}]
  /\ untold' = untold \cup {x \in Content : Unrecorded(x) # {}}
  /\ UNCHANGED <<rows, lectures, issued, call, trail, meant, removed, overtaken, stale>>

(***************************************************************************)
(* The specification                                                       *)
(***************************************************************************)
(* What a body can ask for, operation by operation.                        *)
WellFormed(c) ==
  CASE c.op \in {"createCourse", "remove", "createAssignment"} ->
         c.target = c.course /\ c.isSet = Null /\ c.order = Null
    [] c.op = "update" -> c.target = c.course /\ c.order = Null
    [] c.op = "createLecture" -> c.target = c.course /\ c.isSet = Null /\ c.order # Null
    [] c.op = "updateLecture" -> c.target \in Lecture /\ c.isSet = Null
    [] c.op = "removeLecture" -> c.target \in Lecture /\ c.isSet = Null /\ c.order = Null
    [] c.op = "publishAssignment" -> c.target \in Assignment /\ c.isSet # Null /\ c.order = Null
    [] c.op = "moderate" ->
         /\ c.target \in Content /\ c.isSet # Null /\ c.order = Null
         /\ c.user = AnyCall.user /\ c.course = AnyCall.course

Calls == {c \in Call : WellFormed(c)}

Arrival(r) ==
  \E c \in Calls : BeginOwned(r, c) \/ CreateCourse(r, c) \/ FindModerated(r, c)

Handle(r) ==
  \/ FindAssignment(r) \/ ReloadContent(r) \/ UpdateContent(r) \/ ReinsertContent(r)
  \/ RecordAudit(r) \/ DeleteCourse(r) \/ InsertAssignment(r) \/ InsertLecture(r)
  \/ FindLecture(r) \/ ReloadLecture(r) \/ WriteLecture(r) \/ DeleteLecture(r)

Next ==
  \/ \E r \in Request : Arrival(r) \/ Handle(r) \/ CallFails(r)
  \/ Crash

Spec == Init /\ [][Next]_vars

(***************************************************************************)
(* Properties                                                              *)
(***************************************************************************)
(* No course has two lectures with one order, through concurrent creations *)
(* and updates and through the re-insertion of a lecture that was removed  *)
(* meanwhile (lines 105-119, 129-133; test/courses.e2e-spec.ts:553).       *)
LectureOrderUnique ==
  \A l \in Lecture :
    lectures[l] # NoRow => ~ Taken(l, lectures[l].course, lectures[l].order)

(* A lecture and an assignment are in a course that exists, although the   *)
(* course is looked up before they are written and may be removed in       *)
(* between, and although a moderation that saves a course with an outdated *)
(* list of lectures tries to cut the others off.                           *)
ChildrenHaveCourse ==
  /\ \A l \in Lecture : lectures[l] # NoRow => lectures[l].course # Null /\ Exists(lectures[l].course)
  /\ \A a \in Assignment : Exists(a) => Exists(CourseOf[a])

(* The moderation of a course or assignment is what the last admin made    *)
(* it, and a course that was removed stays removed: publishing, editing, a *)
(* crash or a failure undo neither.  The one save that can is that of an   *)
(* entity loaded before the hiding, showing or removal it undoes, and read *)
(* again by save() after it (courses.service.ts:80-95,                     *)
(* admin-content.service.ts:78-102, 145-169).                              *)
ChangesStick ==
  /\ \A x \in Content \ stale : Exists(x) => Snapshot(rows[x]) = meant[x]
  /\ \A c \in removed \ stale : ~ Exists(c)

(* The audit trail of a course or assignment tells its state: whether it   *)
(* is hidden, and why, is what its last record says, through edits,        *)
(* publications and failures, also those that overlap a moderation.        *)
(* Excepted is what an overtaken save wrote back, moderations that overlap *)
(* each other between SELECT and record, and one whose record is missing   *)
(* (lines 78-102, 145-169, 310-331).                                       *)
TrailTellsState ==
  \A x \in Content \ (stale \cup untold) :
    Exists(x) /\ Unrecorded(x) = {} => trail[x] = Snapshot(rows[x])

(* "Either way, deleted course returns 404" to an update that follows      *)
(* (test/courses.e2e-spec.ts:506): what is removed does not exist.         *)
RemovedCourseIsGone == \A c \in removed : ~ Exists(c)
=============================================================================
