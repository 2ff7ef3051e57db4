---------------------------- MODULE CoursesProofs ----------------------------
(***************************************************************************)
(* What the tables courses, lectures and assignments keep, for every       *)
(* number of requests and rows.                                            *)
(*                                                                         *)
(* Good says what a request has to do with the rows it holds; Fresh, that  *)
(* nobody has moderated or removed a row since an entity of it was loaded  *)
(* that is not overtaken; Settled, that a moderation about to UPDATE finds *)
(* the columns it leaves out as it wants them.                             *)
(* An id that was never issued has left no trace (Traces), so that a new   *)
(* row starts clean.                                                       *)
(***************************************************************************)
EXTENDS Courses, TLAPS

USE DEF Step, Kind

TrailRow == [isAdminHidden : BOOLEAN, adminHiddenBy : Request \cup {Null}]

(***************************************************************************)
(* Calls and rows                                                          *)
(***************************************************************************)
LEMMA AnyCallIsCall == AnyCall \in Call
<1>1. PICK c \in Course : TRUE
  BY SomeAssumption
<1>2. [op |-> "remove", user |-> TutorOf[c], course |-> c, target |-> c, isSet |-> Null,
       order |-> Null] \in Call
  BY <1>1, OwnerAssumption DEF Call, Content, Operations
<1> QED
  BY <1>2 DEF AnyCall

LEMMA CallIs ==
  ASSUME NEW c \in Calls
  PROVE  /\ c \in Call
         /\ c.op = "moderate" => c.target \in Content /\ c.isSet \in BOOLEAN
         /\ c.op = "publishAssignment" => c.target \in Assignment /\ c.isSet \in BOOLEAN
         /\ c.op \in {"updateLecture", "removeLecture"} => c.target \in Lecture
         /\ c.op = "createLecture" => c.order \in Order
<1>1. c \in Call /\ WellFormed(c)
  BY DEF Calls
<1>2. CASE c.op = "moderate"
  BY <1>1, <1>2 DEF WellFormed, Call
<1>3. CASE c.op = "publishAssignment"
  BY <1>1, <1>3 DEF WellFormed, Call
<1>4. CASE c.op = "updateLecture"
  BY <1>1, <1>4 DEF WellFormed
<1>5. CASE c.op = "removeLecture"
  BY <1>1, <1>5 DEF WellFormed
<1>6. CASE c.op = "createLecture"
  BY <1>1, <1>6 DEF WellFormed, Call
<1> QED
  BY <1>1, <1>2, <1>3, <1>4, <1>5, <1>6

LEMMA NewRows ==
  ASSUME NEW r
  PROVE  /\ r \in Request \cup {Null} => NewCourse(r) \in Row /\ NewAssignment(r) \in Row
         /\ Snapshot(NewCourse(r)) = Snapshot(NewCourse(Null))
         /\ Snapshot(NewAssignment(r)) = Snapshot(NewCourse(Null))
         /\ Snapshot(NewCourse(r)) \in TrailRow
  BY DEF NewCourse, NewAssignment, Row, Snapshot, TrailRow

(* The changes of a request to a course or an assignment.                  *)
Saving == {"update", "publishAssignment", "moderate"}

LEMMA AssignedIs ==
  ASSUME NEW r \in Request, NEW c \in Calls, c.op \in Saving, NEW e \in Row
  PROVE  LET a == Assigned(e, c, r) IN
           /\ a \in Row
           /\ c.op = "moderate" =>
                Snapshot(a) = [isAdminHidden |-> c.isSet, adminHiddenBy |-> IF c.isSet THEN r ELSE Null]
           /\ c.op # "moderate" => Snapshot(a) = Snapshot(e)
<1>1. CASE c.op = "moderate"
  <2>1. c.isSet \in BOOLEAN
    BY <1>1, CallIs
  <2>2. Assigned(e, c, r) = [e EXCEPT !.isAdminHidden = c.isSet,
                                      !.adminHiddenBy = IF c.isSet THEN r ELSE Null]
    BY <1>1, <2>1, IdAssumption DEF Assigned
  <2> QED
    BY <1>1, <2>1, <2>2 DEF Row, Snapshot
<1>2. CASE c.op # "moderate" /\ c.isSet = Null
  <2>1. Assigned(e, c, r) = [e EXCEPT !.title = r]
    BY <1>2 DEF Assigned
  <2> QED
    BY <1>2, <2>1 DEF Row, Snapshot
<1>3. CASE c.op # "moderate" /\ c.isSet # Null
  <2>1. c.isSet \in BOOLEAN
    BY <1>3, CallIs DEF Call
  <2>2. Assigned(e, c, r) = [e EXCEPT !.isPublished = c.isSet]
    BY <1>3 DEF Assigned
  <2> QED
    BY <1>3, <2>1, <2>2 DEF Row, Snapshot
<1> QED
  BY <1>1, <1>2, <1>3

LEMMA UpdatedRow ==
  ASSUME NEW e \in Row, NEW m \in Row, NEW x
  PROVE  /\ Updated(e, m, x) \in Row
         /\ \A c \in ModerationColumns :
              Updated(e, m, x)[c] = IF c \in Dirty(m, x) THEN m[c] ELSE e[c]
         /\ Dirty(m, e) = {} => m = e
<1>1. /\ DOMAIN e = {"title", "isPublished", "isAdminHidden", "adminHiddenBy"}
      /\ DOMAIN m = {"title", "isPublished", "isAdminHidden", "adminHiddenBy"}
  BY DEF Row
<1> DEFINE u == Updated(e, m, x)
<1>2. u = [title |-> u.title, isPublished |-> u.isPublished,
           isAdminHidden |-> u.isAdminHidden, adminHiddenBy |-> u.adminHiddenBy]
  BY <1>1 DEF Updated
<1>3. /\ u.title \in {e.title, m.title} /\ u.isPublished \in {e.isPublished, m.isPublished}
      /\ u.isAdminHidden \in {e.isAdminHidden, m.isAdminHidden}
      /\ u.adminHiddenBy \in {e.adminHiddenBy, m.adminHiddenBy}
  BY <1>1 DEF Updated
<1>4. \A c \in ModerationColumns : u[c] = IF c \in Dirty(m, x) THEN m[c] ELSE e[c]
  BY <1>1 DEF Updated, ModerationColumns
<1>5. Dirty(m, e) = {} => m = e
  BY <1>1 DEF Dirty, Row
<1> HIDE DEF u
<1>6. u \in Row
  BY <1>2, <1>3 DEF Row
<1> QED
  BY <1>4, <1>5, <1>6 DEF u

(* A column that is not dirty is as in the row it was compared with.       *)
LEMMA CleanColumn ==
  ASSUME NEW m \in Row, NEW x, NEW c \in ModerationColumns, c \notin Dirty(m, x)
  PROVE  m[c] = x[c]
  BY DEF Row, Dirty, ModerationColumns

(* What createModerationSnapshot copies is all there is to a moderation.   *)
LEMMA SnapshotIs ==
  ASSUME NEW e
  PROVE  /\ e \in Row => Snapshot(e) \in TrailRow
         /\ \A c \in ModerationColumns : Snapshot(e)[c] = e[c]
  BY DEF Row, TrailRow, Snapshot, ModerationColumns

LEMMA WithModeration ==
  ASSUME NEW e \in TrailRow, NEW m \in Row, NEW columns
  PROVE  /\ With(e, m, columns) \in TrailRow
         /\ \A c \in ModerationColumns :
              With(e, m, columns)[c] = IF c \in columns THEN m[c] ELSE e[c]
<1> DEFINE u == With(e, m, columns)
<1>1. DOMAIN e = ModerationColumns
  BY DEF TrailRow, ModerationColumns
<1>2. u = [isAdminHidden |-> u.isAdminHidden, adminHiddenBy |-> u.adminHiddenBy]
  BY <1>1 DEF With, ModerationColumns
<1>3. \A c \in ModerationColumns : u[c] = IF c \in columns THEN m[c] ELSE e[c]
  BY <1>1 DEF With
<1>4. /\ u.isAdminHidden \in {e.isAdminHidden, m.isAdminHidden}
      /\ u.adminHiddenBy \in {e.adminHiddenBy, m.adminHiddenBy}
  BY <1>3 DEF ModerationColumns
<1> HIDE DEF u
<1>5. u \in TrailRow
  BY <1>2, <1>4 DEF TrailRow, Row
<1> QED
  BY <1>3, <1>5 DEF u

LEMMA SameModeration ==
  ASSUME NEW a \in TrailRow, NEW b \in TrailRow, \A c \in ModerationColumns : a[c] = b[c]
  PROVE  a = b
  BY DEF TrailRow, ModerationColumns

LEMMA UpdatedLecture ==
  ASSUME NEW e \in LectureRow, NEW m \in LectureRow, NEW x
  PROVE  Updated(e, m, x) \in LectureRow /\ Updated(e, m, x).course \in {e.course, m.course}
<1>1. DOMAIN e = {"course", "order"} /\ DOMAIN m = {"course", "order"}
  BY DEF LectureRow
<1> DEFINE u == Updated(e, m, x)
<1>2. u = [course |-> u.course, order |-> u.order]
  BY <1>1 DEF Updated
<1>3. u.course \in {e.course, m.course} /\ u.order \in {e.order, m.order}
  BY <1>1 DEF Updated
<1> HIDE DEF u
<1>4. u \in LectureRow
  BY <1>2, <1>3 DEF LectureRow
<1> QED
  BY <1>3, <1>4 DEF u

(***************************************************************************)
(* The invariant                                                           *)
(***************************************************************************)
Holding(r) == pc[r] \in {"reload", "update", "reinsert"}
HoldsContent(r) == Holding(r) /\ SavesContent(r)
HoldsLecture(r) == Holding(r) /\ call[r].op = "updateLecture"

Good(r) ==
  /\ pc[r] # "idle" => call[r] \in Calls
  /\ Holding(r) => call[r].op \in Saving \cup {"updateLecture"}
  /\ HoldsContent(r) => Subject(r) \in Content \cap issued /\ memory[r] \in Row
  /\ HoldsLecture(r) =>
       LET l == call[r].target IN
         /\ l \in Lecture \cap issued
         /\ memory[r] \in LectureRow /\ memory[r].course = call[r].course
         /\ lectures[l] # NoRow => lectures[l].course = call[r].course
  /\ pc[r] = "delete" /\ call[r].op = "remove" => call[r].course \in issued
  /\ pc[r] = "audit" => call[r].op = "moderate" /\ call[r].target \in Content \cap issued

(* An id of a lecture goes with one course.                                *)
OneCourse ==
  \A a, b \in Request :
    HoldsLecture(a) /\ HoldsLecture(b) /\ call[a].target = call[b].target =>
      call[a].course = call[b].course

(* An entity that is not overtaken has the moderation of its row, or the   *)
(* one its request sets.                                                   *)
Fresh(r) ==
  LET x == Subject(r) IN
    HoldsContent(r) =>
      /\ call[r].op = "moderate" => Snapshot(memory[r]) = AfterState(r)
      /\ r \notin overtaken => pc[r] # "reinsert" /\ (pc[r] = "reload" => Exists(x))
      /\ r \notin overtaken /\ call[r].op # "moderate" =>
           /\ pc[r] = "reload" => Snapshot(memory[r]) = Snapshot(rows[x])
           /\ pc[r] = "update" => Snapshot(memory[r]) = Snapshot(reloaded[r])

(* What a moderation leaves out of its UPDATE is as it wants it.           *)
Settled(r) ==
  LET x == Subject(r) IN
    HoldsContent(r) /\ pc[r] = "update" /\ call[r].op = "moderate" =>
      (x \notin stale \cup untold /\ Exists(x) =>
         \A c \in ModerationColumns \ Dirty(memory[r], reloaded[r]) : rows[x][c] = memory[r][c])

(* Rows have an id that was issued; so has what was moderated or removed.  *)
Traces ==
  /\ \A x \in Content : Exists(x) => x \in issued
  /\ \A l \in Lecture : lectures[l] # NoRow => l \in issued
  /\ removed \subseteq issued
  /\ \A x \in Content \ issued : trail[x] = Snapshot(NewCourse(Null)) /\ meant[x] = trail[x]

(* The trail is right, or a moderation that is about to record will make   *)
(* it so.                                                                  *)
Told(x) ==
  /\ x \notin untold => \A a, b \in Unrecorded(x) : a = b
  /\ x \notin stale \cup untold /\ Exists(x) =>
       /\ Unrecorded(x) = {} => trail[x] = Snapshot(rows[x])
       /\ \A r \in Unrecorded(x) : AfterState(r) = Snapshot(rows[x])

IInv ==
  /\ TypeOK
  /\ \A r \in Request : Good(r) /\ Fresh(r) /\ Settled(r)
  /\ OneCourse
  /\ Traces
  /\ LectureOrderUnique
  /\ ChildrenHaveCourse
  /\ ChangesStick
  /\ \A x \in Content : Told(x)

(***************************************************************************)
(* What a step does                                                        *)
(***************************************************************************)
RequestStep(r) == Arrival(r) \/ Handle(r) \/ CallFails(r)

(* A request that arrives with the call c.                                 *)
Arrived(r, c) ==
  /\ pc[r] = "idle" /\ call' = [call EXCEPT ![r] = c]
  /\ UNCHANGED <<lectures, reloaded, orphans, trail, history>>
  /\ \/ /\ rows' = rows /\ issued' = issued
        /\ \/ \E k \in Kind \ {"pending"} : Finish(r, k) /\ memory' = memory
           \/ Go(r, "find") /\ c.op \notin {"createCourse", "moderate", "update"} /\ memory' = memory
           \/ Go(r, "insert") /\ memory' = memory
           \/ Go(r, "delete") /\ c.op = "remove" /\ Exists(c.course) /\ memory' = memory
           \/ /\ Go(r, "reload") /\ c.op \in {"update", "moderate"}
              /\ LET x == IF c.op = "update" THEN c.course ELSE c.target IN
                   Exists(x) /\ memory' = [memory EXCEPT ![r] = Assigned(rows[x], c, r)]
     \/ /\ c.op = "createCourse" /\ c.course \notin issued /\ Finish(r, "ok") /\ memory' = memory
        /\ rows' = [rows EXCEPT ![c.course] = NewCourse(r)]
        /\ issued' = issued \cup {c.course}
  /\ seen' \in {seen, [seen EXCEPT ![r] = LecturesOf(c.target)]}

LEMMA ArrivalIs ==
  ASSUME NEW r \in Request, Arrival(r)
  PROVE  \E c \in Calls : Arrived(r, c)
<1>1. ASSUME NEW c \in Calls, BeginOwned(r, c) PROVE Arrived(r, c)
  <2>1. /\ pc[r] = "idle" /\ call' = [call EXCEPT ![r] = c]
        /\ UNCHANGED <<rows, lectures, issued, seen, reloaded, orphans, trail, history>>
        /\ c.op \notin {"createCourse", "moderate"}
    BY <1>1 DEF BeginOwned, Arrive
  <2>2. CASE c.op = "update"
    BY <1>1, <2>1, <2>2 DEF BeginOwned, Arrived
  <2>3. CASE c.op = "remove"
    BY <1>1, <2>1, <2>3 DEF BeginOwned, Arrived
  <2>4. CASE c.op = "createLecture"
    BY <1>1, <2>1, <2>4 DEF BeginOwned, Arrived
  <2>5. CASE c.op = "createAssignment"
    BY <1>1, <2>1, <2>5 DEF BeginOwned, Arrived
  <2>6. CASE c.op \notin {"update", "remove", "createLecture", "createAssignment"}
    BY <1>1, <2>1, <2>6 DEF BeginOwned, Arrived
  <2> QED
    BY <2>2, <2>3, <2>4, <2>5, <2>6
<1>2. ASSUME NEW c \in Calls, CreateCourse(r, c) PROVE Arrived(r, c)
  BY <1>2 DEF CreateCourse, Arrived, entities
<1>3. ASSUME NEW c \in Calls, FindModerated(r, c) PROVE Arrived(r, c)
  BY <1>3 DEF FindModerated, Arrived
<1> QED
  BY <1>1, <1>2, <1>3 DEF Arrival

Moves(r) ==
  /\ pc[r] # "done"
  /\ \E s \in Step \ {"idle"} : pc' = [pc EXCEPT ![r] = s]
  /\ \/ answer' = answer /\ pc'[r] # "done"
     \/ pc'[r] = "done" /\ \E k \in Kind \ {"pending"} : answer' = [answer EXCEPT ![r] = k]

LEMMA StepMoves ==
  ASSUME TypeOK, NEW r \in Request, RequestStep(r)
  PROVE  Moves(r)
<1> USE DEF TypeOK
<1>g. ASSUME NEW s \in Step \ {"idle", "done"}, Go(r, s)
      PROVE  /\ \E t \in Step \ {"idle"} : pc' = [pc EXCEPT ![r] = t]
             /\ answer' = answer /\ pc'[r] # "done"
  BY <1>g DEF Go
<1>f. ASSUME NEW k \in Kind \ {"pending"}, Finish(r, k)
      PROVE  /\ \E t \in Step \ {"idle"} : pc' = [pc EXCEPT ![r] = t]
             /\ pc'[r] = "done" /\ \E j \in Kind \ {"pending"} : answer' = [answer EXCEPT ![r] = j]
  BY <1>f DEF Finish
<1> HIDE DEF TypeOK
<1>1. /\ (\E s \in Step \ {"idle", "done"} : Go(r, s)) \/ (\E k \in Kind \ {"pending"} : Finish(r, k))
      /\ pc[r] # "done"
  <2>1. CASE Arrival(r)
    BY <2>1, ArrivalIs DEF Arrived
  <2>2. CASE FindAssignment(r) \/ UpdateContent(r) \/ ReinsertContent(r) \/ RecordAudit(r)
    BY <2>2 DEF FindAssignment, UpdateContent, ReinsertContent, RecordAudit, Saved
  <2>3. CASE ReloadContent(r)
    BY <2>3 DEF ReloadContent, Saved
  <2>4. CASE DeleteCourse(r) \/ InsertAssignment(r) \/ InsertLecture(r) \/ FindLecture(r)
    BY <2>4 DEF DeleteCourse, InsertAssignment, InsertLecture, FindLecture
  <2>5. CASE ReloadLecture(r) \/ WriteLecture(r) \/ DeleteLecture(r) \/ CallFails(r)
    BY <2>5 DEF ReloadLecture, WriteLecture, DeleteLecture, CallFails
  <2> QED
    BY <2>1, <2>2, <2>3, <2>4, <2>5 DEF RequestStep, Handle
<1> QED
  BY <1>1, <1>g, <1>f DEF Moves

(* The call stands once it has arrived.                                    *)
Calling(r) ==
  /\ call' \in [Request -> Call]
  /\ pc[r] # "idle" => call' = call
  /\ pc[r] = "idle" => call'[r] \in Calls
  /\ \A o \in Request \ {r} : call'[o] = call[o]

LEMMA StepCalls ==
  ASSUME TypeOK, NEW r \in Request, RequestStep(r)
  PROVE  Calling(r)
<1>1. call \in [Request -> Call]
  BY DEF TypeOK
<1>2. CASE Arrival(r)
  <2>1. PICK c \in Calls : pc[r] = "idle" /\ call' = [call EXCEPT ![r] = c]
    BY <1>2, ArrivalIs DEF Arrived
  <2>2. c \in Call
    BY CallIs
  <2> QED
    BY <1>1, <2>1, <2>2 DEF Calling
<1>3. CASE ~ Arrival(r)
  <2>1. pc[r] # "idle" /\ call' = call
    BY <1>3 DEF RequestStep, Handle, FindAssignment, UpdateContent, ReinsertContent, RecordAudit,
         ReloadContent, DeleteCourse, InsertAssignment, InsertLecture, FindLecture, ReloadLecture,
         WriteLecture, DeleteLecture, CallFails
  <2> QED
    BY <1>1, <2>1 DEF Calling
<1> QED
  BY <1>2, <1>3

(* The entities of the others stay, and those of r are typed.              *)
Entities(r) ==
  /\ memory' \in [Request -> Row \cup LectureRow \cup {NoRow}]
  /\ reloaded' \in [Request -> Row \cup LectureRow \cup {NoRow}]
  /\ seen' \in [Request -> SUBSET Lecture] /\ orphans' \in [Request -> SUBSET Lecture]
  /\ \A o \in Request \ {r} : memory'[o] = memory[o] /\ reloaded'[o] = reloaded[o]

LEMMA StepEntities ==
  ASSUME TypeOK, NEW r \in Request, Good(r), RequestStep(r)
  PROVE  Entities(r)
<1>1. /\ memory \in [Request -> Row \cup LectureRow \cup {NoRow}]
      /\ reloaded \in [Request -> Row \cup LectureRow \cup {NoRow}]
      /\ seen \in [Request -> SUBSET Lecture] /\ orphans \in [Request -> SUBSET Lecture]
      /\ rows \in [Content -> Row \cup {NoRow}] /\ lectures \in [Lecture -> LectureRow \cup {NoRow}]
      /\ call[r] \in Call
  BY DEF TypeOK
<1> DEFINE Any == Row \cup LectureRow \cup {NoRow}
<1> SUFFICES /\ memory' = memory \/ (\E m \in Any : memory' = [memory EXCEPT ![r] = m])
             /\ reloaded' = reloaded \/ (\E m \in Any : reloaded' = [reloaded EXCEPT ![r] = m])
             /\ seen' = seen \/ (\E q \in SUBSET Lecture : seen' = [seen EXCEPT ![r] = q])
             /\ orphans' = orphans \/ (\E q \in SUBSET Lecture : orphans' = [orphans EXCEPT ![r] = q])
  BY <1>1 DEF Entities
<1>2. CASE UNCHANGED entities
  BY <1>2 DEF entities
<1>3. CASE Forget(r)
  BY <1>3 DEF Forget
<1>4. CASE Arrival(r)
  <2>1. PICK c \in Calls : Arrived(r, c)
    BY <1>4, ArrivalIs
  <2>2. ASSUME NEW x, c.op \in {"update", "moderate"},
               x = IF c.op = "update" THEN c.course ELSE c.target, Exists(x)
        PROVE  Assigned(rows[x], c, r) \in Row
    <3>1. x \in Content
      BY <2>2, CallIs DEF Call, Content
    <3> QED
      BY <1>1, <2>2, <3>1, AssignedIs DEF Exists, Saving
  <2>3. memory' = memory \/ (\E m \in Any : memory' = [memory EXCEPT ![r] = m])
    BY <2>1, <2>2 DEF Arrived
  <2>4. LecturesOf(c.target) \in SUBSET Lecture
    BY DEF LecturesOf
  <2> QED
    BY <2>1, <2>3, <2>4 DEF Arrived
<1>5. CASE FindAssignment(r)
  <2>1. call[r] \in Calls /\ call[r].op = "publishAssignment" /\ call[r].target \in Content
    BY <1>5, CallIs DEF FindAssignment, Good, Content
  <2>2. Exists(call[r].target) => Assigned(rows[call[r].target], call[r], r) \in Row
    BY <1>1, <2>1, AssignedIs DEF Exists, Saving
  <2> QED
    BY <1>5, <2>2 DEF FindAssignment
<1>6. CASE ReloadContent(r) /\ ~ Forget(r)
  <2>1. Subject(r) \in Content
    BY <1>6 DEF ReloadContent, Good, HoldsContent, Holding
  <2>2. (LecturesOf(Subject(r)) \ seen[r]) \in SUBSET Lecture
    BY DEF LecturesOf
  <2> QED
    BY <1>1, <1>6, <2>1, <2>2 DEF ReloadContent, Saved, entities
<1>7. CASE FindLecture(r)
  <2>1. call[r] \in Calls /\ call[r].op \in {"updateLecture", "removeLecture"}
    BY <1>7 DEF FindLecture, Good
  <2>2. call[r].target \in Lecture /\ lectures[call[r].target] \in LectureRow \cup {NoRow}
    BY <1>1, <2>1, CallIs
  <2>3. lectures[call[r].target] # NoRow /\ call[r].order # Null =>
          [lectures[call[r].target] EXCEPT !.order = call[r].order] \in LectureRow
    BY <1>1, <2>2 DEF LectureRow, Call
  <2> QED
    BY <1>7, <2>2, <2>3 DEF FindLecture
<1>8. CASE ReloadLecture(r)
  <2>1. call[r].target \in Lecture
    BY <1>8 DEF ReloadLecture, Good, HoldsLecture, Holding
  <2> QED
    BY <1>1, <1>8, <2>1 DEF ReloadLecture
<1>9. \/ UNCHANGED entities \/ Forget(r) \/ Arrival(r) \/ FindAssignment(r)
      \/ ReloadContent(r) \/ FindLecture(r) \/ ReloadLecture(r)
  BY DEF RequestStep, Handle, UpdateContent, ReinsertContent, RecordAudit, Saved, DeleteCourse,
     InsertAssignment, InsertLecture, WriteLecture, DeleteLecture, CallFails
<1> QED
  BY <1>2, <1>3, <1>4, <1>5, <1>6, <1>7, <1>8, <1>9

(* All that a step of r does to courses and assignments.                   *)
Looks(r) ==
  /\ UNCHANGED <<rows, trail, meant, removed, overtaken, stale>>
  /\ untold' = untold \/ (pc[r] = "audit" /\ untold' = untold \cup {call[r].target})
  /\ pc'[r] # "audit"
  /\ pc[r] = "audit" => call[r].target \in untold'

Compares(r) ==
  LET x == Subject(r) IN
    /\ HoldsContent(r) /\ pc[r] = "reload" /\ pc'[r] = "update" /\ Exists(x)
    /\ Means(r, ModerationColumns \ Dirty(memory[r], rows[x]))
    /\ UNCHANGED <<rows, lectures, issued, call, memory, trail, removed, overtaken, stale, untold>>
    /\ reloaded'[r] = rows[x]

Creates(r) ==
  /\ \E x \in Content \ issued :
       /\ issued' = issued \cup {x}
       /\ \/ x \in Course /\ rows' = [rows EXCEPT ![x] = NewCourse(r)]
          \/ /\ x \in Assignment /\ Exists(CourseOf[x])
             /\ rows' = [rows EXCEPT ![x] = NewAssignment(r)]
  /\ UNCHANGED <<lectures, trail, history>>
  /\ pc[r] # "audit" /\ pc'[r] = "done"

Saves(r) ==
  LET x == Subject(r) IN
    /\ HoldsContent(r) /\ Saved(r) /\ UNCHANGED <<lectures, issued, call, trail>>
    /\ pc'[r] = IF call[r].op = "moderate" THEN "audit" ELSE "done"
    /\ \/ /\ pc[r] = "reload" /\ Exists(x) /\ Dirty(memory[r], rows[x]) = {}
          /\ Means(r, ModerationColumns) /\ UNCHANGED <<rows, overtaken, stale>>
       \/ /\ pc[r] = "update" /\ Overtakes(r)
          /\ rows' = IF Exists(x) THEN [rows EXCEPT ![x] = Updated(@, memory[r], reloaded[r])] ELSE rows
       \/ /\ pc[r] = "reinsert" /\ UNCHANGED <<meant, overtaken>>
          /\ stale' = stale \cup (IF r \in overtaken THEN {x} ELSE {})
          /\ ~ Exists(x) /\ (x \in Assignment => Exists(CourseOf[x]))
          /\ rows' = [rows EXCEPT ![x] = memory[r]]

Gone(c) == {c} \cup {a \in Assignment : CourseOf[a] = c}

Deletes(r) ==
  LET c == call[r].course IN
    /\ pc[r] = "delete" /\ call[r].op = "remove" /\ LecturesOf(c) = {}
    /\ rows' = [x \in Content |-> IF x \in Gone(c) THEN NoRow ELSE rows[x]]
    /\ overtaken' = overtaken \cup Exposed(Gone(c)) /\ removed' = removed \cup {c}
    /\ UNCHANGED <<lectures, issued, call, trail, meant, stale, untold>>
    /\ pc'[r] = "done"

LEMMA StepActs ==
  ASSUME TypeOK, NEW r \in Request, Good(r), RequestStep(r)
  PROVE  Looks(r) \/ Compares(r) \/ Creates(r) \/ Saves(r) \/ Deletes(r) \/ RecordAudit(r)
<1>1. pc \in [Request -> Step] /\ call[r] \in Call /\ call \in [Request -> Call]
  BY DEF TypeOK
<1>g. ASSUME NEW s, Go(r, s) PROVE pc'[r] = s
  BY <1>1, <1>g DEF Go
<1>f. ASSUME NEW k, Finish(r, k) PROVE pc'[r] = "done"
  BY <1>1, <1>f DEF Finish
<1>2. CASE Arrival(r)
  <2>1. PICK c \in Calls : Arrived(r, c)
    BY <1>2, ArrivalIs
  <2>2. pc[r] = "idle" /\ c.course \in Course /\ UNCHANGED <<lectures, trail, history>>
    BY <2>1, CallIs DEF Arrived, Call
  <2>3. CASE rows' = rows /\ pc'[r] # "audit"
    BY <2>2, <2>3 DEF Looks, history
  <2>4. CASE /\ c.op = "createCourse" /\ c.course \notin issued /\ Finish(r, "ok")
             /\ rows' = [rows EXCEPT ![c.course] = NewCourse(r)]
             /\ issued' = issued \cup {c.course}
    BY <2>2, <2>4, <1>f DEF Creates, Content
  <2> QED
    BY <2>1, <2>3, <2>4, <1>g, <1>f DEF Arrived
<1>3. CASE FindAssignment(r) \/ FindLecture(r) \/ ReloadLecture(r)
  BY <1>3, <1>g, <1>f DEF FindAssignment, FindLecture, ReloadLecture, Looks, history
<1>4. CASE InsertLecture(r) \/ WriteLecture(r) \/ DeleteLecture(r)
  <2>1. UNCHANGED <<rows, trail, history>> /\ pc[r] # "audit"
    BY <1>4 DEF InsertLecture, WriteLecture, DeleteLecture
  <2>2. pc'[r] = "done"
    BY <1>4, <1>f DEF InsertLecture, WriteLecture, DeleteLecture
  <2> QED
    BY <2>1, <2>2 DEF Looks, history
<1>5. CASE CallFails(r)
  BY <1>5, <1>f DEF CallFails, Looks
<1>6. CASE ReloadContent(r)
  <2>1. pc[r] = "reload" /\ SavesContent(r) /\ UNCHANGED <<rows, lectures, issued, call, trail>>
    BY <1>6 DEF ReloadContent
  <2>2. CASE Go(r, "reinsert") /\ UNCHANGED history
    BY <2>1, <2>2, <1>g DEF Looks, history
  <2>3. CASE /\ Exists(Subject(r)) /\ Dirty(memory[r], rows[Subject(r)]) = {}
             /\ Means(r, ModerationColumns) /\ Saved(r) /\ UNCHANGED <<overtaken, stale>>
    BY <2>1, <2>3, <1>g, <1>f DEF Saves, Saved, HoldsContent, Holding
  <2>4. CASE /\ Exists(Subject(r)) /\ Go(r, "update")
             /\ Means(r, ModerationColumns \ Dirty(memory[r], rows[Subject(r)]))
             /\ reloaded' = [reloaded EXCEPT ![r] = rows[Subject(r)]]
             /\ UNCHANGED <<memory, seen, removed, overtaken, stale, untold>>
    <3>1. reloaded'[r] = rows[Subject(r)]
      BY <2>4 DEF TypeOK
    <3> QED
      BY <2>1, <2>4, <3>1, <1>g DEF Compares, HoldsContent, Holding
  <2> QED
    BY <1>6, <2>2, <2>3, <2>4 DEF ReloadContent
<1>7. CASE UpdateContent(r)
  <2>1. pc[r] = "update" /\ SavesContent(r) /\ UNCHANGED <<lectures, issued, call, trail>>
    BY <1>7 DEF UpdateContent
  <2>2. CASE Finish(r, "error") /\ UNCHANGED <<rows, history>>
    BY <2>1, <2>2, <1>f DEF Looks, history
  <2>3. CASE /\ rows' = IF Exists(Subject(r))
                          THEN [rows EXCEPT ![Subject(r)] = Updated(@, memory[r], reloaded[r])]
                          ELSE rows
             /\ Overtakes(r) /\ Saved(r)
    BY <2>1, <2>3, <1>g, <1>f DEF Saves, Saved, HoldsContent, Holding
  <2> QED
    BY <1>7, <2>2, <2>3 DEF UpdateContent
<1>8. CASE ReinsertContent(r)
  <2>1. pc[r] = "reinsert" /\ SavesContent(r) /\ UNCHANGED <<lectures, issued, call, trail>>
    BY <1>8 DEF ReinsertContent
  <2>2. CASE Finish(r, "conflict") /\ UNCHANGED <<rows, history>>
    BY <2>1, <2>2, <1>f DEF Looks, history
  <2>3. CASE /\ ~ Exists(Subject(r)) /\ (Subject(r) \in Assignment => Exists(CourseOf[Subject(r)]))
             /\ rows' = [rows EXCEPT ![Subject(r)] = memory[r]]
             /\ stale' = stale \cup (IF r \in overtaken THEN {Subject(r)} ELSE {})
             /\ Saved(r) /\ UNCHANGED <<meant, overtaken>>
    BY <2>1, <2>3, <1>g, <1>f DEF Saves, Saved, HoldsContent, Holding
  <2> QED
    BY <1>8, <2>2, <2>3 DEF ReinsertContent
<1>9. CASE DeleteCourse(r)
  <2>1. CASE Finish(r, "conflict") /\ UNCHANGED <<rows, history>>
    BY <1>9, <2>1, <1>f DEF DeleteCourse, Looks, history
  <2>2. CASE LecturesOf(call[r].course) = {}
    BY <1>9, <2>2, <1>f DEF DeleteCourse, Deletes, Gone
  <2> QED
    BY <1>9, <2>1, <2>2 DEF DeleteCourse
<1>10. CASE InsertAssignment(r)
  <2>1. pc[r] = "insert" /\ UNCHANGED <<lectures, call, entities, trail, history>>
    BY <1>10 DEF InsertAssignment
  <2>2. CASE Finish(r, "conflict") /\ UNCHANGED <<rows, issued>>
    BY <2>1, <2>2, <1>f DEF Looks, history
  <2>3. ASSUME Exists(call[r].course), NEW a \in NewIds(call[r].course),
               rows' = [rows EXCEPT ![a] = NewAssignment(r)],
               issued' = issued \cup {a}, Finish(r, "ok")
        PROVE  Creates(r)
    BY <2>1, <2>3, <1>f DEF Creates, NewIds, Content
  <2> QED
    BY <1>10, <2>2, <2>3 DEF InsertAssignment
<1> QED
  BY <1>2, <1>3, <1>4, <1>5, <1>6, <1>7, <1>8, <1>9, <1>10 DEF RequestStep, Handle

(* All that a step of r does to the lectures.                              *)
AddsLecture(r) ==
  LET c == call[r].course IN
    /\ Exists(c) /\ call[r].op = "createLecture" /\ pc[r] = "insert"
    /\ \A l \in LecturesOf(c) : lectures[l].order # call[r].order
    /\ \E l \in Lecture \ issued :
         /\ lectures' = [lectures EXCEPT ![l] = [course |-> c, order |-> call[r].order]]
         /\ issued' = issued \cup {l}

WritesLecture(r) ==
  LET l == call[r].target
      c == call[r].course
  IN
    /\ HoldsLecture(r) /\ ~ Taken(l, c, NextLecture(r).order)
    /\ \/ pc[r] = "update" /\ lectures[l] # NoRow
       \/ pc[r] = "reinsert" /\ Exists(c)
    /\ lectures' = [lectures EXCEPT ![l] = NextLecture(r)] /\ issued' = issued

LEMMA StepLectures ==
  ASSUME TypeOK, NEW r \in Request, Good(r), RequestStep(r)
  PROVE  \/ lectures' = lectures
         \/ AddsLecture(r) /\ rows' = rows
         \/ WritesLecture(r) /\ rows' = rows
         \/ /\ \E l \in Lecture : lectures' = [lectures EXCEPT ![l] = NoRow]
            /\ rows' = rows
<1>1. CASE Arrival(r)
  BY <1>1, ArrivalIs DEF Arrived
<1>2. CASE InsertLecture(r)
  <2>1. CASE UNCHANGED <<lectures, issued>>
    BY <2>1
  <2>2. CASE /\ Exists(call[r].course)
             /\ \A l \in LecturesOf(call[r].course) : lectures[l].order # call[r].order
    BY <1>2, <2>2 DEF InsertLecture, AddsLecture
  <2> QED
    BY <1>2, <2>1, <2>2 DEF InsertLecture
<1>3. CASE WriteLecture(r)
  BY <1>3 DEF WriteLecture, WritesLecture, HoldsLecture, Holding
<1>4. CASE DeleteLecture(r)
  <2>1. call[r].target \in Lecture
    BY <1>4, CallIs DEF DeleteLecture, Good
  <2> QED
    BY <1>4, <2>1 DEF DeleteLecture
<1>5. CASE FindAssignment(r) \/ ReloadContent(r) \/ UpdateContent(r) \/ ReinsertContent(r)
           \/ RecordAudit(r) \/ DeleteCourse(r) \/ InsertAssignment(r) \/ FindLecture(r)
           \/ ReloadLecture(r) \/ CallFails(r)
  BY <1>5 DEF FindAssignment, ReloadContent, UpdateContent, ReinsertContent, RecordAudit,
       DeleteCourse, InsertAssignment, FindLecture, ReloadLecture, CallFails
<1> QED
  BY <1>1, <1>2, <1>3, <1>4, <1>5 DEF RequestStep, Handle

LEMMA StepIssues ==
  ASSUME TypeOK, NEW r \in Request, Good(r), RequestStep(r)
  PROVE  /\ issued \subseteq issued' /\ issued' \subseteq Content \cup Lecture
         /\ stale \subseteq stale' /\ untold \subseteq untold' /\ overtaken \subseteq overtaken'
<1>1. issued \subseteq issued' /\ issued' \subseteq Content \cup Lecture
  <2>1. CASE Arrival(r)
    <3>1. PICK c \in Calls : Arrived(r, c)
      BY <2>1, ArrivalIs
    <3>2. c.course \in Content
      BY CallIs DEF Call, Content
    <3> QED
      BY <3>1, <3>2 DEF Arrived, TypeOK
  <2>2. CASE ~ Arrival(r)
    BY <2>2 DEF RequestStep, Handle, FindAssignment, ReloadContent, UpdateContent, ReinsertContent,
         RecordAudit, DeleteCourse, InsertAssignment, NewIds, FindLecture, InsertLecture,
         ReloadLecture, WriteLecture, DeleteLecture, CallFails, TypeOK, Content
  <2> QED
    BY <2>1, <2>2
<1>2. stale \subseteq stale' /\ untold \subseteq untold' /\ overtaken \subseteq overtaken'
  BY StepActs DEF Looks, Compares, Creates, Saves, Saved, Deletes, RecordAudit, Overtakes, history
<1> QED
  BY <1>1, <1>2


(* How a request comes to hold a row, or goes on to hold it.               *)
TakesContent(r) ==
  LET x == Subject(r)' IN
    /\ pc'[r] = "reload" /\ call'[r].op \in Saving
    /\ x \in Content /\ Exists(x) /\ memory'[r] = Assigned(rows[x], call'[r], r)

TakesLecture(r) ==
  LET l == call'[r].target IN
    /\ pc'[r] = "reload" /\ call'[r].op = "updateLecture"
    /\ l \in Lecture /\ lectures[l] # NoRow /\ lectures[l].course = call'[r].course
    /\ memory'[r] \in LectureRow /\ memory'[r].course = call'[r].course

KeepsContent(r) ==
  LET x == Subject(r) IN
    /\ HoldsContent(r) /\ pc[r] = "reload" /\ call' = call /\ memory' = memory
    /\ \/ pc'[r] = "reinsert" /\ ~ Exists(x)
       \/ pc'[r] = "update" /\ Exists(x) /\ reloaded'[r] = rows[x]

KeepsLecture(r) == HoldsLecture(r) /\ call' = call /\ memory' = memory

LEMMA StepHolds ==
  ASSUME TypeOK, NEW r \in Request, Good(r), RequestStep(r), Holding(r)'
  PROVE  /\ UNCHANGED <<rows, lectures, stale, overtaken, issued>>
         /\ TakesContent(r) \/ TakesLecture(r) \/ KeepsContent(r) \/ KeepsLecture(r)
<1>1. /\ pc \in [Request -> Step] /\ call[r] \in Call /\ call \in [Request -> Call]
      /\ memory \in [Request -> Row \cup LectureRow \cup {NoRow}]
      /\ reloaded \in [Request -> Row \cup LectureRow \cup {NoRow}]
      /\ lectures \in [Lecture -> LectureRow \cup {NoRow}]
  BY DEF TypeOK
<1>h. pc'[r] \in {"reload", "update", "reinsert"}
  BY DEF Holding
<1>g. ASSUME NEW s, Go(r, s) PROVE pc'[r] = s
  BY <1>1, <1>g DEF Go
<1>f. ASSUME NEW k, Finish(r, k) PROVE FALSE
  BY <1>1, <1>f, <1>h DEF Finish
<1>2. CASE Arrival(r)
  <2>1. PICK c \in Calls : Arrived(r, c)
    BY <1>2, ArrivalIs
  <2> DEFINE x == IF c.op = "update" THEN c.course ELSE c.target
  <2>2. UNCHANGED <<rows, lectures, stale, overtaken, issued>> /\ c.op \in {"update", "moderate"}
        /\ Go(r, "reload") /\ Exists(x) /\ memory' = [memory EXCEPT ![r] = Assigned(rows[x], c, r)]
        /\ call' = [call EXCEPT ![r] = c]
    BY <2>1, <1>f, <1>g, <1>h DEF Arrived, history
  <2>3. call'[r] = c /\ memory'[r] = Assigned(rows[x], c, r)
    BY <2>2, <1>1
  <2>4. x \in Content
    BY <2>2, CallIs DEF Call, Content
  <2>5. Subject(r)' = x
    BY <2>2, <2>3 DEF Subject
  <2> QED
    BY <2>2, <2>3, <2>4, <2>5, <1>g DEF TakesContent, Saving
<1>3. CASE FindAssignment(r)
  <2>1. call' = call /\ call[r] \in Calls /\ call[r].op = "publishAssignment" /\ call[r].target \in Content
    BY <1>3, CallIs DEF FindAssignment, Good, Content
  <2>2. Subject(r)' = call[r].target
    BY <2>1 DEF Subject
  <2> QED
    BY <1>1, <1>3, <1>f, <1>g, <2>1, <2>2 DEF FindAssignment, TakesContent, Saving, history
<1>4. CASE FindLecture(r)
  <2>1. /\ call' = call /\ call[r] \in Calls /\ call[r].op = "updateLecture"
        /\ lectures[call[r].target] # NoRow /\ lectures[call[r].target].course = call[r].course
        /\ Go(r, "reload") /\ UNCHANGED <<rows, lectures, stale, overtaken, issued>>
        /\ memory' = [memory EXCEPT ![r] = IF call[r].order = Null THEN lectures[call[r].target]
                             ELSE [lectures[call[r].target] EXCEPT !.order = call[r].order]]
    BY <1>4, <1>f, <1>g, <1>h DEF FindLecture, Good, history
  <2>2. call[r].target \in Lecture
    BY <2>1, CallIs
  <2>3. lectures[call[r].target] \in LectureRow
    BY <1>1, <2>1, <2>2
  <2>4. memory'[r] \in LectureRow /\ memory'[r].course = call[r].course
    BY <1>1, <2>1, <2>3 DEF LectureRow, Call
  <2> QED
    BY <1>g, <2>1, <2>2, <2>4 DEF TakesLecture
<1>5. CASE ReloadContent(r)
  <2>1. /\ UNCHANGED <<rows, lectures, issued, call>> /\ HoldsContent(r) /\ pc[r] = "reload"
    BY <1>5 DEF ReloadContent, HoldsContent, Holding
  <2>2. ~ Saved(r)
    BY <1>f, <1>g, <1>h DEF Saved
  <2>3. \/ ~ Exists(Subject(r)) /\ Go(r, "reinsert") /\ UNCHANGED <<entities, history>>
        \/ /\ Exists(Subject(r)) /\ reloaded' = [reloaded EXCEPT ![r] = rows[Subject(r)]]
           /\ Go(r, "update") /\ UNCHANGED <<memory, seen, overtaken, stale>>
    BY <1>5, <2>2 DEF ReloadContent
  <2> QED
    BY <1>1, <1>g, <2>1, <2>3 DEF KeepsContent, entities, history
<1>6. CASE ReloadLecture(r)
  BY <1>6 DEF ReloadLecture, KeepsLecture, HoldsLecture, Holding, history
<1>7. CASE UpdateContent(r) \/ ReinsertContent(r) \/ RecordAudit(r) \/ DeleteCourse(r)
  BY <1>7, <1>f, <1>g, <1>h DEF UpdateContent, ReinsertContent, RecordAudit, DeleteCourse, Saved
<1>8. CASE InsertAssignment(r) \/ InsertLecture(r) \/ WriteLecture(r) \/ DeleteLecture(r) \/ CallFails(r)
  BY <1>8, <1>f DEF InsertAssignment, InsertLecture, WriteLecture, DeleteLecture, CallFails
<1> QED
  BY <1>2, <1>3, <1>4, <1>5, <1>6, <1>7, <1>8 DEF RequestStep, Handle

(* A removal starts with a course that exists.                             *)
LEMMA StepDeletes ==
  ASSUME TypeOK, NEW r \in Request, Good(r), RequestStep(r), pc'[r] = "delete", call'[r].op = "remove"
  PROVE  rows' = rows /\ issued' = issued /\ call'[r].course \in Content /\ Exists(call'[r].course)
<1>1. pc \in [Request -> Step] /\ call \in [Request -> Call]
  BY DEF TypeOK
<1>g. ASSUME NEW s, Go(r, s) PROVE s = "delete"
  BY <1>1, <1>g DEF Go
<1>f. ASSUME NEW k, Finish(r, k) PROVE FALSE
  BY <1>1, <1>f DEF Finish
<1>2. CASE Arrival(r)
  <2>1. PICK c \in Calls : Arrived(r, c)
    BY <1>2, ArrivalIs
  <2>2. c.course \in Content
    BY CallIs DEF Call, Content
  <2>3. call'[r] = c
    BY <1>1, <2>1 DEF Arrived
  <2> QED
    BY <2>1, <2>2, <2>3, <1>g, <1>f DEF Arrived
<1>3. CASE FindAssignment(r) \/ FindLecture(r) \/ ReloadLecture(r) \/ ReloadContent(r)
  BY <1>3, <1>f, <1>g DEF FindAssignment, FindLecture, ReloadLecture, ReloadContent, Saved
<1>4. CASE UpdateContent(r) \/ ReinsertContent(r) \/ RecordAudit(r) \/ DeleteCourse(r)
  BY <1>4, <1>f, <1>g DEF UpdateContent, ReinsertContent, RecordAudit, DeleteCourse, Saved
<1>5. CASE InsertAssignment(r) \/ InsertLecture(r) \/ WriteLecture(r) \/ DeleteLecture(r) \/ CallFails(r)
  BY <1>5, <1>f DEF InsertAssignment, InsertLecture, WriteLecture, DeleteLecture, CallFails
<1> QED
  BY <1>2, <1>3, <1>4, <1>5 DEF RequestStep, Handle

(***************************************************************************)
(* What a step keeps                                                       *)
(***************************************************************************)
(* The others are where they were.                                         *)
LEMMA OthersStand ==
  ASSUME IInv, NEW r \in Request, RequestStep(r), NEW o \in Request \ {r}
  PROVE  /\ pc'[o] = pc[o] /\ call'[o] = call[o]
         /\ memory'[o] = memory[o] /\ reloaded'[o] = reloaded[o]
         /\ Holding(o)' = Holding(o) /\ SavesContent(o)' = SavesContent(o)
         /\ HoldsContent(o)' = HoldsContent(o) /\ HoldsLecture(o)' = HoldsLecture(o)
         /\ Subject(o)' = Subject(o) /\ AfterState(o)' = AfterState(o)
<1>1. TypeOK /\ Good(r)
  BY DEF IInv
<1>2. pc'[o] = pc[o]
  BY <1>1, StepMoves DEF Moves, TypeOK
<1>3. call'[o] = call[o]
  BY <1>1, StepCalls DEF Calling
<1>4. memory'[o] = memory[o] /\ reloaded'[o] = reloaded[o]
  BY <1>1, StepEntities DEF Entities
<1> QED
  BY <1>2, <1>3, <1>4 DEF Holding, SavesContent, HoldsContent, HoldsLecture, Subject, AfterState

LEMMA RowsKept ==
  ASSUME IInv, NEW r \in Request, RequestStep(r)
  PROVE  rows' \in [Content -> Row \cup {NoRow}]
<1>1. TypeOK /\ Good(r) /\ rows \in [Content -> Row \cup {NoRow}]
  BY DEF IInv, TypeOK
<1>2. CASE Looks(r) \/ Compares(r) \/ RecordAudit(r)
  BY <1>1, <1>2 DEF Looks, Compares, RecordAudit
<1>3. CASE Creates(r)
  <2>1. NewCourse(r) \in Row /\ NewAssignment(r) \in Row
    BY NewRows
  <2> QED
    BY <1>1, <1>3, <2>1 DEF Creates
<1>4. CASE Saves(r)
  <2>1. Subject(r) \in Content /\ memory[r] \in Row
    BY <1>1, <1>4 DEF Saves, Good
  <2>2. Exists(Subject(r)) => Updated(rows[Subject(r)], memory[r], reloaded[r]) \in Row
    BY <1>1, <2>1, UpdatedRow DEF Exists
  <2> QED
    BY <1>1, <1>4, <2>1, <2>2 DEF Saves
<1>5. CASE Deletes(r)
  BY <1>1, <1>5 DEF Deletes
<1> QED
  BY <1>1, <1>2, <1>3, <1>4, <1>5, StepActs

LEMMA LecturesKept ==
  ASSUME IInv, NEW r \in Request, RequestStep(r)
  PROVE  lectures' \in [Lecture -> LectureRow \cup {NoRow}]
<1>1. TypeOK /\ Good(r) /\ lectures \in [Lecture -> LectureRow \cup {NoRow}] /\ call[r] \in Call
  BY DEF IInv, TypeOK
<1>2. CASE AddsLecture(r)
  <2>1. call[r].order \in Order /\ call[r].course \in Course
    BY <1>1, <1>2, CallIs DEF AddsLecture, Good, Call
  <2>2. [course |-> call[r].course, order |-> call[r].order] \in LectureRow
    BY <2>1 DEF LectureRow
  <2> QED
    BY <1>1, <1>2, <2>2 DEF AddsLecture
<1>3. CASE WritesLecture(r)
  <2>1. call[r].target \in Lecture /\ memory[r] \in LectureRow
    BY <1>1, <1>3 DEF WritesLecture, Good
  <2>2. NextLecture(r) \in LectureRow
    BY <1>1, <1>3, <2>1, UpdatedLecture DEF WritesLecture, NextLecture
  <2> QED
    BY <1>1, <1>3, <2>1, <2>2 DEF WritesLecture
<1> QED
  BY <1>1, <1>2, <1>3, StepLectures

LEMMA TrailKept ==
  ASSUME IInv, NEW r \in Request, RequestStep(r)
  PROVE  trail' \in [Content -> TrailRow]
<1>1. TypeOK /\ Good(r) /\ trail \in [Content -> TrailRow]
  BY DEF IInv, TypeOK, TrailRow
<1>2. CASE RecordAudit(r)
  <2>1. call[r].isSet \in BOOLEAN
    BY <1>1, <1>2, CallIs DEF RecordAudit, Good
  <2>2. AfterState(r) \in TrailRow
    BY <2>1 DEF AfterState, TrailRow
  <2> QED
    BY <1>1, <1>2, <2>2 DEF RecordAudit
<1> QED
  BY <1>1, <1>2, StepActs DEF Looks, Compares, Creates, Saves, Deletes

LEMMA HistoryKept ==
  ASSUME IInv, NEW r \in Request, RequestStep(r)
  PROVE  /\ removed' \subseteq Course \cap issued' /\ overtaken' \subseteq Request
         /\ stale' \subseteq Content /\ untold' \subseteq Content
<1>1. /\ TypeOK /\ Good(r) /\ removed \subseteq Course \cap issued
      /\ overtaken \subseteq Request /\ stale \subseteq Content /\ untold \subseteq Content
  BY DEF IInv, TypeOK, Traces
<1>2. issued \subseteq issued'
  BY <1>1, StepIssues
<1>3. CASE Looks(r) \/ Compares(r)
  BY <1>1, <1>2, <1>3 DEF Looks, Compares, Good
<1>4. CASE Creates(r) \/ RecordAudit(r)
  BY <1>1, <1>2, <1>4 DEF Creates, RecordAudit, history
<1>5. CASE Saves(r)
  BY <1>1, <1>2, <1>5 DEF Saves, Saved, Overtakes, Exposed, Good
<1>6. CASE Deletes(r)
  <2>1. call[r].course \in Course \cap issued
    BY <1>1, <1>6 DEF Deletes, Good, TypeOK, Call
  <2> QED
    BY <1>1, <1>2, <1>6, <2>1 DEF Deletes, Exposed
<1> QED
  BY <1>1, <1>3, <1>4, <1>5, <1>6, StepActs

(* Who sets what of a moderation, and that only moderations do.            *)
LEMMA StepMeans ==
  ASSUME IInv, NEW r \in Request, RequestStep(r)
  PROVE  meant' = meant \/ (HoldsContent(r) /\ \E columns : Means(r, columns))
<1>1. TypeOK /\ Good(r)
  BY DEF IInv
<1> QED
  BY <1>1, StepActs DEF Looks, Compares, Creates, Saves, Overtakes, Deletes, RecordAudit, history

LEMMA MeantKept ==
  ASSUME IInv, NEW r \in Request, RequestStep(r)
  PROVE  /\ meant' \in [Content -> TrailRow]
         /\ \A x \in Content \ issued : meant'[x] = meant[x]
<1>1. TypeOK /\ Good(r) /\ meant \in [Content -> TrailRow]
  BY DEF IInv, TypeOK, TrailRow
<1>2. ASSUME HoldsContent(r), NEW columns, Means(r, columns), call[r].op = "moderate"
      PROVE  /\ meant' \in [Content -> TrailRow]
             /\ \A x \in Content \ issued : meant'[x] = meant[x]
  <2>1. Subject(r) \in Content \cap issued /\ memory[r] \in Row
    BY <1>1, <1>2 DEF Good
  <2>2. With(meant[Subject(r)], memory[r], columns) \in TrailRow
    BY <1>1, <2>1, WithModeration
  <2>3. meant' = [meant EXCEPT ![Subject(r)] = With(meant[Subject(r)], memory[r], columns)]
    BY <1>2 DEF Means
  <2> QED
    BY <1>1, <2>1, <2>2, <2>3
<1> QED
  BY <1>1, <1>2, StepMeans DEF Means

LEMMA TypesKept ==
  ASSUME IInv, NEW r \in Request, RequestStep(r)
  PROVE  TypeOK'
<1>1. TypeOK /\ Good(r)
  BY DEF IInv
<1>2. pc' \in [Request -> Step] /\ answer' \in [Request -> Kind]
  BY <1>1, StepMoves DEF Moves, TypeOK
<1>3. call' \in [Request -> Call]
  BY <1>1, StepCalls DEF Calling
<1> QED
  BY <1>1, <1>2, <1>3, StepEntities, StepIssues, RowsKept, LecturesKept, TrailKept, HistoryKept, MeantKept
     DEF TypeOK, Entities, TrailRow

(* What a saved row has become, when nothing old was written back.  The    *)
(* columns that count are those of the UPDATE, or all if there is none.    *)
Set(r) == IF pc[r] = "reload" THEN ModerationColumns ELSE Dirty(memory[r], reloaded[r])

LEMMA SavedRow ==
  ASSUME IInv, NEW r \in Request, RequestStep(r), Saves(r), Subject(r) \notin stale'
  PROVE  /\ Subject(r) \in Content /\ memory[r] \in Row
         /\ pc[r] \in {"reload", "update"} /\ Means(r, Set(r))
         /\ rows'[Subject(r)] # NoRow =>
              /\ rows[Subject(r)] \in Row /\ Exists(Subject(r)) /\ rows'[Subject(r)] \in Row
              /\ Snapshot(rows'[Subject(r)]) = With(Snapshot(rows[Subject(r)]), memory[r], Set(r))
              /\ call[r].op # "moderate" => Snapshot(rows'[Subject(r)]) = Snapshot(rows[Subject(r)])
<1> DEFINE x == Subject(r)
<1>1. /\ TypeOK /\ Good(r) /\ Fresh(r) /\ rows \in [Content -> Row \cup {NoRow}]
  BY DEF IInv, TypeOK
<1>2. x \in Content /\ memory[r] \in Row /\ HoldsContent(r)
  BY <1>1 DEF Saves, Good
<1>3. pc[r] \in {"reload", "update"} /\ Means(r, Set(r))
  <2>1. pc[r] # "reinsert"
    BY <1>1, <1>2 DEF Saves, Fresh
  <2> QED
    BY <2>1 DEF Saves, Set, Overtakes
<1>4. ASSUME rows'[x] # NoRow
      PROVE  /\ rows[x] \in Row /\ Exists(x) /\ rows'[x] \in Row
             /\ \A c \in ModerationColumns :
                  rows'[x][c] = IF c \in Set(r) THEN memory[r][c] ELSE rows[x][c]
  <2>1. CASE pc[r] = "reload"
    <3>1. Dirty(memory[r], rows[x]) = {} /\ rows' = rows /\ Exists(x)
      BY <2>1 DEF Saves
    <3>2. rows[x] \in Row /\ memory[r] = rows[x]
      BY <1>1, <1>2, <3>1, UpdatedRow DEF Exists
    <3> QED
      BY <2>1, <3>1, <3>2 DEF Set
  <2>2. CASE pc[r] = "update"
    <3>1. Exists(x) /\ rows' = [rows EXCEPT ![x] = Updated(rows[x], memory[r], reloaded[r])]
      BY <1>1, <1>4, <2>2 DEF Saves, Exists
    <3>2. rows[x] \in Row
      BY <1>1, <1>2, <3>1 DEF Exists
    <3>3. rows'[x] = Updated(rows[x], memory[r], reloaded[r])
      BY <1>1, <1>2, <3>1
    <3> QED
      BY <1>2, <2>2, <3>1, <3>2, <3>3, UpdatedRow DEF Set
  <2> QED
    BY <1>3, <2>1, <2>2
<1>5. ASSUME rows'[x] # NoRow PROVE Snapshot(rows'[x]) = With(Snapshot(rows[x]), memory[r], Set(r))
  <2>1. /\ Snapshot(rows'[x]) \in TrailRow /\ Snapshot(rows[x]) \in TrailRow
        /\ \A c \in ModerationColumns : Snapshot(rows'[x])[c] = rows'[x][c] /\ Snapshot(rows[x])[c] = rows[x][c]
    BY <1>4, <1>5, SnapshotIs
  <2>2. /\ With(Snapshot(rows[x]), memory[r], Set(r)) \in TrailRow
        /\ \A c \in ModerationColumns :
             With(Snapshot(rows[x]), memory[r], Set(r))[c] =
               IF c \in Set(r) THEN memory[r][c] ELSE Snapshot(rows[x])[c]
    BY <1>2, <2>1, WithModeration
  <2> HIDE DEF x
  <2>3. \A c \in ModerationColumns : Snapshot(rows'[x])[c] = With(Snapshot(rows[x]), memory[r], Set(r))[c]
    BY <1>4, <1>5, <2>1, <2>2
  <2> QED
    BY <2>1, <2>2, <2>3, SameModeration
<1>6. ASSUME rows'[x] # NoRow, call[r].op # "moderate" PROVE Snapshot(rows'[x]) = Snapshot(rows[x])
  <2>1. CASE pc[r] = "reload"
    BY <2>1 DEF Saves
  <2>2. CASE pc[r] = "update"
    <3>1. r \notin overtaken
      BY <1>6, <2>2 DEF Saves, Overtakes
    <3>2. Snapshot(memory[r]) = Snapshot(reloaded[r])
      BY <1>1, <1>2, <1>6, <2>2, <3>1 DEF Fresh
    <3>3. \A c \in ModerationColumns : c \notin Set(r)
      BY <1>2, <2>2, <3>2 DEF Set, Dirty, Snapshot, ModerationColumns
    <3>4. \A c \in ModerationColumns : rows'[x][c] = rows[x][c]
      BY <1>4, <1>6, <3>3
    <3> QED
      BY <3>4 DEF Snapshot, ModerationColumns
  <2> QED
    BY <1>3, <2>1, <2>2
<1> QED
  BY <1>2, <1>3, <1>4, <1>5, <1>6

(* A step of another request leaves the moderation of a row alone that a   *)
(* request has yet to read again, or overtakes that request.               *)
LEMMA ReloadStays ==
  ASSUME IInv, NEW r \in Request, RequestStep(r), NEW o \in Request \ {r}, HoldsContent(o),
         pc[o] = "reload", o \notin overtaken'
  PROVE  Exists(Subject(o))' /\ Snapshot(rows'[Subject(o)]) = Snapshot(rows[Subject(o)])
<1> DEFINE x == Subject(o)
<1>1. /\ TypeOK /\ Good(r) /\ Good(o) /\ Fresh(o) /\ x \in Content \cap issued
      /\ rows \in [Content -> Row \cup {NoRow}] /\ overtaken \subseteq overtaken'
  BY StepIssues DEF IInv, TypeOK, Good
<1>2. Exists(x) /\ rows[x] \in Row
  BY <1>1 DEF Fresh, Exists
<1>s. Subject(o)' = x /\ Exists(Subject(o))' = (rows'[x] # NoRow)
  BY OthersStand DEF Exists
<1>e. o \in Exposed({x})
  BY DEF Exposed, HoldsContent, SavesContent
<1>3. CASE rows'[x] = rows[x]
  BY <1>2, <1>3, <1>s DEF Exists
<1>4. CASE Creates(r)
  BY <1>1, <1>3, <1>4 DEF Creates
<1>5. CASE Saves(r) /\ Subject(r) = x
  <2>1. CASE pc[r] = "reload"
    BY <1>3, <1>5, <2>1 DEF Saves
  <2>2. CASE pc[r] = "update"
    <3>1. rows'[x] = Updated(rows[x], memory[r], reloaded[r]) /\ memory[r] \in Row
      BY <1>1, <1>2, <1>5, <2>2 DEF Saves, Good
    <3>2. Dirty(memory[r], reloaded[r]) \cap ModerationColumns = {}
      BY <1>e, <1>5, <2>2 DEF Saves, Overtakes
    <3>3. /\ rows'[x] \in Row
          /\ \A c \in ModerationColumns : rows'[x][c] = rows[x][c]
      BY <1>2, <3>1, <3>2, UpdatedRow
    <3> QED
      BY <1>s, <3>3, RowAssumption DEF Snapshot, ModerationColumns
  <2>3. CASE pc[r] = "reinsert"
    BY <1>2, <1>5, <2>3 DEF Saves
  <2> QED
    BY <1>5, <2>1, <2>2, <2>3 DEF Saves
<1>6. CASE Saves(r) /\ Subject(r) # x
  BY <1>1, <1>3, <1>6 DEF Saves, Good
<1>7. CASE Deletes(r)
  <2>1. x \notin Gone(call[r].course)
    <3> SUFFICES ASSUME x \in Gone(call[r].course) PROVE FALSE
      OBVIOUS
    <3>1. o \in Exposed(Gone(call[r].course))
      BY <1>e DEF Exposed
    <3> QED
      BY <1>7, <3>1 DEF Deletes
  <2> QED
    BY <1>1, <1>3, <1>7, <2>1 DEF Deletes
<1> QED
  BY <1>1, <1>3, <1>4, <1>5, <1>6, <1>7, StepActs DEF Looks, Compares, RecordAudit

LEMMA FreshKept ==
  ASSUME IInv, NEW r \in Request, RequestStep(r), NEW o \in Request
  PROVE  Fresh(o)'
<1>1. /\ TypeOK /\ Good(r) /\ Fresh(o) /\ overtaken \subseteq overtaken'
      /\ rows \in [Content -> Row \cup {NoRow}]
  BY StepIssues DEF IInv, TypeOK
<1>2. CASE o = r
  <2> SUFFICES ASSUME HoldsContent(r)' PROVE Fresh(r)'
    BY <1>2 DEF Fresh
  <2>1. /\ rows' = rows /\ overtaken' = overtaken
        /\ TakesContent(r) \/ TakesLecture(r) \/ KeepsContent(r) \/ KeepsLecture(r)
    BY <1>1, StepHolds DEF HoldsContent
  <2>2. ~ TakesLecture(r) /\ ~ KeepsLecture(r)
    BY DEF TakesLecture, KeepsLecture, HoldsContent, HoldsLecture, SavesContent
  <2>3. CASE TakesContent(r)
    <3> DEFINE x == Subject(r)'
    <3>1. /\ pc'[r] = "reload" /\ x \in Content /\ Exists(x) /\ call'[r] \in Calls
          /\ call'[r].op \in Saving /\ memory'[r] = Assigned(rows[x], call'[r], r)
      BY <1>1, <2>3, StepCalls DEF TakesContent, Calling, Good
    <3>2. rows[x] \in Row
      BY <1>1, <3>1 DEF Exists
    <3> HIDE DEF x
    <3>3. /\ call'[r].op = "moderate" => Snapshot(memory'[r]) =
               [isAdminHidden |-> call'[r].isSet, adminHiddenBy |-> IF call'[r].isSet THEN r ELSE Null]
          /\ call'[r].op # "moderate" => Snapshot(memory'[r]) = Snapshot(rows[x])
      BY <3>1, <3>2, AssignedIs
    <3> QED
      BY <2>1, <3>1, <3>3 DEF x, Fresh, AfterState, Exists, Snapshot
  <2>4. CASE KeepsContent(r)
    <3>1. /\ Subject(r)' = Subject(r) /\ call' = call /\ memory' = memory /\ pc[r] = "reload"
          /\ AfterState(r)' = AfterState(r) /\ HoldsContent(r)
      BY <2>4 DEF KeepsContent, Subject, AfterState
    <3>2. CASE pc'[r] = "reinsert" /\ ~ Exists(Subject(r))
      BY <1>1, <1>2, <2>1, <3>1, <3>2 DEF Fresh, Snapshot
    <3>3. CASE pc'[r] = "update" /\ Exists(Subject(r)) /\ reloaded'[r] = rows[Subject(r)]
      BY <1>1, <1>2, <2>1, <3>1, <3>3 DEF Fresh, Snapshot
    <3> QED
      BY <2>4, <3>2, <3>3 DEF KeepsContent
  <2> QED
    BY <2>1, <2>2, <2>3, <2>4
<1>3. CASE o # r
  <2>1. /\ pc'[o] = pc[o] /\ call'[o] = call[o] /\ memory'[o] = memory[o] /\ reloaded'[o] = reloaded[o]
        /\ HoldsContent(o)' = HoldsContent(o) /\ Subject(o)' = Subject(o)
        /\ AfterState(o)' = AfterState(o)
    BY <1>3, OthersStand
  <2>2. HoldsContent(o) /\ pc[o] = "reload" /\ o \notin overtaken' =>
          Exists(Subject(o))' /\ Snapshot(rows'[Subject(o)]) = Snapshot(rows[Subject(o)])
    BY <1>3, ReloadStays
  <2>3. HoldsContent(o) /\ pc[o] = "reload" /\ o \notin overtaken' => rows'[Subject(o)] # NoRow
    BY <2>1, <2>2 DEF Exists
  <2> QED
    BY <1>1, <2>1, <2>2, <2>3 DEF Fresh, Exists, Snapshot
<1> QED
  BY <1>2, <1>3

LEMMA SettledKept ==
  ASSUME IInv, NEW r \in Request, RequestStep(r), NEW o \in Request
  PROVE  Settled(o)'
<1>1. /\ TypeOK /\ Good(r) /\ Good(o) /\ Settled(o) /\ stale \subseteq stale' /\ untold \subseteq untold'
      /\ rows \in [Content -> Row \cup {NoRow}]
  BY StepIssues DEF IInv, TypeOK
<1>2. CASE o = r
  <2> SUFFICES ASSUME HoldsContent(r)', pc'[r] = "update" PROVE Settled(r)'
    BY <1>2 DEF Settled
  <2>1. /\ rows' = rows
        /\ TakesContent(r) \/ TakesLecture(r) \/ KeepsContent(r) \/ KeepsLecture(r)
    BY <1>1, StepHolds DEF HoldsContent
  <2>2. KeepsContent(r)
    BY <2>1 DEF TakesContent, TakesLecture, KeepsLecture, HoldsContent, HoldsLecture, SavesContent
  <2>3. /\ Subject(r)' = Subject(r) /\ memory' = memory /\ memory[r] \in Row
        /\ reloaded'[r] = rows[Subject(r)]
    BY <1>1, <2>2 DEF KeepsContent, Subject, Good
  <2>4. \A c \in ModerationColumns \ Dirty(memory'[r], reloaded'[r]) :
          rows'[Subject(r)'][c] = memory'[r][c]
    BY <2>1, <2>3, CleanColumn
  <2> QED
    BY <2>4 DEF Settled, Dirty
<1>3. CASE o # r
  <2> DEFINE x == Subject(o)
  <2>1. /\ pc'[o] = pc[o] /\ call'[o] = call[o] /\ memory'[o] = memory[o] /\ reloaded'[o] = reloaded[o]
        /\ HoldsContent(o)' = HoldsContent(o) /\ Subject(o)' = Subject(o)
    BY <1>3, OthersStand
  <2> SUFFICES ASSUME HoldsContent(o), pc[o] = "update", call[o].op = "moderate",
                      x \notin stale' \cup untold', rows'[x] # NoRow
               PROVE  rows[x] # NoRow /\ \A c \in ModerationColumns : rows'[x][c] = rows[x][c]
    BY <1>1, <2>1 DEF Settled, Exists, Dirty
  <2>2. x \in Content \cap issued
    BY <1>1 DEF Good
  <2>3. CASE rows'[x] = rows[x]
    BY <2>3
  <2>4. CASE Creates(r)
    BY <1>1, <2>2, <2>3, <2>4 DEF Creates
  <2>5. CASE Deletes(r)
    BY <2>2, <2>3, <2>5 DEF Deletes
  <2>6. CASE Saves(r) /\ Subject(r) # x
    BY <1>1, <2>2, <2>3, <2>6 DEF Saves, Good
  <2>7. CASE Saves(r) /\ Subject(r) = x
    <3>1. call[r].op # "moderate"
      <4> SUFFICES ASSUME call[r].op = "moderate" PROVE FALSE
        OBVIOUS
      <4>1. o \in Compared(x) \ {r}
        BY <1>3 DEF Compared, Subject
      <4> QED
        BY <2>7, <4>1 DEF Saves, Saved
    <3>2. /\ Exists(x) /\ Snapshot(rows'[x]) = Snapshot(rows[x])
      BY <2>7, <3>1, SavedRow
    <3> QED
      BY <3>2 DEF Exists, Snapshot, ModerationColumns
  <2> QED
    BY <1>1, <2>3, <2>4, <2>5, <2>6, <2>7, StepActs DEF Looks, Compares, RecordAudit
<1> QED
  BY <1>2, <1>3

LEMMA OneCourseKept ==
  ASSUME IInv, NEW r \in Request, RequestStep(r)
  PROVE  OneCourse'
<1>1. TypeOK /\ Good(r) /\ OneCourse /\ \A o \in Request : Good(o)
  BY DEF IInv
<1>2. ASSUME HoldsLecture(r)', NEW o \in Request \ {r}, HoldsLecture(o), call[o].target = call'[r].target
      PROVE  call[o].course = call'[r].course
  <2>1. TakesContent(r) \/ TakesLecture(r) \/ KeepsContent(r) \/ KeepsLecture(r)
    BY <1>1, <1>2, StepHolds DEF HoldsLecture
  <2>2. ~ TakesContent(r) /\ ~ KeepsContent(r)
    BY <1>2 DEF TakesContent, KeepsContent, HoldsContent, HoldsLecture, SavesContent, Saving
  <2>3. CASE TakesLecture(r)
    BY <1>1, <1>2, <2>3 DEF TakesLecture, Good
  <2>4. CASE KeepsLecture(r)
    BY <1>1, <1>2, <2>4 DEF KeepsLecture, OneCourse
  <2> QED
    BY <2>1, <2>2, <2>3, <2>4
<1> SUFFICES ASSUME NEW a \in Request, NEW b \in Request, HoldsLecture(a)', HoldsLecture(b)',
                    call'[a].target = call'[b].target
             PROVE  call'[a].course = call'[b].course
  BY DEF OneCourse
<1>3. CASE a = r /\ b # r
  BY <1>2, <1>3, OthersStand
<1>4. CASE a # r /\ b = r
  BY <1>2, <1>4, OthersStand
<1>5. CASE a # r /\ b # r
  BY <1>1, <1>5, OthersStand DEF OneCourse
<1> QED
  BY <1>3, <1>4, <1>5

(* What a lecture becomes while a request holds its entity: it stays in    *)
(* the course, or it is gone.                                              *)
LEMMA HeldLectureStays ==
  ASSUME IInv, NEW r \in Request, RequestStep(r), NEW o \in Request, HoldsLecture(o),
         lectures'[call[o].target] # NoRow
  PROVE  lectures'[call[o].target].course = call[o].course
<1> DEFINE l == call[o].target
<1>1. /\ TypeOK /\ Good(r) /\ OneCourse
      /\ l \in Lecture \cap issued /\ (lectures[l] # NoRow => lectures[l].course = call[o].course)
      /\ lectures \in [Lecture -> LectureRow \cup {NoRow}]
  BY DEF IInv, Good, TypeOK
<1>2. CASE AddsLecture(r)
  BY <1>1, <1>2 DEF AddsLecture
<1>3. CASE WritesLecture(r)
  <2>1. /\ HoldsLecture(r) /\ memory[r] \in LectureRow /\ memory[r].course = call[r].course
        /\ call[r].target \in Lecture
        /\ (lectures[call[r].target] # NoRow => lectures[call[r].target].course = call[r].course)
    BY <1>1, <1>3 DEF WritesLecture, Good
  <2>2. NextLecture(r).course = call[r].course
    BY <1>1, <1>3, <2>1, UpdatedLecture DEF WritesLecture, NextLecture
  <2>3. call[r].target = l => call[r].course = call[o].course
    BY <1>1, <2>1 DEF OneCourse
  <2> QED
    BY <1>1, <1>3, <2>1, <2>2, <2>3 DEF WritesLecture
<1> QED
  BY <1>1, <1>2, <1>3, StepLectures

LEMMA GoodKept ==
  ASSUME IInv, NEW r \in Request, RequestStep(r), NEW o \in Request
  PROVE  Good(o)'
<1>1. /\ TypeOK /\ Good(r) /\ Good(o) /\ issued \subseteq issued' /\ Traces
  BY StepIssues DEF IInv
<1>2. CASE o # r
  <2>1. HoldsLecture(o) /\ lectures'[call[o].target] # NoRow =>
          lectures'[call[o].target].course = call[o].course
    BY HeldLectureStays
  <2>2. /\ pc'[o] = pc[o] /\ call'[o] = call[o] /\ memory'[o] = memory[o] 
        /\ Holding(o)' = Holding(o) /\ HoldsContent(o)' = HoldsContent(o)
        /\ HoldsLecture(o)' = HoldsLecture(o) /\ Subject(o)' = Subject(o)
    BY <1>2, OthersStand
  <2> QED
    BY <1>1, <2>1, <2>2 DEF Good
<1>3. CASE o = r
  <2>1. call'[r] \in Calls
    BY <1>1, StepCalls DEF Calling, Good
  <2>2. Holding(r)' =>
          /\ UNCHANGED <<rows, lectures, issued>>
          /\ TakesContent(r) \/ TakesLecture(r) \/ KeepsContent(r) \/ KeepsLecture(r)
    BY <1>1, StepHolds
  <2>3. Holding(r)' => call'[r].op \in Saving \cup {"updateLecture"}
    BY <2>2 DEF TakesContent, TakesLecture, KeepsContent, KeepsLecture, HoldsContent, HoldsLecture,
         SavesContent, Saving
  <2>4. ASSUME HoldsContent(r)' PROVE Subject(r)' \in Content \cap issued' /\ memory'[r] \in Row
    <3>1. issued' = issued /\ (TakesContent(r) \/ KeepsContent(r))
      BY <2>2, <2>4 DEF HoldsContent, HoldsLecture, SavesContent, TakesLecture, KeepsLecture
    <3>2. CASE TakesContent(r)
      <4>1. call'[r].op \in Saving /\ Subject(r)' \in Content /\ Exists(Subject(r)')
            /\ memory'[r] = Assigned(rows[Subject(r)'], call'[r], r)
        BY <3>2 DEF TakesContent
      <4>2. rows[Subject(r)'] \in Row
        BY <1>1, <4>1 DEF TypeOK, Exists
      <4> QED
        BY <1>1, <2>1, <4>1, <4>2, AssignedIs DEF Traces
    <3>3. CASE KeepsContent(r)
      <4>1. Subject(r)' = Subject(r) /\ memory' = memory
        BY <3>3 DEF KeepsContent, Subject
      <4> QED
        BY <1>1, <3>3, <4>1 DEF KeepsContent, Good
    <3> QED
      BY <3>1, <3>2, <3>3
  <2>5. ASSUME HoldsLecture(r)'
        PROVE  LET l == call'[r].target IN
                 /\ l \in Lecture \cap issued'
                 /\ memory'[r] \in LectureRow /\ memory'[r].course = call'[r].course
                 /\ lectures'[l] # NoRow => lectures'[l].course = call'[r].course
    <3>1. UNCHANGED <<lectures, issued>> /\ (TakesLecture(r) \/ KeepsLecture(r))
      BY <2>2, <2>5 DEF HoldsContent, HoldsLecture, SavesContent, TakesContent, KeepsContent, Saving
    <3>2. CASE TakesLecture(r)
      BY <1>1, <3>1, <3>2 DEF TakesLecture, Traces
    <3>3. CASE KeepsLecture(r)
      BY <1>1, <3>1, <3>3 DEF KeepsLecture, Good
    <3> QED
      BY <3>1, <3>2, <3>3
  <2>6. pc'[r] = "delete" /\ call'[r].op = "remove" => call'[r].course \in issued'
    BY <1>1, StepDeletes DEF Traces
  <2>7. ASSUME pc'[r] = "audit" PROVE call'[r].op = "moderate" /\ call'[r].target \in Content \cap issued'
    <3>1. Saves(r)
      <4>1. ~ RecordAudit(r)
        BY <1>1, <2>7 DEF RecordAudit, Finish, TypeOK
      <4> QED
        BY <1>1, <2>7, <4>1, StepActs DEF Looks, Compares, Creates, Deletes
    <3>2. /\ call' = call /\ issued' = issued /\ call[r].op = "moderate"
          /\ Subject(r) \in Content \cap issued
      BY <1>1, <2>7, <3>1 DEF Saves, Good
    <3> QED
      BY <3>2 DEF Subject
  <2> QED
    BY <1>3, <2>1, <2>3, <2>4, <2>5, <2>6, <2>7 DEF Good
<1> QED
  BY <1>2, <1>3

LEMMA TracesKept ==
  ASSUME IInv, NEW r \in Request, RequestStep(r)
  PROVE  Traces'
<1>1. /\ TypeOK /\ Good(r) /\ Traces /\ issued \subseteq issued'
      /\ rows \in [Content -> Row \cup {NoRow}] /\ lectures \in [Lecture -> LectureRow \cup {NoRow}]
      /\ trail \in [Content -> TrailRow]
  BY StepIssues DEF IInv, TypeOK, TrailRow
<1>2. \A x \in Content : Exists(x)' => x \in issued'
  <2>1. CASE Creates(r)
    BY <1>1, <2>1 DEF Creates, Traces, Exists
  <2>2. CASE Saves(r)
    BY <1>1, <2>2 DEF Saves, Good, Traces, Exists
  <2>3. CASE Deletes(r)
    BY <1>1, <2>3 DEF Deletes, Traces, Exists
  <2>4. CASE Looks(r) \/ Compares(r) \/ RecordAudit(r)
    BY <1>1, <2>4 DEF Looks, Compares, RecordAudit, Traces, Exists
  <2> QED
    BY <1>1, <2>1, <2>2, <2>3, <2>4, StepActs
<1>3. \A l \in Lecture : lectures'[l] # NoRow => l \in issued'
  <2>1. CASE AddsLecture(r)
    BY <1>1, <2>1 DEF AddsLecture, Traces
  <2>2. CASE WritesLecture(r)
    BY <1>1, <2>2 DEF WritesLecture, Good, Traces
  <2> QED
    BY <1>1, <2>1, <2>2, StepLectures DEF Traces
<1>4. ASSUME NEW x \in Content \ issued'
      PROVE  trail'[x] = Snapshot(NewCourse(Null)) /\ meant'[x] = trail'[x]
  <2>1. trail'[x] = trail[x]
    <3>1. CASE RecordAudit(r)
      BY <1>1, <1>4, <3>1 DEF RecordAudit, Good
    <3> QED
      BY <1>1, <3>1, StepActs DEF Looks, Compares, Creates, Saves, Deletes
  <2>2. meant'[x] = meant[x]
    BY <1>1, <1>4, MeantKept
  <2> QED
    BY <1>1, <1>4, <2>1, <2>2 DEF Traces
<1> QED
  BY <1>2, <1>3, <1>4, HistoryKept DEF Traces

LEMMA OrderKept ==
  ASSUME IInv, NEW r \in Request, RequestStep(r)
  PROVE  LectureOrderUnique'
<1>1. /\ TypeOK /\ Good(r) /\ LectureOrderUnique /\ lectures \in [Lecture -> LectureRow \cup {NoRow}]
  BY DEF IInv, TypeOK
<1>2. \A a, b \in Lecture :
        lectures[a] # NoRow /\ lectures[b] # NoRow /\ lectures[a] = lectures[b] => a = b
  BY <1>1 DEF LectureOrderUnique, Taken, LecturesOf
<1> SUFFICES \A a, b \in Lecture :
               /\ lectures'[a] # NoRow /\ lectures'[b] # NoRow
               /\ lectures'[a].course = lectures'[b].course /\ lectures'[a].order = lectures'[b].order
               => a = b
  BY DEF LectureOrderUnique, Taken, LecturesOf
<1>3. \A a, b \in Lecture :
        /\ lectures[a] # NoRow /\ lectures[b] # NoRow
        /\ lectures[a].course = lectures[b].course /\ lectures[a].order = lectures[b].order
        => a = b
  BY <1>1 DEF LectureOrderUnique, Taken, LecturesOf
<1>4. CASE AddsLecture(r)
  <2>1. PICK l \in Lecture :
          lectures' = [lectures EXCEPT ![l] = [course |-> call[r].course, order |-> call[r].order]]
    BY <1>4 DEF AddsLecture
  <2>2. \A a \in Lecture : lectures[a] # NoRow =>
          ~ (lectures[a].course = call[r].course /\ lectures[a].order = call[r].order)
    BY <1>4 DEF AddsLecture, LecturesOf
  <2> QED
    BY <1>1, <1>3, <2>1, <2>2
<1>5. CASE WritesLecture(r)
  <2> DEFINE l == call[r].target
             n == NextLecture(r)
  <2>1. l \in Lecture /\ lectures' = [lectures EXCEPT ![l] = n]
    BY <1>1, <1>5 DEF WritesLecture, Good
  <2>2. n.course = call[r].course
    BY <1>1, <1>5, UpdatedLecture DEF WritesLecture, NextLecture, Good
  <2>3. \A a \in Lecture \ {l} : lectures[a] # NoRow =>
          ~ (lectures[a].course = n.course /\ lectures[a].order = n.order)
    BY <1>5, <2>2 DEF WritesLecture, Taken, LecturesOf
  <2> HIDE DEF l, n
  <2> QED
    BY <1>1, <1>3, <2>1, <2>3
<1> QED
  BY <1>1, <1>3, <1>4, <1>5, StepLectures

LEMMA ChildrenKept ==
  ASSUME IInv, NEW r \in Request, RequestStep(r)
  PROVE  ChildrenHaveCourse'
<1>1. /\ TypeOK /\ Good(r) /\ ChildrenHaveCourse /\ Traces
      /\ rows \in [Content -> Row \cup {NoRow}] /\ lectures \in [Lecture -> LectureRow \cup {NoRow}]
      /\ call[r] \in Call /\ call[r].course \in Course
  BY DEF IInv, TypeOK, Call
<1>2. \A x \in Content : Exists(x) => Exists(x)' \/ (Deletes(r) /\ x \in Gone(call[r].course))
  <2>1. CASE Creates(r)
    BY <1>1, <2>1, RowsKept, RowAssumption, NewRows DEF Creates, Exists
  <2>2. CASE Saves(r)
    <3>1. Subject(r) \in Content /\ memory[r] \in Row
      BY <1>1, <2>2 DEF Saves, Good
    <3>2. Exists(Subject(r)) => Updated(rows[Subject(r)], memory[r], reloaded[r]) \in Row
      BY <1>1, <3>1, UpdatedRow DEF Exists
    <3> QED
      BY <1>1, <2>2, <3>1, <3>2, RowAssumption DEF Saves, Exists
  <2>3. CASE Deletes(r)
    BY <1>1, <2>3 DEF Deletes, Exists
  <2>4. CASE Looks(r) \/ Compares(r) \/ RecordAudit(r)
    BY <2>4 DEF Looks, Compares, RecordAudit, Exists
  <2> QED
    BY <1>1, <2>1, <2>2, <2>3, <2>4, StepActs
<1>3. \A l \in Lecture : lectures'[l] # NoRow =>
        lectures'[l].course \in Course /\ Exists(lectures'[l].course)
  <2>0. \A l \in Lecture : lectures[l] # NoRow =>
          lectures[l].course \in Course /\ Exists(lectures[l].course)
    BY <1>1 DEF ChildrenHaveCourse, LectureRow
  <2>1. CASE AddsLecture(r)
    BY <1>1, <2>0, <2>1 DEF AddsLecture
  <2>2. CASE WritesLecture(r)
    <3>1. /\ call[r].target \in Lecture /\ memory[r] \in LectureRow /\ memory[r].course = call[r].course
          /\ lectures[call[r].target] # NoRow => lectures[call[r].target].course = call[r].course
          /\ lectures' = [lectures EXCEPT ![call[r].target] = NextLecture(r)]
      BY <1>1, <2>2 DEF WritesLecture, Good
    <3>2. NextLecture(r).course = call[r].course
      BY <1>1, <2>2, <3>1, UpdatedLecture DEF WritesLecture, NextLecture
    <3>3. Exists(call[r].course)
      BY <2>0, <2>2, <3>1 DEF WritesLecture
    <3> QED
      BY <1>1, <2>0, <3>1, <3>2, <3>3
  <2> QED
    BY <1>1, <2>0, <2>1, <2>2, StepLectures
<1>4. ASSUME NEW l \in Lecture, lectures'[l] # NoRow
      PROVE  lectures'[l].course # Null /\ rows'[lectures'[l].course] # NoRow
  <2>1. lectures'[l].course \in Course /\ lectures'[l].course \in Content /\ Exists(lectures'[l].course)
    BY <1>3, <1>4 DEF Content
  <2>2. ~ (Deletes(r) /\ lectures'[l].course \in Gone(call[r].course))
    <3> SUFFICES ASSUME Deletes(r), lectures'[l].course \in Gone(call[r].course) PROVE FALSE
      OBVIOUS
    <3>1. lectures'[l].course = call[r].course /\ lectures' = lectures
      BY <2>1, IdAssumption DEF Gone, Deletes
    <3> QED
      BY <1>4, <3>1 DEF Deletes, LecturesOf
  <2>3. rows'[lectures'[l].course] # NoRow
    BY <1>2, <2>1, <2>2 DEF Exists
  <2> QED
    BY <2>1, <2>3, IdAssumption
<1>5. ASSUME NEW a \in Assignment, Exists(a)' PROVE Exists(CourseOf[a])'
  <2>1. a \in Content /\ CourseOf[a] \in Course /\ CourseOf[a] \in Content
    BY OwnerAssumption DEF Content
  <2>2. Exists(CourseOf[a])
    <3>1. CASE Exists(a)
      BY <1>1, <3>1 DEF ChildrenHaveCourse
    <3>2. CASE ~ Exists(a)
      <4>1. CASE Creates(r)
        BY <1>1, <1>5, <2>1, <3>2, <4>1, IdAssumption DEF Creates, Exists
      <4>2. CASE Saves(r)
        BY <1>1, <1>5, <2>1, <3>2, <4>2 DEF Saves, Exists, Good
      <4>3. CASE Deletes(r)
        BY <1>5, <2>1, <3>2, <4>3 DEF Deletes, Exists
      <4>4. CASE Looks(r) \/ Compares(r) \/ RecordAudit(r)
        BY <1>5, <3>2, <4>4 DEF Looks, Compares, RecordAudit, Exists
      <4> QED
        BY <1>1, <4>1, <4>2, <4>3, <4>4, StepActs
    <3> QED
      BY <3>1, <3>2
  <2>3. ~ (Deletes(r) /\ CourseOf[a] \in Gone(call[r].course))
    <3> SUFFICES ASSUME Deletes(r), CourseOf[a] \in Gone(call[r].course) PROVE FALSE
      OBVIOUS
    <3>1. a \in Gone(call[r].course)
      BY <2>1, IdAssumption DEF Gone
    <3> QED
      BY <1>5, <2>1, <3>1 DEF Deletes, Exists
  <2> QED
    BY <1>2, <2>1, <2>2, <2>3
<1> QED
  BY <1>4, <1>5 DEF ChildrenHaveCourse, Exists

LEMMA StickKept ==
  ASSUME IInv, NEW r \in Request, RequestStep(r)
  PROVE  ChangesStick'
<1>1. /\ TypeOK /\ Good(r) /\ Traces /\ stale \subseteq stale' /\ removed \subseteq Content
      /\ rows \in [Content -> Row \cup {NoRow}] /\ meant \in [Content -> TrailRow]
  BY StepIssues DEF IInv, TypeOK, TrailRow, Content
<1>0. /\ \A x \in Content \ stale : rows[x] # NoRow => Snapshot(rows[x]) = meant[x]
      /\ \A c \in removed \ stale : rows[c] = NoRow
  BY DEF IInv, ChangesStick, Exists
<1> SUFFICES ASSUME NEW x \in Content \ stale'
             PROVE  /\ rows'[x] # NoRow => Snapshot(rows'[x]) = meant'[x]
                    /\ x \in removed' => rows'[x] = NoRow
  <2>1. removed' \subseteq Content
    BY HistoryKept DEF Content
  <2> QED
    BY <2>1 DEF ChangesStick, Exists, Snapshot
<1>x. x \in Content /\ x \notin stale
  BY <1>1
<1>2. CASE Looks(r) \/ RecordAudit(r)
  BY <1>0, <1>x, <1>2 DEF Looks, RecordAudit, history
<1>3. CASE Creates(r)
  <2>1. PICK y \in Content \ issued :
          rows' = [rows EXCEPT ![y] = NewCourse(r)] \/ rows' = [rows EXCEPT ![y] = NewAssignment(r)]
    BY <1>3 DEF Creates
  <2>2. meant' = meant /\ removed' = removed
    BY <1>3 DEF Creates, history
  <2>3. CASE x # y
    BY <1>0, <1>1, <1>x, <2>1, <2>2, <2>3
  <2>4. CASE x = y
    <3>1. meant[x] = Snapshot(NewCourse(Null)) /\ x \notin removed
      BY <1>1, <2>4 DEF Traces
    <3>2. Snapshot(rows'[x]) = Snapshot(NewCourse(Null))
      BY <1>1, <2>1, <2>4, NewRows
    <3> QED
      BY <2>2, <3>1, <3>2
  <2> QED
    BY <2>3, <2>4
<1>4. CASE Compares(r)
  <2>1. rows' = rows /\ removed' = removed
    BY <1>4 DEF Compares
  <2>2. CASE x # Subject(r) \/ call[r].op # "moderate"
    <3>1. meant'[x] = meant[x]
      BY <1>1, <1>4, <2>2 DEF Compares, Means
    <3> QED
      BY <1>0, <1>x, <2>1, <3>1
  <2>3. CASE x = Subject(r) /\ call[r].op = "moderate"
    <3> DEFINE set == ModerationColumns \ Dirty(memory[r], rows[x])
    <3>1. memory[r] \in Row /\ Exists(x) /\ rows[x] \in Row
      BY <1>1, <1>4, <2>3 DEF Compares, Good, Exists
    <3>2. meant'[x] = With(meant[x], memory[r], set) /\ meant[x] = Snapshot(rows[x])
      BY <1>0, <1>1, <1>4, <1>x, <2>3, <3>1 DEF Compares, Means, Exists
    <3>3. \A c \in ModerationColumns : c \in set => memory[r][c] = rows[x][c]
      BY <3>1, CleanColumn
    <3> HIDE DEF set
    <3>4. \A c \in ModerationColumns : Snapshot(rows[x])[c] = rows[x][c]
      BY SnapshotIs
    <3>5. /\ meant'[x] \in TrailRow /\ meant[x] \in TrailRow
          /\ \A c \in ModerationColumns : meant'[x][c] = IF c \in set THEN memory[r][c] ELSE meant[x][c]
      BY <1>1, <3>1, <3>2, WithModeration
    <3>6. \A c \in ModerationColumns : meant'[x][c] = meant[x][c]
      BY <3>2, <3>3, <3>4, <3>5
    <3>7. meant'[x] = meant[x]
      BY <3>5, <3>6, SameModeration
    <3> QED
      BY <1>0, <1>x, <2>1, <3>7
  <2> QED
    BY <2>2, <2>3
<1>5. CASE Saves(r) /\ x # Subject(r)
  <2>1. rows'[x] = rows[x] /\ meant'[x] = meant[x] /\ removed' = removed
    BY <1>1, <1>5 DEF Saves, Saved, Overtakes, Means, Good
  <2> QED
    BY <1>0, <1>x, <2>1
<1>6. CASE Saves(r) /\ x = Subject(r)
  <2>1. removed' = removed
    BY <1>6 DEF Saves, Saved
  <2> SUFFICES ASSUME rows'[x] # NoRow PROVE Snapshot(rows'[x]) = meant'[x] /\ x \notin removed
    BY <2>1
  <2>2. /\ Exists(x) /\ Means(r, Set(r))
        /\ Snapshot(rows'[x]) = With(Snapshot(rows[x]), memory[r], Set(r))
        /\ call[r].op # "moderate" => Snapshot(rows'[x]) = Snapshot(rows[x])
    BY <1>6, SavedRow
  <2>3. meant[x] = Snapshot(rows[x]) /\ x \notin removed
    BY <1>0, <1>x, <2>2 DEF Exists
  <2>4. meant'[x] = IF call[r].op = "moderate" THEN With(meant[x], memory[r], Set(r)) ELSE meant[x]
    BY <1>1, <1>6, <1>x, <2>2 DEF Means
  <2> QED
    BY <2>2, <2>3, <2>4
<1>7. CASE Deletes(r)
  <2>1. /\ meant' = meant /\ removed' = removed \cup {call[r].course}
        /\ rows'[x] = IF x \in Gone(call[r].course) THEN NoRow ELSE rows[x]
    BY <1>1, <1>7, <1>x DEF Deletes
  <2>2. call[r].course \in Gone(call[r].course)
    BY DEF Gone
  <2> QED
    BY <1>0, <1>x, <2>1, <2>2
<1> QED
  BY <1>1, <1>2, <1>3, <1>4, <1>5, <1>6, <1>7, StepActs

(* The moderations that wait for their record are those of before, with    *)
(* the one that has just saved and without the one that has just ended.    *)
LEMMA Waiting ==
  ASSUME IInv, NEW r \in Request, RequestStep(r), NEW x \in Content
  PROVE  /\ Unrecorded(x)' \ {r} = Unrecorded(x) \ {r}
         /\ r \in Unrecorded(x)' <=> pc'[r] = "audit" /\ call'[r].target = x
         /\ r \in Unrecorded(x) <=> pc[r] = "audit" /\ call[r].target = x
         /\ \A o \in Request \ {r} : AfterState(o)' = AfterState(o)
  BY OthersStand DEF Unrecorded

LEMMA ToldKept ==
  ASSUME IInv, NEW r \in Request, RequestStep(r), NEW x \in Content
  PROVE  Told(x)'
<1>1. /\ TypeOK /\ Good(r) /\ Told(x) /\ Traces /\ stale \subseteq stale' /\ untold \subseteq untold'
      /\ rows \in [Content -> Row \cup {NoRow}]
      /\ trail \in [Content -> TrailRow] /\ \A o \in Request : Good(o)
  BY StepIssues DEF IInv, TypeOK, TrailRow
<1>w. /\ Unrecorded(x)' \ {r} = Unrecorded(x) \ {r}
      /\ r \in Unrecorded(x)' <=> pc'[r] = "audit" /\ call'[r].target = x
      /\ r \in Unrecorded(x) <=> pc[r] = "audit" /\ call[r].target = x
      /\ \A o \in Request \ {r} : AfterState(o)' = AfterState(o)
      /\ Unrecorded(x) \subseteq Request
  BY Waiting DEF Unrecorded
(* Nothing about x has changed but, perhaps, that x is excepted.           *)
<1>s. ASSUME Unrecorded(x)' = Unrecorded(x), r \notin Unrecorded(x),
             rows'[x] = rows[x], trail'[x] = trail[x]
      PROVE  Told(x)'
  <2>1. \A o \in Unrecorded(x) : AfterState(o)' = AfterState(o)
    BY <1>w, <1>s
  <2>2. Unrecorded(x)' = Unrecorded(x) /\ rows'[x] = rows[x] /\ trail'[x] = trail[x]
    BY <1>s
  <2> QED
    BY <1>1, <2>1, <2>2 DEF Told, Exists
<1>c. CASE Compares(r)
  <2>1. r \notin Unrecorded(x) /\ Unrecorded(x)' = Unrecorded(x)
    BY <1>c, <1>w DEF Compares
  <2> QED
    BY <1>c, <1>s, <2>1 DEF Compares
<1>2. CASE Looks(r)
  <2>1. CASE r \in Unrecorded(x)
    <3>1. x \in untold'
      BY <1>2, <1>w, <2>1 DEF Looks
    <3> QED
      BY <3>1 DEF Told
  <2>2. CASE r \notin Unrecorded(x)
    <3>1. Unrecorded(x)' = Unrecorded(x) /\ rows' = rows /\ trail' = trail
      BY <1>2, <1>w, <2>2 DEF Looks
    <3> QED
      BY <1>s, <2>2, <3>1
  <2> QED
    BY <2>1, <2>2
<1>3. CASE Creates(r)
  <2>1. PICK y \in Content \ issued :
          rows' = [rows EXCEPT ![y] = NewCourse(r)] \/ rows' = [rows EXCEPT ![y] = NewAssignment(r)]
    BY <1>3 DEF Creates
  <2>2. trail' = trail /\ r \notin Unrecorded(x) /\ Unrecorded(x)' = Unrecorded(x)
    BY <1>3, <1>w DEF Creates
  <2>3. CASE x # y
    BY <1>1, <1>s, <2>1, <2>2, <2>3
  <2>4. CASE x = y
    <3>1. Unrecorded(x)' = {}
      BY <1>1, <2>2, <2>4 DEF Unrecorded, Good
    <3>2. trail'[x] = Snapshot(NewCourse(Null))
      BY <1>1, <2>2, <2>4 DEF Traces
    <3>3. Snapshot(rows'[x]) = Snapshot(NewCourse(Null))
      BY <1>1, <2>1, <2>4, NewRows
    <3>4. Snapshot(rows[x])' = Snapshot(rows'[x])
      BY DEF Snapshot
    <3> QED
      BY <3>1, <3>2, <3>3, <3>4 DEF Told
  <2> QED
    BY <2>3, <2>4
<1>4. CASE Saves(r)
  <2>1. /\ Subject(r) \in Content /\ trail' = trail /\ call' = call /\ pc[r] # "audit"
        /\ pc'[r] = (IF call[r].op = "moderate" THEN "audit" ELSE "done")
        /\ \A y \in Content \ {Subject(r)} : rows'[y] = rows[y]
        /\ untold' = IF call[r].op = "moderate" /\ Unrecorded(Subject(r)) \cup (Compared(Subject(r)) \ {r}) # {}
                       THEN untold \cup {Subject(r)} ELSE untold
    BY <1>1, <1>4 DEF Saves, Saved, Good, HoldsContent, Holding
  <2>2. r \notin Unrecorded(x)
    BY <1>w, <2>1
  <2>3. CASE x # Subject(r)
    <3>1. Unrecorded(x)' = Unrecorded(x)
      BY <1>w, <2>1, <2>2, <2>3 DEF Subject
    <3> QED
      BY <1>s, <2>1, <2>2, <2>3, <3>1
  <2>4. CASE x = Subject(r) /\ call[r].op = "moderate"
    <3>1. Unrecorded(x)' = Unrecorded(x) \cup {r}
      BY <1>w, <2>1, <2>2, <2>4 DEF Subject
    <3>2. CASE Unrecorded(x) # {}
      <4>1. x \in untold'
        BY <2>1, <2>4, <3>2
      <4> QED
        BY <4>1 DEF Told
    <3>3. CASE Unrecorded(x) = {}
      <4>1. Unrecorded(x)' = {r}
        BY <3>1, <3>3
      <4>2. ASSUME x \notin stale' \cup untold', rows'[x] # NoRow
            PROVE  AfterState(r)' = Snapshot(rows[x])'
        <5>1. /\ x \in Content /\ memory[r] \in Row /\ pc[r] \in {"reload", "update"}
              /\ rows[x] \in Row /\ Exists(x) /\ rows'[x] \in Row
              /\ Snapshot(rows'[x]) = With(Snapshot(rows[x]), memory[r], Set(r))
          BY <1>4, <2>4, <4>2, SavedRow
        <5>2. HoldsContent(r) /\ Snapshot(memory[r]) = AfterState(r) /\ x \notin stale \cup untold
          BY <1>1, <1>4, <2>4, <4>2 DEF Saves, IInv, Fresh
        <5>3. \A c \in ModerationColumns : c \notin Set(r) => rows[x][c] = memory[r][c]
          BY <1>4, <2>4, <5>1, <5>2 DEF IInv, Settled, Set
        <5>4. /\ Snapshot(rows[x]) \in TrailRow /\ Snapshot(rows'[x]) \in TrailRow
              /\ Snapshot(memory[r]) \in TrailRow
              /\ \A c \in ModerationColumns : /\ Snapshot(rows[x])[c] = rows[x][c]
                                              /\ Snapshot(memory[r])[c] = memory[r][c]
          BY <5>1, SnapshotIs
        <5>5. \A c \in ModerationColumns :
                Snapshot(rows'[x])[c] = IF c \in Set(r) THEN memory[r][c] ELSE Snapshot(rows[x])[c]
          BY <5>1, <5>4, WithModeration
        <5>6. \A c \in ModerationColumns : Snapshot(rows'[x])[c] = Snapshot(memory[r])[c]
          BY <5>3, <5>4, <5>5
        <5>7. Snapshot(rows'[x]) = AfterState(r)
          BY <5>2, <5>4, <5>6, SameModeration
        <5>8. AfterState(r)' = AfterState(r)
          BY <2>1 DEF AfterState
        <5> QED
          BY <5>7, <5>8 DEF Snapshot
      <4> QED
        BY <4>1, <4>2 DEF Told, Exists
    <3> QED
      BY <3>2, <3>3
  <2>5. CASE x = Subject(r) /\ call[r].op # "moderate"
    <3>1. Unrecorded(x)' = Unrecorded(x) /\ untold' = untold
      BY <1>w, <2>1, <2>2, <2>5
    <3>2. ASSUME x \notin stale', rows'[x] # NoRow PROVE Exists(x) /\ Snapshot(rows[x])' = Snapshot(rows[x])
      <4>1. Exists(x) /\ Snapshot(rows'[x]) = Snapshot(rows[x])
        BY <1>4, <2>5, <3>2, SavedRow
      <4> QED
        BY <4>1 DEF Snapshot
    <3>3. \A o \in Unrecorded(x) : AfterState(o)' = AfterState(o)
      BY <1>w, <2>2
    <3> QED
      BY <1>1, <2>1, <3>1, <3>2, <3>3 DEF Told, Exists
  <2> QED
    BY <2>3, <2>4, <2>5
<1>5. CASE Deletes(r)
  <2>1. r \notin Unrecorded(x) /\ Unrecorded(x)' = Unrecorded(x) /\ trail' = trail
    BY <1>5, <1>w DEF Deletes
  <2>2. rows'[x] = NoRow \/ rows'[x] = rows[x]
    BY <1>5 DEF Deletes
  <2>3. CASE rows'[x] = rows[x]
    BY <1>s, <2>1, <2>3
  <2>4. CASE rows'[x] = NoRow
    BY <1>1, <2>1, <2>4 DEF Told, Exists
  <2> QED
    BY <2>2, <2>3, <2>4
<1>6. CASE RecordAudit(r)
  <2>1. /\ rows' = rows /\ stale' = stale /\ untold' = untold /\ pc'[r] = "done" /\ pc[r] = "audit"
        /\ call[r].target \in Content /\ trail' = [trail EXCEPT ![call[r].target] = AfterState(r)]
    BY <1>1, <1>6 DEF RecordAudit, Finish, history, Good, TypeOK
  <2>2. CASE x # call[r].target
    <3>1. r \notin Unrecorded(x) /\ Unrecorded(x)' = Unrecorded(x) /\ trail'[x] = trail[x]
      BY <1>1, <1>w, <2>1, <2>2
    <3> QED
      BY <1>s, <2>1, <3>1
  <2>3. CASE x = call[r].target
    <3>1. r \in Unrecorded(x) /\ r \notin Unrecorded(x)' /\ trail'[x] = AfterState(r)
      BY <1>1, <1>w, <2>1, <2>3
    <3>2. x \notin untold => Unrecorded(x)' = {}
      BY <1>1, <1>w, <3>1 DEF Told
    <3>3. Snapshot(rows[x])' = Snapshot(rows[x])
      BY <2>1 DEF Snapshot
    <3> QED
      BY <1>1, <2>1, <3>1, <3>2, <3>3 DEF Told, Exists
  <2> QED
    BY <2>2, <2>3
<1> QED
  BY <1>1, <1>c, <1>2, <1>3, <1>4, <1>5, <1>6, StepActs

LEMMA RequestKeeps ==
  ASSUME IInv, NEW r \in Request, RequestStep(r)
  PROVE  IInv'
  BY TypesKept, GoodKept, FreshKept, SettledKept, OneCourseKept, TracesKept, OrderKept, ChildrenKept,
     StickKept, ToldKept DEF IInv

(* A crash ends what is under way, and leaves a gap in the trail of what   *)
(* was not recorded yet.                                                   *)
LEMMA CrashKeeps ==
  ASSUME IInv, Crash
  PROVE  IInv'
<1>1. /\ TypeOK /\ \A r \in Request : Good(r)
      /\ UNCHANGED <<rows, lectures, issued, call, trail, meant, removed, overtaken, stale>>
      /\ untold' = untold \cup {x \in Content : Unrecorded(x) # {}}
      /\ pc \in [Request -> Step]
      /\ pc' = [r \in Request |-> IF r \in InFlight THEN "done" ELSE pc[r]]
  BY DEF IInv, Crash, TypeOK
<1>2. \A r \in Request : pc'[r] \in {"idle", "done"} /\ (pc[r] = "idle" => pc'[r] = "idle")
                         /\ (pc'[r] # "idle" => pc[r] # "idle")
  BY <1>1 DEF InFlight
<1>3. TypeOK'
  <2>1. /\ pc' \in [Request -> Step] /\ answer' \in [Request -> Kind]
        /\ memory' \in [Request -> Row \cup LectureRow \cup {NoRow}]
        /\ reloaded' \in [Request -> Row \cup LectureRow \cup {NoRow}]
        /\ seen' \in [Request -> SUBSET Lecture] /\ orphans' \in [Request -> SUBSET Lecture]
        /\ untold' \subseteq Content
    BY <1>1 DEF TypeOK, Crash
  <2> QED
    BY <1>1, <2>1 DEF TypeOK
<1>4. \A r \in Request : ~ Holding(r)' /\ ~ HoldsContent(r)' /\ ~ HoldsLecture(r)'
  BY <1>2 DEF Holding, HoldsContent, HoldsLecture
<1>5. \A r \in Request : Good(r)' /\ Fresh(r)' /\ Settled(r)'
  BY <1>1, <1>2, <1>4 DEF Good, Fresh, Settled
<1>6. OneCourse'
  BY <1>4 DEF OneCourse
<1>7. Traces' /\ LectureOrderUnique' /\ ChildrenHaveCourse' /\ ChangesStick'
  BY <1>1 DEF IInv, Traces, LectureOrderUnique, ChildrenHaveCourse, ChangesStick, Exists,
       Taken, LecturesOf
<1>8. ASSUME NEW x \in Content PROVE Told(x)'
  <2>1. Unrecorded(x)' = {}
    BY <1>2 DEF Unrecorded
  <2>2. x \notin untold' => x \notin untold /\ Unrecorded(x) = {}
    BY <1>1
  <2> QED
    BY <1>1, <2>1, <2>2 DEF IInv, Told, Exists
<1> QED
  BY <1>3, <1>5, <1>6, <1>7, <1>8 DEF IInv

LEMMA StutterKeeps ==
  ASSUME IInv, UNCHANGED vars
  PROVE  IInv'
<1>1. /\ rows' = rows /\ lectures' = lectures /\ issued' = issued /\ pc' = pc /\ call' = call
      /\ memory' = memory /\ seen' = seen /\ reloaded' = reloaded /\ orphans' = orphans
      /\ answer' = answer /\ trail' = trail /\ meant' = meant /\ removed' = removed
      /\ overtaken' = overtaken /\ stale' = stale /\ untold' = untold
  BY DEF vars, entities, history
<1>2. TypeOK'
  BY <1>1 DEF IInv, TypeOK
<1>3. \A r \in Request : Good(r)' /\ Fresh(r)' /\ Settled(r)'
  <2> SUFFICES ASSUME NEW r \in Request PROVE Good(r)' /\ Fresh(r)' /\ Settled(r)'
    OBVIOUS
  <2>a. /\ Subject(r)' = Subject(r) /\ AfterState(r)' = AfterState(r)
        /\ HoldsContent(r)' = HoldsContent(r) /\ Holding(r)' = Holding(r)
        /\ HoldsLecture(r)' = HoldsLecture(r)
    BY <1>1 DEF Subject, AfterState, HoldsContent, Holding, HoldsLecture, SavesContent
  <2>b. Good(r) /\ Fresh(r) /\ Settled(r)
    BY DEF IInv
  <2>1. Good(r)'
    BY <1>1, <2>a, <2>b DEF Good
  <2>2. Fresh(r)'
    BY <1>1, <2>a, <2>b DEF Fresh, Exists
  <2>3. Settled(r)'
    BY <1>1, <2>a, <2>b DEF Settled, Exists
  <2> QED
    BY <2>1, <2>2, <2>3
<1>4. OneCourse'
  <2>1. \A r \in Request : HoldsLecture(r)' = HoldsLecture(r)
    BY <1>1 DEF HoldsLecture, Holding
  <2> QED
    BY <1>1, <2>1 DEF IInv, OneCourse
<1>5. LectureOrderUnique' /\ ChildrenHaveCourse'
  BY <1>1 DEF IInv, LectureOrderUnique, ChildrenHaveCourse, Exists, Taken, LecturesOf
<1>6. Traces'
  BY <1>1 DEF IInv, Traces, Exists
<1>7. ChangesStick'
  BY <1>1 DEF IInv, ChangesStick, Exists
<1>8. ASSUME NEW x \in Content PROVE Told(x)'
  BY <1>1 DEF IInv, Told, Exists, Unrecorded, AfterState
<1> QED
  BY <1>2, <1>3, <1>4, <1>5, <1>6, <1>7, <1>8 DEF IInv

LEMMA InitIInv == Init => IInv
<1> SUFFICES ASSUME Init PROVE IInv
  OBVIOUS
<1>1. PICK born \in SUBSET Course :
        /\ rows = [x \in Content |-> IF x \in born THEN NewCourse(Null) ELSE NoRow]
        /\ issued = born
  BY DEF Init
<1>2. NewCourse(Null) \in Row /\ Snapshot(NewCourse(Null)) \in TrailRow
  BY NewRows
<1>3. TypeOK
  BY <1>1, <1>2, AnyCallIsCall DEF Init, TypeOK, TrailRow, Content
<1>4. \A r \in Request : ~ Holding(r) /\ pc[r] = "idle" /\ Good(r) /\ Fresh(r) /\ Settled(r)
  BY DEF Init, Good, Fresh, Settled, Holding, HoldsContent, HoldsLecture
<1>5. OneCourse
  BY <1>4 DEF OneCourse, HoldsLecture
<1>6. Traces /\ LectureOrderUnique /\ ChangesStick
  BY <1>1 DEF Init, Traces, LectureOrderUnique, ChangesStick, Exists
<1>7. ChildrenHaveCourse
  BY <1>1, IdAssumption DEF Init, ChildrenHaveCourse, Exists, Content
<1>8. ASSUME NEW x \in Content PROVE Told(x)
  <2>1. Unrecorded(x) = {}
    BY <1>4 DEF Unrecorded
  <2>2. Exists(x) => Snapshot(rows[x]) = Snapshot(NewCourse(Null)) /\ trail[x] = Snapshot(NewCourse(Null))
    BY <1>1 DEF Init, Exists
  <2> QED
    BY <2>1, <2>2 DEF Told
<1> QED
  BY <1>3, <1>4, <1>5, <1>6, <1>7, <1>8 DEF IInv

(***************************************************************************)
(* Theorems                                                                *)
(***************************************************************************)
(* The types, and with them everything above, hold in every reachable      *)
(* state (CoursesService, AssignmentsService, AdminContentService).        *)
THEOREM Invariance == Spec => []IInv
<1>1. IInv /\ [Next]_vars => IInv'
  BY RequestKeeps, CrashKeeps, StutterKeeps DEF Next, RequestStep
<1> QED
  BY <1>1, InitIInv, PTL DEF Spec

(* Every variable keeps its type.                                          *)
THEOREM TypeCorrect == Spec => []TypeOK
<1>1. IInv => TypeOK
  BY DEF IInv
<1> QED
  BY <1>1, Invariance, PTL

(* No course ever has two lectures with one order, whoever creates,        *)
(* updates, removes or re-inserts them at the same time (lines 99-138 of   *)
(* courses.service.ts).                                                    *)
THEOREM OrdersAreUnique == Spec => []LectureOrderUnique
<1>1. IInv => LectureOrderUnique
  BY DEF IInv
<1> QED
  BY <1>1, Invariance, PTL

(* No lecture or assignment outlives its course or is cut off from it, by  *)
(* a removal, a late insert or a moderation with an old list of lectures   *)
(* (lines 91-95 of courses.service.ts, 78-102 of admin-content.service.ts).*)
THEOREM ChildrenKeepCourse == Spec => []ChildrenHaveCourse
<1>1. IInv => ChildrenHaveCourse
  BY DEF IInv
<1> QED
  BY <1>1, Invariance, PTL

(* What is hidden, shown or removed stays so: a save can undo it only      *)
(* where its entity was loaded before the change and compared with the row *)
(* after it (lines 80-95 of courses.service.ts, 78-102 and 145-169 of      *)
(* admin-content.service.ts).                                              *)
THEOREM ChangesHold == Spec => []ChangesStick
<1>1. IInv => ChangesStick
  BY DEF IInv
<1> QED
  BY <1>1, Invariance, PTL

(* The audit trail tells what is hidden and why, unless an overtaken save  *)
(* wrote the row back, two moderations of it overlapped or a record was    *)
(* lost (lines 78-102, 145-169 and 310-331 of admin-content.service.ts).   *)
THEOREM TrailIsTrue == Spec => []TrailTellsState
<1>1. ASSUME IInv PROVE TrailTellsState
  BY <1>1 DEF IInv, Told, TrailTellsState
<1> QED
  BY <1>1, Invariance, PTL
=============================================================================
