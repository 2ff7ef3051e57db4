-------------------------- MODULE EnrollmentsProofs --------------------------
(***************************************************************************)
(* What an enrollment keeps, for every number of requests, students and    *)
(* courses.                                                                *)
(*                                                                         *)
(* A request is a chain of steps with a memory: Good says what it may rely *)
(* on at each await (the row it has locked, the dropped row it has loaded) *)
(* and Sound what a row keeps.  StepActs says all that a step of a request *)
(* does to the rows; each clause of the invariant follows from it alone,   *)
(* and so does the refinement: a step of a request is one step of the book *)
(* (Served), or is not seen in it (Unseen).                                *)
(***************************************************************************)
EXTENDS EnrollmentsRefinement, FiniteSetTheorems, TLAPS

USE DEF Step, Kind

(***************************************************************************)
(* Types                                                                   *)
(***************************************************************************)
LEMMA AnyCallIsCall == AnyCall \in Call
<1>1. PICK s \in Student, c \in Course, v \in Progress : TRUE
  BY SomeAssumption
<1>2. [pair |-> <<s, c>>, progress |-> v] \in Call
  BY <1>1 DEF Call, Pair
<1> QED
  BY <1>2 DEF AnyCall

LEMMA RowTypes ==
  /\ NewEnrollment \in Row
  /\ \A e \in Row, v \in Progress : Advanced(e, v) \in Row
  /\ \A e \in Row, m \in Row : \A x : Updated(e, m, x) \in Row
<1>1. NewEnrollment \in Row
  BY ProgressAssumption DEF NewEnrollment, Row
<1>2. ASSUME NEW e \in Row, NEW v \in Progress PROVE Advanced(e, v) \in Row
  BY <1>2, ProgressAssumption DEF Advanced, Maximum, Row
<1>3. ASSUME NEW e \in Row, NEW m \in Row, NEW x PROVE Updated(e, m, x) \in Row
  <2>1. DOMAIN e = {"status", "progress"} /\ DOMAIN m = {"status", "progress"}
    BY DEF Row
  <2>2. Updated(e, m, x) = [status |-> Updated(e, m, x).status,
                            progress |-> Updated(e, m, x).progress]
    BY <2>1 DEF Updated
  <2>3. /\ Updated(e, m, x).status \in {e.status, m.status}
        /\ Updated(e, m, x).progress \in {e.progress, m.progress}
    BY <2>1 DEF Updated
  <2> QED
    BY <2>2, <2>3 DEF Row
<1> QED
  BY <1>1, <1>2, <1>3

(* An UPDATE against the row as it is writes the entity.                   *)
LEMMA UpdatedIsEntity ==
  ASSUME NEW e \in Row, NEW m \in Row
  PROVE  Updated(e, m, e) = m
<1>1. DOMAIN e = {"status", "progress"} /\ DOMAIN m = {"status", "progress"}
  BY DEF Row
<1>2. Updated(e, m, e) = [column \in {"status", "progress"} |-> m[column]]
  BY <1>1 DEF Updated, Dirty
<1> QED
  BY <1>1, <1>2 DEF Row

LEMMA AdvancedKeeps ==
  ASSUME NEW e \in Row, NEW v \in Progress, e.status = "active", e.progress # Full
  PROVE  LET n == Advanced(e, v) IN
           n.progress >= e.progress /\ (n.status = "completed" <=> n.progress = Full)
  BY ProgressAssumption DEF Advanced, Maximum, Row

LEMMA AdvancedGrows ==
  ASSUME NEW e \in Row, NEW v \in Progress
  PROVE  Advanced(e, v).progress >= e.progress
  BY ProgressAssumption DEF Advanced, Maximum, Row

(***************************************************************************)
(* The invariant                                                           *)
(***************************************************************************)
Winners(p) == {r \in Request : answer[r] = "enrolled" /\ call[r].pair = p}
Wins(p) == Cardinality(Winners(p))
Reactivates(r, p) == pc[r] \in {"reload", "update"} /\ call[r].pair = p

(* What a request may rely on.                                             *)
Holds(r) ==
  LET p == call[r].pair IN
    pc[r] = "save" =>
      /\ lock[p] = r /\ Exists(p) /\ row[p].status = "active"
      /\ memory[r] = Advanced(row[p], call[r].progress)

Reopens(r) ==
  LET p == call[r].pair IN
    pc[r] \in {"reload", "update"} =>
      /\ memory[r] = NewEnrollment
      /\ Exists(p) \/ CourseOf(p) = "deleted"
      /\ p \notin contested /\ Exists(p) =>
           row[p].status = "dropped" /\ (pc[r] = "update" => reloaded[r] = row[p])

Good(r) ==
  /\ pc[r] # "done" => answer[r] = "pending"
  /\ Holds(r)
  /\ Reopens(r)

(* What a pair keeps.                                                      *)
Sound(p) ==
  /\ Exists(p) => CourseOf(p) # "deleted"
  /\ ~ Exists(p) /\ CourseOf(p) # "deleted" => acked[p] = 0 /\ Winners(p) = {}
  /\ p \notin contested /\ Exists(p) =>
       /\ row[p].status = "completed" <=> row[p].progress = Full
       /\ row[p].progress >= acked[p]

(* Drops pay for the enrollments that are granted.                         *)
Paid(p) ==
  /\ IsFiniteSet(Winners(p))
  /\ p \notin contested =>
       /\ \A r, o \in Request : Reactivates(r, p) /\ Reactivates(o, p) => r = o
       /\ Wins(p) <= 1 + drops[p]
       /\ Exists(p) /\ row[p].status = "dropped" => Wins(p) <= drops[p]
       /\ (\E r \in Request : Reactivates(r, p)) => Wins(p) <= drops[p]

IInv ==
  /\ TypeOK
  /\ \A r \in Request : Good(r)
  /\ \A p \in Pair : Sound(p) /\ Paid(p)

(***************************************************************************)
(* What a step does                                                        *)
(***************************************************************************)
RequestStep(r) ==
  \/ Arrival(r) \/ Handle(r) \/ CallFails(r)
  \/ InsertAmbiguous(r) \/ UpdateAmbiguous(r) \/ CommitAmbiguous(r)

Other == \/ \E c \in Course : PublishCourse(c) \/ RemoveCourse(c)
         \/ \E p \in Pair : OperatorDrops(p)

LEMMA Steps == Next <=> (\E r \in Request : RequestStep(r)) \/ Other \/ Crash
  BY DEF Next, RequestStep, Other

(* The control of a step: r moves and is answered, and nobody else.        *)
Moves(r) ==
  /\ pc[r] # "done"
  /\ \E s \in Step \ {"idle"} : pc' = [pc EXCEPT ![r] = s]
  /\ \/ answer' = answer /\ pc'[r] # "done"
     \/ pc'[r] = "done" /\ \E k \in Kind \ {"pending"} : answer' = [answer EXCEPT ![r] = k]

(* The data of a step: what others have loaded and locked stays.           *)
Keeps(r) ==
  /\ course' = course /\ drops' = drops
  /\ call' \in [Request -> Call] /\ memory' \in [Request -> Row \cup {NoRow}]
  /\ reloaded' \in [Request -> Row \cup {NoRow}] /\ lock' \in [Pair -> Request \cup {Nobody}]
  /\ pc[r] # "idle" => call' = call
  /\ \A o \in Request \ {r} :
       /\ call'[o] = call[o] /\ memory'[o] = memory[o] /\ reloaded'[o] = reloaded[o]
       /\ \A p \in Pair : lock[p] = o => lock'[p] = o

LEMMA StepMoves ==
  ASSUME TypeOK, NEW r \in Request, RequestStep(r)
  PROVE  Moves(r)
<1> USE DEF TypeOK
<1>g. ASSUME NEW s \in Step \ {"idle", "done"}, Go(r, s)
      PROVE  /\ \E t \in Step \ {"idle"} : pc' = [pc EXCEPT ![r] = t]
             /\ answer' = answer /\ pc'[r] # "done"
  BY <1>g DEF Go
<1>f. ASSUME NEW k \in Kind \ {"pending"}, Finish(r, k)
      PROVE  /\ \E t \in Step \ {"idle"} : pc' = [pc EXCEPT ![r] = t]
             /\ pc'[r] = "done" /\ \E j \in Kind \ {"pending"} : answer' = [answer EXCEPT ![r] = j]
  BY <1>f DEF Finish
<1> HIDE DEF TypeOK
<1>1. /\ (\E s \in Step \ {"idle", "done"} : Go(r, s)) \/ (\E k \in Kind \ {"pending"} : Finish(r, k))
      /\ pc[r] # "done"
  BY DEF RequestStep, Arrival, FindCourse, BeginProgress, Handle, CheckExisting, FindDropped, Reload,
       UpdateDropped, InsertEnrollment, LockRow, SaveProgress, Rollback, CallFails, InsertAmbiguous,
       UpdateAmbiguous, Reactivate, CommitAmbiguous
<1> QED
  BY <1>1, <1>g, <1>f DEF Moves

LEMMA StepKeeps ==
  ASSUME TypeOK, NEW r \in Request, RequestStep(r)
  PROVE  Keeps(r)
<1>1. course' = course /\ drops' = drops
  BY DEF RequestStep, Arrival, FindCourse, BeginProgress, Handle, CheckExisting, FindDropped, Reload,
       UpdateDropped, InsertEnrollment, LockRow, SaveProgress, Rollback, CallFails, InsertAmbiguous,
       UpdateAmbiguous, Reactivate, CommitAmbiguous, history
<1>2. /\ call \in [Request -> Call] /\ memory \in [Request -> Row \cup {NoRow}]
      /\ reloaded \in [Request -> Row \cup {NoRow}] /\ lock \in [Pair -> Request \cup {Nobody}]
      /\ row \in [Pair -> Row \cup {NoRow}]
  BY DEF TypeOK
<1>3. (pc[r] # "idle" /\ call' = call) \/ (\E c \in Call : call' = [call EXCEPT ![r] = c])
  <2>1. ASSUME NEW p \in Pair, FindCourse(r, p) PROVE \E c \in Call : call' = [call EXCEPT ![r] = c]
    <3>1. [call[r] EXCEPT !.pair = p] \in Call
      BY <1>2 DEF Call
    <3> QED
      BY <1>2, <2>1, <3>1 DEF FindCourse
  <2>2. ASSUME NEW p \in Pair, NEW v \in Progress, BeginProgress(r, p, v)
        PROVE \E c \in Call : call' = [call EXCEPT ![r] = c]
    BY <2>2 DEF BeginProgress, Call
  <2> QED
    BY <2>1, <2>2 DEF RequestStep, Arrival, Handle, CheckExisting, FindDropped, Reload, UpdateDropped,
         InsertEnrollment, LockRow, SaveProgress, Rollback, CallFails, InsertAmbiguous,
         UpdateAmbiguous, Reactivate, CommitAmbiguous
<1>4. pc[r] = "idle" \/ call' = call
  BY DEF RequestStep, Arrival, FindCourse, BeginProgress, Handle, CheckExisting, FindDropped, Reload,
       UpdateDropped, InsertEnrollment, LockRow, SaveProgress, Rollback, CallFails, InsertAmbiguous,
       UpdateAmbiguous, Reactivate, CommitAmbiguous
<1>5. call[r] \in Call /\ call[r].pair \in Pair /\ call[r].progress \in Progress
  BY <1>2 DEF Call
<1>6. memory' = memory \/ (\E m \in Row : memory' = [memory EXCEPT ![r] = m])
  BY <1>2, <1>5, RowTypes DEF Exists, RequestStep, Arrival, FindCourse, BeginProgress, Handle,
       CheckExisting, FindDropped, Reload, UpdateDropped, InsertEnrollment, LockRow, SaveProgress,
       Rollback, CallFails, InsertAmbiguous, UpdateAmbiguous, Reactivate, CommitAmbiguous
<1>7. reloaded' = reloaded \/ (\E e \in Row \cup {NoRow} : reloaded' = [reloaded EXCEPT ![r] = e])
  BY <1>2, <1>5 DEF Enrollment, RequestStep, Arrival, FindCourse, BeginProgress, Handle,
       CheckExisting, FindDropped, Reload, UpdateDropped, InsertEnrollment, LockRow, SaveProgress,
       Rollback, CallFails, InsertAmbiguous, UpdateAmbiguous, Reactivate, CommitAmbiguous
<1>8. \/ lock' = lock \/ Release(r)
      \/ \E p \in Pair : lock[p] = Nobody /\ lock' = [lock EXCEPT ![p] = r]
  BY <1>5 DEF Commit, RequestStep, Arrival, FindCourse, BeginProgress, Handle,
       CheckExisting, FindDropped, Reload, UpdateDropped, InsertEnrollment, LockRow, SaveProgress,
       Rollback, CallFails, InsertAmbiguous, UpdateAmbiguous, Reactivate, CommitAmbiguous
<1>9. /\ lock' \in [Pair -> Request \cup {Nobody}]
      /\ \A o \in Request \ {r}, p \in Pair : lock[p] = o => lock'[p] = o
  BY <1>2, <1>8, NobodyAssumption DEF Release
<1>10. /\ memory' \in [Request -> Row \cup {NoRow}]
       /\ \A o \in Request \ {r} : memory'[o] = memory[o]
  BY <1>2, <1>6
<1>11. /\ reloaded' \in [Request -> Row \cup {NoRow}]
       /\ \A o \in Request \ {r} : reloaded'[o] = reloaded[o]
  BY <1>2, <1>7
<1>12. call' \in [Request -> Call] /\ \A o \in Request \ {r} : call'[o] = call[o]
  BY <1>2, <1>3
<1> QED
  BY <1>1, <1>4, <1>9, <1>10, <1>11, <1>12 DEF Keeps

(* All that a step of r does to its row, to what it has acknowledged about *)
(* it and to the enrollments that are granted.                             *)
Looks(r) ==
  /\ row' = row /\ acked' = acked
  /\ answer'[r] = "enrolled" =>
       pc[r] = "reload" /\ Enrollment(r) # NoRow /\ Dirty(memory[r], Enrollment(r)) = {}

Reactivated(r) ==
  LET p == call[r].pair IN
    /\ pc[r] = "update" /\ lock[p] = Nobody
    /\ row' = IF Exists(p) THEN [row EXCEPT ![p] = Updated(@, memory[r], reloaded[r])] ELSE row
    /\ acked' = [acked EXCEPT ![p] = 0]

Inserted(r) ==
  LET p == call[r].pair IN
    /\ pc[r] = "insert" /\ ~ Exists(p) /\ CourseOf(p) # "deleted"
    /\ row' = [row EXCEPT ![p] = NewEnrollment] /\ acked' = acked

Saved(r) ==
  LET p == call[r].pair
      entity == Advanced(row[p], call[r].progress) IN
    /\ pc[r] = "save" /\ Exists(p)
    /\ row' = [row EXCEPT ![p] = entity]
    /\ acked' \in {acked, [acked EXCEPT ![p] = Maximum(@, entity.progress)]}
    /\ answer'[r] # "enrolled"

LEMMA StepActs ==
  ASSUME TypeOK, NEW r \in Request, Good(r), RequestStep(r)
  PROVE  Looks(r) \/ Reactivated(r) \/ Inserted(r) \/ Saved(r)
<1>1. /\ call[r] \in Call /\ call[r].pair \in Pair /\ call[r].progress \in Progress
      /\ row \in [Pair -> Row \cup {NoRow}] /\ acked \in [Pair -> 0 .. Full]
      /\ answer \in [Request -> Kind]
  BY DEF TypeOK, Call
<1>2. answer[r] = "pending" /\ pc[r] # "done"
  BY StepMoves DEF Moves, Good
<1>g. ASSUME NEW s, Go(r, s) PROVE answer'[r] = "pending"
  BY <1>2, <1>g DEF Go
<1>f. ASSUME NEW k, Finish(r, k) PROVE answer'[r] = k
  BY <1>1, <1>f DEF Finish
<1>3. CASE Arrival(r)
  <2>1. row' = row /\ acked' = acked
    BY <1>3 DEF Arrival, FindCourse, BeginProgress, history
  <2>2. answer'[r] # "enrolled"
    BY <1>3, <1>g, <1>f DEF Arrival, FindCourse, BeginProgress
  <2> QED
    BY <2>1, <2>2 DEF Looks
<1>4. CASE UpdateDropped(r) \/ UpdateAmbiguous(r)
  BY <1>4 DEF UpdateDropped, UpdateAmbiguous, Reactivate, Write, Reactivated
<1>5. CASE InsertEnrollment(r)
  <2>1. CASE Exists(call[r].pair) \/ CourseOf(call[r].pair) = "deleted"
    BY <1>5, <2>1, <1>f DEF InsertEnrollment, history, Looks
  <2>2. CASE ~ Exists(call[r].pair) /\ CourseOf(call[r].pair) # "deleted"
    BY <1>5, <2>2 DEF InsertEnrollment, history, Inserted
  <2> QED
    BY <2>1, <2>2
<1>6. CASE InsertAmbiguous(r)
  BY <1>6 DEF InsertAmbiguous, history, Inserted
<1>7. CASE SaveProgress(r) \/ CommitAmbiguous(r)
  <2>1. pc[r] = "save" /\ Write(r, call[r].pair, Enrollment(r))
    BY <1>7 DEF SaveProgress, CommitAmbiguous, Commit
  <2>2. Exists(call[r].pair) /\ memory[r] = Advanced(row[call[r].pair], call[r].progress)
    BY <2>1 DEF Good, Holds
  <2>3. row[call[r].pair] \in Row /\ memory[r] \in Row
    BY <1>1, <2>2, RowTypes DEF Exists
  <2>4. Updated(row[call[r].pair], memory[r], Enrollment(r)) = memory[r]
    BY <2>3, UpdatedIsEntity DEF Enrollment
  <2>5. row' = [row EXCEPT ![call[r].pair] = memory[r]]
    BY <2>1, <2>2, <2>4 DEF Write
  <2>6. acked' \in {acked, [acked EXCEPT ![call[r].pair] = Maximum(@, memory[r].progress)]}
    BY <1>7 DEF SaveProgress, CommitAmbiguous, history
  <2>7. answer'[r] # "enrolled"
    BY <1>7, <1>f DEF SaveProgress, CommitAmbiguous
  <2> QED
    BY <2>1, <2>2, <2>5, <2>6, <2>7 DEF Saved
<1>8. CASE Reload(r)
  BY <1>8, <1>g, <1>f DEF Reload, history, Looks
<1>9. CASE CheckExisting(r) \/ FindDropped(r) \/ LockRow(r) \/ Rollback(r) \/ CallFails(r)
  <2>1. row' = row /\ acked' = acked
    BY <1>9 DEF CheckExisting, FindDropped, LockRow, Rollback, CallFails, history
  <2>2. answer'[r] # "enrolled"
    BY <1>9, <1>g, <1>f DEF CheckExisting, FindDropped, LockRow, Rollback, CallFails
  <2> QED
    BY <2>1, <2>2 DEF Looks
<1> QED
  BY <1>3, <1>4, <1>5, <1>6, <1>7, <1>8, <1>9 DEF RequestStep, Handle

LEMMA StepContests ==
  ASSUME TypeOK, NEW r \in Request, RequestStep(r)
  PROVE  \/ contested' = contested
         \/ pc[r] = "dropped" /\ contested' = contested \cup {call[r].pair}
  BY DEF RequestStep, Arrival, FindCourse, BeginProgress, Handle, CheckExisting, FindDropped, Reload,
       UpdateDropped, InsertEnrollment, LockRow, SaveProgress, Rollback, CallFails, InsertAmbiguous,
       UpdateAmbiguous, Reactivate, CommitAmbiguous, history

(***************************************************************************)
(* Type correctness                                                        *)
(***************************************************************************)
LEMMA RowsTyped ==
  ASSUME TypeOK, NEW r \in Request, Good(r), RequestStep(r)
  PROVE  row' \in [Pair -> Row \cup {NoRow}] /\ acked' \in [Pair -> 0 .. Full]
<1>1. /\ call[r] \in Call /\ call[r].pair \in Pair /\ call[r].progress \in Progress
      /\ row \in [Pair -> Row \cup {NoRow}] /\ acked \in [Pair -> 0 .. Full]
  BY DEF TypeOK, Call
<1> DEFINE p == call[r].pair
<1>2. Exists(p) => row[p] \in Row
  BY <1>1 DEF Exists
<1>3. CASE Looks(r)
  BY <1>1, <1>3 DEF Looks
<1>4. CASE Reactivated(r)
  <2>1. memory[r] \in Row
    BY <1>4, RowTypes DEF Reactivated, Good, Reopens
  <2>2. Exists(p) => Updated(row[p], memory[r], reloaded[r]) \in Row
    BY <1>2, <2>1, RowTypes
  <2> QED
    BY <1>1, <1>4, <2>2, ProgressAssumption DEF Reactivated
<1>5. CASE Inserted(r)
  BY <1>1, <1>5, RowTypes DEF Inserted
<1>6. CASE Saved(r)
  <2>1. Advanced(row[p], call[r].progress) \in Row
    BY <1>1, <1>2, <1>6, RowTypes DEF Saved
  <2>2. Maximum(acked[p], Advanced(row[p], call[r].progress).progress) \in 0 .. Full
    BY <1>1, <2>1 DEF Maximum, Row
  <2> QED
    BY <1>1, <1>6, <2>1, <2>2 DEF Saved
<1> QED
  BY <1>3, <1>4, <1>5, <1>6, StepActs

LEMMA TypesKept ==
  ASSUME TypeOK, \A r \in Request : Good(r), [Next]_vars
  PROVE  TypeOK'
<1>1. ASSUME NEW r \in Request, RequestStep(r) PROVE TypeOK'
  <2>1. row' \in [Pair -> Row \cup {NoRow}] /\ acked' \in [Pair -> 0 .. Full]
    BY <1>1, RowsTyped
  <2>2. pc' \in [Request -> Step] /\ answer' \in [Request -> Kind]
    <3>1. Moves(r) /\ pc \in [Request -> Step] /\ answer \in [Request -> Kind]
      BY <1>1, StepMoves DEF TypeOK
    <3>2. pc' \in [Request -> Step]
      BY <3>1 DEF Moves
    <3>3. answer' \in [Request -> Kind]
      <4> HIDE DEF Kind
      <4> QED
        BY <3>1 DEF Moves
    <3> QED
      BY <3>2, <3>3
  <2>3. Keeps(r) /\ contested' \subseteq Pair
    BY <1>1, StepKeeps, StepContests DEF TypeOK, Call
  <2> QED
    BY <2>1, <2>2, <2>3 DEF Keeps, TypeOK
<1>2. ASSUME Other PROVE TypeOK'
  <2>1. ASSUME NEW c \in Course, PublishCourse(c) \/ RemoveCourse(c) PROVE TypeOK'
    BY <2>1 DEF PublishCourse, RemoveCourse, TypeOK, history
  <2>2. ASSUME NEW p \in Pair, OperatorDrops(p) PROVE TypeOK'
    <3>1. row[p] \in Row
      BY <2>2 DEF OperatorDrops, Exists, TypeOK
    <3>2. [row[p] EXCEPT !.status = "dropped"] \in Row
      BY <3>1 DEF Row
    <3>3. row' \in [Pair -> Row \cup {NoRow}] /\ drops' \in [Pair -> Nat]
      BY <2>2, <3>2 DEF OperatorDrops, TypeOK
    <3> QED
      BY <2>2, <3>3 DEF OperatorDrops, TypeOK
  <2> QED
    BY <1>2, <2>1, <2>2 DEF Other
<1>3. ASSUME Crash PROVE TypeOK'
  BY <1>3 DEF Crash, TypeOK, history
<1>4. ASSUME UNCHANGED vars PROVE TypeOK'
  BY <1>4 DEF TypeOK, vars, history
<1> QED
  BY <1>1, <1>2, <1>3, <1>4, Steps

(***************************************************************************)
(* What a request may rely on                                              *)
(***************************************************************************)
(* Who has loaded a dropped row after a step of r.                         *)
LEMMA StepReopens ==
  ASSUME TypeOK, NEW r \in Request, RequestStep(r), pc'[r] \in {"reload", "update"}
  PROVE  LET p == call[r].pair IN
           /\ call' = call /\ row' = row
           /\ \/ pc[r] = "reload" /\ memory' = memory /\ contested' = contested
                 /\ Exists(p) /\ reloaded'[r] = row[p]
              \/ /\ pc[r] = "dropped" /\ pc'[r] = "reload"
                 /\ memory'[r] = NewEnrollment
                 /\ Exists(p) /\ row[p].status = "dropped"
                 /\ contested' = IF Reactivating(r, p) THEN contested \cup {p} ELSE contested
<1>1. pc \in [Request -> Step] /\ memory \in [Request -> Row \cup {NoRow}]
      /\ reloaded \in [Request -> Row \cup {NoRow}]
  BY DEF TypeOK
<1>g. ASSUME NEW s, Go(r, s) PROVE pc'[r] = s
  BY <1>1, <1>g DEF Go
<1>f. ASSUME NEW k, Finish(r, k) PROVE pc'[r] = "done"
  BY <1>1, <1>f DEF Finish
<1>2. FindDropped(r) \/ Reload(r)
  <2>1. CASE Arrival(r)
    BY <2>1, <1>g, <1>f DEF Arrival, FindCourse, BeginProgress
  <2>2. CASE CheckExisting(r) \/ LockRow(r)
    BY <2>2, <1>g, <1>f DEF CheckExisting, LockRow
  <2>3. CASE UpdateDropped(r) \/ InsertEnrollment(r) \/ SaveProgress(r) \/ Rollback(r)
             \/ CallFails(r) \/ InsertAmbiguous(r) \/ UpdateAmbiguous(r) \/ CommitAmbiguous(r)
    BY <2>3, <1>f DEF UpdateDropped, InsertEnrollment, SaveProgress, Rollback, CallFails,
         InsertAmbiguous, UpdateAmbiguous, CommitAmbiguous
  <2> QED
    BY <2>1, <2>2, <2>3 DEF RequestStep, Handle
<1>3. CASE FindDropped(r)
  BY <1>1, <1>3, <1>g DEF FindDropped
<1>4. CASE Reload(r)
  BY <1>1, <1>4, <1>g, <1>f DEF Reload, Enrollment, Exists, history
<1> QED
  BY <1>2, <1>3, <1>4

(* Who holds a row after a step of r.                                      *)
LEMMA StepHolds ==
  ASSUME TypeOK, NEW r \in Request, RequestStep(r), pc'[r] = "save"
  PROVE  LET p == call[r].pair IN
           /\ call' = call /\ row' = row
           /\ Exists(p) /\ row[p].status = "active" /\ lock'[p] = r
           /\ memory'[r] = Advanced(row[p], call[r].progress)
<1>1. /\ pc \in [Request -> Step] /\ memory \in [Request -> Row \cup {NoRow}]
      /\ lock \in [Pair -> Request \cup {Nobody}] /\ call[r] \in Call /\ call[r].pair \in Pair
  BY DEF TypeOK, Call
<1>g. ASSUME NEW s, Go(r, s) PROVE pc'[r] = s
  BY <1>1, <1>g DEF Go
<1>f. ASSUME NEW k, Finish(r, k) PROVE pc'[r] = "done"
  BY <1>1, <1>f DEF Finish
<1>2. LockRow(r)
  <2>1. CASE Arrival(r)
    BY <2>1, <1>g, <1>f DEF Arrival, FindCourse, BeginProgress
  <2>2. CASE CheckExisting(r) \/ FindDropped(r) \/ Reload(r)
    BY <2>2, <1>g, <1>f DEF CheckExisting, FindDropped, Reload
  <2>3. CASE UpdateDropped(r) \/ InsertEnrollment(r) \/ SaveProgress(r) \/ Rollback(r)
             \/ CallFails(r) \/ InsertAmbiguous(r) \/ UpdateAmbiguous(r) \/ CommitAmbiguous(r)
    BY <2>3, <1>f DEF UpdateDropped, InsertEnrollment, SaveProgress, Rollback, CallFails,
         InsertAmbiguous, UpdateAmbiguous, CommitAmbiguous
  <2> QED
    BY <2>1, <2>2, <2>3 DEF RequestStep, Handle
<1> QED
  BY <1>1, <1>2, <1>g, <1>f DEF LockRow

LEMMA ActorGood ==
  ASSUME TypeOK, NEW r \in Request, Good(r), RequestStep(r)
  PROVE  Good(r)'
<1>1. pc'[r] # "done" => answer'[r] = "pending"
  BY StepMoves DEF Moves, Good
<1>2. Holds(r)'
  <2> SUFFICES ASSUME pc'[r] = "save" PROVE Holds(r)'
    BY DEF Holds
  <2> QED
    BY StepHolds DEF Holds, Exists
<1>3. Reopens(r)'
  <2> SUFFICES ASSUME pc'[r] \in {"reload", "update"} PROVE Reopens(r)'
    BY DEF Reopens
  <2>1. course' = course
    BY StepKeeps DEF Keeps
  <2> QED
    BY <2>1, StepReopens DEF Reopens, Good, Exists, CourseOf
<1> QED
  BY <1>1, <1>2, <1>3 DEF Good

(* A step of r leaves alone the row that another holds or has loaded.      *)
LEMMA OthersGood ==
  ASSUME TypeOK, NEW r \in Request, Good(r), RequestStep(r),
         NEW o \in Request \ {r}, Good(o), Paid(call[o].pair)
  PROVE  Good(o)'
<1> DEFINE p == call[o].pair
<1>1. /\ pc'[o] = pc[o] /\ answer'[o] = answer[o] /\ call'[o] = call[o]
      /\ memory'[o] = memory[o] /\ reloaded'[o] = reloaded[o] /\ course' = course
      /\ lock[p] = o => lock'[p] = o
  <2>1. p \in Pair
    BY DEF TypeOK, Call
  <2> QED
    BY <2>1, StepMoves, StepKeeps DEF Moves, Keeps, TypeOK
<1>2. /\ call[r] \in Call /\ call[r].pair \in Pair /\ call[r].progress \in Progress
      /\ p \in Pair /\ row \in [Pair -> Row \cup {NoRow}]
      /\ o # Nobody
  BY NobodyAssumption DEF TypeOK, Call
<1>3. Holds(o)'
  <2> SUFFICES ASSUME pc[o] = "save" PROVE Holds(o)'
    BY <1>1 DEF Holds
  <2>1. lock[p] = o /\ Exists(p)
    BY DEF Good, Holds
  <2>2. row'[p] = row[p]
    <3>1. CASE Reactivated(r)
      BY <1>2, <2>1, <3>1 DEF Reactivated
    <3>2. CASE Saved(r)
      BY <1>2, <2>1, <3>2 DEF Saved, Good, Holds
    <3> QED
      BY <1>2, <2>1, <3>1, <3>2, StepActs DEF Looks, Inserted
  <2> QED
    BY <1>1, <2>1, <2>2 DEF Good, Holds, Exists
<1>4. Reopens(o)'
  <2> SUFFICES ASSUME pc[o] \in {"reload", "update"} PROVE Reopens(o)'
    BY <1>1 DEF Reopens
  <2>1. Exists(p) \/ CourseOf(p) = "deleted"
    BY DEF Good, Reopens
  <2>2. contested \subseteq contested'
    BY StepContests
  <2>3. Exists(p) => row'[p] # NoRow
    <3>1. CASE Reactivated(r)
      <4>1. memory[r] \in Row
        BY <3>1, RowTypes DEF Reactivated, Good, Reopens
      <4>2. Exists(call[r].pair) => Updated(row[call[r].pair], memory[r], reloaded[r]) \in Row
        BY <1>2, <4>1, RowTypes DEF Exists
      <4> QED
        BY <1>2, <3>1, <4>2, NoRowAssumption DEF Reactivated, Exists
    <3>2. CASE Saved(r)
      <4>1. Advanced(row[call[r].pair], call[r].progress) \in Row
        BY <1>2, <3>2, RowTypes DEF Saved, Exists
      <4> QED
        BY <1>2, <3>2, <4>1, NoRowAssumption DEF Saved, Exists
    <3> QED
      BY <1>2, <3>1, <3>2, StepActs, RowTypes, NoRowAssumption DEF Looks, Inserted, Exists
  <2>4. ASSUME p \notin contested PROVE row'[p] = row[p]
    <3>1. CASE Reactivated(r)
      <4>1. p # call[r].pair
        BY <2>4, <3>1 DEF Reactivated, Paid, Reactivates
      <4> QED
        BY <1>2, <3>1, <4>1 DEF Reactivated
    <3>2. CASE Saved(r)
      <4>1. p # call[r].pair
        BY <2>4, <3>2 DEF Saved, Good, Holds, Reopens
      <4> QED
        BY <1>2, <3>2, <4>1 DEF Saved
    <3> QED
      BY <1>2, <2>1, <3>1, <3>2, StepActs DEF Looks, Inserted
  <2> QED
    BY <1>1, <2>1, <2>2, <2>3, <2>4 DEF Good, Reopens, Exists, CourseOf
<1> QED
  BY <1>1, <1>3, <1>4 DEF Good

(***************************************************************************)
(* What a row keeps                                                        *)
(***************************************************************************)
(* The requests that were granted the enrollment p.                        *)
LEMMA StepWins ==
  ASSUME TypeOK, NEW r \in Request, Good(r), RequestStep(r), NEW p \in Pair
  PROVE  /\ r \notin Winners(p)
         /\ Winners(p)' = IF answer'[r] = "enrolled" /\ call[r].pair = p
                            THEN Winners(p) \cup {r} ELSE Winners(p)
<1>1. answer[r] = "pending" /\ Moves(r) /\ Keeps(r) /\ answer \in [Request -> Kind]
  BY StepMoves, StepKeeps DEF Moves, Good, TypeOK
<1>2. answer'[r] = "enrolled" => call'[r] = call[r]
  <2> SUFFICES ASSUME pc[r] = "idle" PROVE answer'[r] # "enrolled"
    BY <1>1 DEF Keeps
  <2> QED
    BY StepActs DEF Looks, Reactivated, Inserted, Saved
<1>3. \A o \in Request \ {r} : answer'[o] = answer[o] /\ call'[o] = call[o]
  BY <1>1 DEF Moves, Keeps
<1> QED
  BY <1>1, <1>2, <1>3 DEF Winners

(* The row of an uncontested pair after the reactivation.                  *)
LEMMA ReactivatedRow ==
  ASSUME TypeOK, NEW r \in Request, Good(r), Reactivated(r), call[r].pair \notin contested
  PROVE  LET p == call[r].pair IN
           row' = IF Exists(p) THEN [row EXCEPT ![p] = NewEnrollment] ELSE row
<1> DEFINE p == call[r].pair
<1>1. p \in Pair /\ row \in [Pair -> Row \cup {NoRow}]
  BY DEF TypeOK, Call
<1>2. memory[r] = NewEnrollment /\ (Exists(p) => reloaded[r] = row[p])
  BY DEF Reactivated, Good, Reopens
<1>3. Exists(p) => Updated(row[p], memory[r], reloaded[r]) = NewEnrollment
  BY <1>1, <1>2, UpdatedIsEntity, RowTypes DEF Exists
<1> QED
  BY <1>1, <1>3 DEF Reactivated

LEMMA SoundKept ==
  ASSUME TypeOK, NEW r \in Request, Good(r), RequestStep(r), NEW p \in Pair, Sound(p)
  PROVE  Sound(p)'
<1>1. /\ call[r] \in Call /\ call[r].pair \in Pair /\ call[r].progress \in Progress
      /\ row \in [Pair -> Row \cup {NoRow}] /\ acked \in [Pair -> 0 .. Full]
      /\ course' = course /\ contested \subseteq contested'
  BY StepKeeps, StepContests DEF TypeOK, Call, Keeps
<1>2. /\ answer'[r] # "enrolled" \/ call[r].pair # p => Winners(p)' = Winners(p)
  BY StepWins
<1>3. CASE Looks(r)
  <2>1. answer'[r] = "enrolled" /\ call[r].pair = p => Exists(p)
    BY <1>3 DEF Looks, Enrollment, Exists
  <2> QED
    BY <1>1, <1>2, <1>3, <2>1 DEF Looks, Sound, Exists, CourseOf
<1>4. CASE call[r].pair # p
  <2>1. row'[p] = row[p] /\ acked'[p] = acked[p]
    BY <1>1, <1>4, StepActs DEF Looks, Reactivated, Inserted, Saved
  <2> QED
    BY <1>1, <1>2, <1>4, <2>1 DEF Sound, Exists, CourseOf
<1>5. CASE call[r].pair = p /\ Reactivated(r)
  <2>1. /\ Exists(p) \/ CourseOf(p) = "deleted"
        /\ memory[r] \in Row /\ acked'[p] = 0
    BY <1>1, <1>5, RowTypes DEF Reactivated, Good, Reopens
  <2>2. Exists(p) => Exists(p)'
    <3>1. Exists(p) => Updated(row[p], memory[r], reloaded[r]) \in Row
      BY <1>1, <2>1, RowTypes DEF Exists
    <3> QED
      BY <1>1, <1>5, <3>1, NoRowAssumption DEF Reactivated, Exists
  <2>3. ~ Exists(p) => row' = row
    BY <1>5 DEF Reactivated
  <2>4. p \notin contested /\ Exists(p) => row'[p] = NewEnrollment
    BY <1>1, <1>5, ReactivatedRow
  <2>5. NewEnrollment.status = "active" /\ NewEnrollment.progress = 0 /\ Full # 0
    BY ProgressAssumption DEF NewEnrollment
  <2> QED
    BY <1>1, <2>1, <2>2, <2>3, <2>4, <2>5 DEF Sound, Exists, CourseOf
<1>6. CASE call[r].pair = p /\ Inserted(r)
  <2>1. row'[p] = NewEnrollment /\ acked'[p] = 0
    BY <1>1, <1>6 DEF Inserted, Sound
  <2>2. /\ NewEnrollment.status = "active" /\ NewEnrollment.progress = 0 /\ Full # 0
        /\ NewEnrollment # NoRow
    BY ProgressAssumption, RowTypes, NoRowAssumption DEF NewEnrollment
  <2> QED
    BY <1>1, <1>6, <2>1, <2>2 DEF Inserted, Sound, Exists, CourseOf
<1>7. CASE call[r].pair = p /\ Saved(r)
  <2> DEFINE e == Advanced(row[p], call[r].progress)
  <2>1. Exists(p) /\ row[p] \in Row /\ row[p].status = "active"
    BY <1>1, <1>7 DEF Saved, Good, Holds, Exists
  <2>2. /\ row'[p] = e /\ e \in Row /\ e # NoRow
        /\ acked'[p] \in {acked[p], Maximum(acked[p], e.progress)}
    BY <1>1, <1>7, <2>1, RowTypes, NoRowAssumption DEF Saved
  <2>3. e.progress >= row[p].progress
    BY <1>1, <2>1, AdvancedGrows
  <2>4. p \notin contested =>
          /\ e.status = "completed" <=> e.progress = Full
          /\ row[p].progress >= acked[p]
    BY <1>1, <2>1, AdvancedKeeps DEF Sound
  <2>5. p \notin contested => e.progress >= acked'[p]
    <3>1. /\ e.progress \in Nat /\ row[p].progress \in Nat /\ acked[p] \in Nat
      BY <1>1, <2>1, <2>2, ProgressAssumption DEF Row
    <3> HIDE DEF e
    <3> QED
      BY <2>2, <2>3, <2>4, <3>1 DEF Maximum
  <2> QED
    BY <1>1, <2>1, <2>2, <2>4, <2>5 DEF Sound, Exists, CourseOf
<1> QED
  BY <1>3, <1>4, <1>5, <1>6, <1>7, StepActs

(***************************************************************************)
(* Drops pay for grants                                                    *)
(***************************************************************************)
LEMMA OneReactivates ==
  ASSUME TypeOK, NEW r \in Request, RequestStep(r), NEW p \in Pair, Paid(p), p \notin contested',
         NEW q \in Request, NEW o \in Request, Reactivates(q, p)', Reactivates(o, p)'
  PROVE  q = o
<1>1. p \notin contested
  BY StepContests
<1>2. \A a \in Request \ {r} : Reactivates(a, p)' => Reactivates(a, p)
  BY StepMoves, StepKeeps DEF Moves, Keeps, Reactivates, TypeOK
<1>3. ASSUME Reactivates(r, p)', NEW a \in Request \ {r}, Reactivates(a, p) PROVE FALSE
  <2>1. call[r].pair = p /\ (pc[r] = "reload" \/ pc[r] = "dropped")
    BY <1>3, StepReopens DEF Reactivates
  <2>2. CASE pc[r] = "reload"
    BY <1>1, <1>3, <2>1, <2>2 DEF Paid, Reactivates
  <2>3. CASE pc[r] = "dropped"
    BY <1>3, <2>1, <2>3, StepReopens DEF Reactivates, Reactivating
  <2> QED
    BY <2>1, <2>2, <2>3
<1> QED
  BY <1>1, <1>2, <1>3 DEF Paid

LEMMA PaidKept ==
  ASSUME TypeOK, NEW r \in Request, Good(r), RequestStep(r), NEW p \in Pair, Sound(p), Paid(p),
         \A o \in Request : Good(o)
  PROVE  Paid(p)'
<1>1. /\ call[r] \in Call /\ call[r].pair \in Pair /\ call[r].progress \in Progress
      /\ row \in [Pair -> Row \cup {NoRow}] /\ drops[p] \in Nat
      /\ drops' = drops /\ contested \subseteq contested'
  <2>1. drops' = drops /\ contested \subseteq contested'
    BY StepKeeps, StepContests DEF Keeps
  <2> QED
    BY <2>1 DEF TypeOK, Call
<1>2. IsFiniteSet(Winners(p)) /\ Wins(p) \in Nat
  BY FS_CardinalityType DEF Paid, Wins
<1>3. /\ r \notin Winners(p)
      /\ Winners(p)' = IF answer'[r] = "enrolled" /\ call[r].pair = p
                         THEN Winners(p) \cup {r} ELSE Winners(p)
  BY StepWins
<1>4. /\ IsFiniteSet(Winners(p)')
      /\ Wins(p)' = IF answer'[r] = "enrolled" /\ call[r].pair = p THEN Wins(p) + 1 ELSE Wins(p)
  BY <1>2, <1>3, FS_AddElement DEF Wins
<1> SUFFICES ASSUME p \notin contested'
             PROVE  /\ Wins(p)' <= 1 + drops[p]
                    /\ Exists(p)' /\ row'[p].status = "dropped" => Wins(p)' <= drops[p]
                    /\ (\E o \in Request : Reactivates(o, p)') => Wins(p)' <= drops[p]
  BY <1>1, <1>4, OneReactivates DEF Paid
<1>5. /\ p \notin contested /\ Wins(p) <= 1 + drops[p]
      /\ Exists(p) /\ row[p].status = "dropped" => Wins(p) <= drops[p]
      /\ (\E o \in Request : Reactivates(o, p)) => Wins(p) <= drops[p]
      /\ \A q, o \in Request : Reactivates(q, p) /\ Reactivates(o, p) => q = o
  BY <1>1 DEF Paid
<1>6. \A o \in Request \ {r} : Reactivates(o, p)' => Reactivates(o, p)
  BY StepMoves, StepKeeps DEF Moves, Keeps, Reactivates, TypeOK
<1>7. CASE answer'[r] # "enrolled" \/ call[r].pair # p
  <2>1. Wins(p)' = Wins(p)
    BY <1>4, <1>7
  <2>2. Exists(p)' /\ row'[p].status = "dropped" => Exists(p) /\ row[p].status = "dropped"
    <3>1. CASE call[r].pair # p \/ Looks(r)
      BY <1>1, <3>1, StepActs DEF Looks, Reactivated, Inserted, Saved, Exists
    <3>2. CASE Reactivated(r) /\ call[r].pair = p
      BY <1>1, <1>5, <3>2, ReactivatedRow DEF NewEnrollment, Exists
    <3>3. CASE Inserted(r) /\ call[r].pair = p
      BY <1>1, <3>3 DEF Inserted, NewEnrollment
    <3>4. CASE Saved(r) /\ call[r].pair = p
      <4>1. Exists(p) /\ row[p].status = "active"
        BY <3>4 DEF Saved, Good, Holds
      <4>2. row'[p].status \in {"active", "completed"}
        BY <1>1, <3>4, <4>1 DEF Saved, Advanced
      <4> QED
        BY <4>2
    <3> QED
      BY <3>1, <3>2, <3>3, <3>4, StepActs
  <2>3. Reactivates(r, p)' =>
          Reactivates(r, p) \/ (Exists(p) /\ row[p].status = "dropped")
    BY StepReopens DEF Reactivates
  <2> QED
    BY <1>5, <1>6, <2>1, <2>2, <2>3
<1>8. CASE answer'[r] = "enrolled" /\ call[r].pair = p
  <2>1. Wins(p)' = Wins(p) + 1 /\ ~ Reactivates(r, p)'
    BY <1>4, <1>8, StepMoves DEF Moves, Good, Reactivates
  <2>2. CASE Looks(r)
    <3>1. "status" \in DOMAIN memory[r] /\ row[p].status = "dropped" /\ memory[r].status = "active"
      BY <1>5, <1>8, <2>2 DEF Looks, Good, Reopens, Enrollment, Exists, NewEnrollment
    <3>2. "status" \in Dirty(memory[r], row[p])
      BY <3>1 DEF Dirty
    <3> QED
      BY <1>8, <2>2, <3>2 DEF Looks, Enrollment
  <2>3. CASE Reactivated(r)
    <3>1. Reactivates(r, p)
      BY <1>8, <2>3 DEF Reactivated, Reactivates
    <3>2. Exists(p)' => row'[p].status = "active"
      BY <1>1, <1>5, <1>8, <2>3, ReactivatedRow DEF Exists, NewEnrollment
    <3>3. ~ \E o \in Request : Reactivates(o, p)'
      BY <1>5, <1>6, <2>1, <3>1
    <3> QED
      BY <1>1, <1>2, <1>5, <2>1, <3>1, <3>2, <3>3
  <2>4. CASE Inserted(r)
    <3>1. Wins(p) = 0
      BY <1>8, <2>4, FS_EmptySet DEF Inserted, Sound, Wins
    <3>2. row'[p].status = "active"
      BY <1>1, <1>8, <2>4 DEF Inserted, NewEnrollment
    <3>3. ~ \E o \in Request : Reactivates(o, p)'
      BY <1>6, <1>8, <2>1, <2>4 DEF Inserted, Good, Reopens, Reactivates
    <3> QED
      BY <1>1, <2>1, <3>1, <3>2, <3>3
  <2>5. ~ Saved(r)
    BY <1>8 DEF Saved
  <2> QED
    BY <2>2, <2>3, <2>4, <2>5, StepActs
<1> QED
  BY <1>7, <1>8

(***************************************************************************)
(* The courses, the operator and the crash                                 *)
(***************************************************************************)
(* Another course, a row that nobody holds.                                *)
LEMMA OtherKeeps ==
  ASSUME IInv, Other
  PROVE  (\A r \in Request : Good(r)') /\ (\A p \in Pair : Sound(p)' /\ Paid(p)')
<1>1. /\ call \in [Request -> Call] /\ \A r \in Request : call[r].pair \in Pair
      /\ \A p \in Pair : p[2] \in Course /\ p = <<p[1], p[2]>> /\ p[1] \in Student
      /\ row \in [Pair -> Row \cup {NoRow}] /\ drops \in [Pair -> Nat]
      /\ lock \in [Pair -> Request \cup {Nobody}] /\ Nobody \notin Request
      /\ course \in [Course -> {"draft", "published", "deleted"}]
  BY NobodyAssumption DEF IInv, TypeOK, Call, Pair
<1>2. ASSUME NEW c \in Course, PublishCourse(c)
      PROVE  (\A r \in Request : Good(r)') /\ (\A p \in Pair : Sound(p)' /\ Paid(p)')
  <2>1. \A p \in Pair : (CourseOf(p) = "deleted" <=> CourseOf(p)' = "deleted")
    BY <1>1, <1>2 DEF PublishCourse, CourseOf
  <2>2. UNCHANGED <<row, lock, pc, call, memory, reloaded, answer, acked, drops, contested>>
    BY <1>2 DEF PublishCourse, history
  <2>3. \A r \in Request : Good(r)'
    BY <1>1, <2>1, <2>2 DEF IInv, Good, Holds, Reopens, Exists
  <2>4. \A p \in Pair : Sound(p)' /\ Paid(p)'
    BY <2>1, <2>2 DEF IInv, Sound, Paid, Wins, Winners, Reactivates, Exists
  <2> QED
    BY <2>3, <2>4
<1>3. ASSUME NEW c \in Course, RemoveCourse(c)
      PROVE  (\A r \in Request : Good(r)') /\ (\A p \in Pair : Sound(p)' /\ Paid(p)')
  <2>1. UNCHANGED <<lock, pc, call, memory, reloaded, answer, acked, drops, contested>>
    BY <1>3 DEF RemoveCourse, history
  <2>2. \A p \in Pair :
          IF p[2] = c THEN row'[p] = NoRow /\ CourseOf(p)' = "deleted" /\ lock[p] = Nobody
                      ELSE row'[p] = row[p] /\ CourseOf(p)' = CourseOf(p)
    BY <1>1, <1>3 DEF RemoveCourse, CourseOf
  <2>3. \A r \in Request : Good(r)'
    <3> SUFFICES ASSUME NEW r \in Request PROVE Good(r)'
      OBVIOUS
    <3>1. Good(r)
      BY DEF IInv
    <3> QED
      BY <1>1, <2>1, <2>2, <3>1 DEF Good, Holds, Reopens, Exists
  <2>4. \A p \in Pair : Sound(p)' /\ Paid(p)'
    BY <2>1, <2>2 DEF IInv, Sound, Paid, Wins, Winners, Reactivates, Exists
  <2> QED
    BY <2>3, <2>4
<1>4. ASSUME NEW q \in Pair, OperatorDrops(q)
      PROVE  (\A r \in Request : Good(r)') /\ (\A p \in Pair : Sound(p)' /\ Paid(p)')
  <2>1. UNCHANGED <<course, lock, pc, call, memory, reloaded, answer, acked, contested>>
    BY <1>4 DEF OperatorDrops
  <2>2. row[q] \in Row /\ row[q].status = "active" /\ lock[q] = Nobody
    BY <1>1, <1>4 DEF OperatorDrops, Exists
  <2>3. /\ row'[q] \in Row /\ row'[q] # NoRow /\ row'[q].status = "dropped"
        /\ row'[q].progress = row[q].progress /\ drops'[q] = drops[q] + 1
        /\ \A p \in Pair \ {q} : row'[p] = row[p] /\ drops'[p] = drops[p]
    <3>1. /\ [row[q] EXCEPT !.status = "dropped"] \in Row
          /\ [row[q] EXCEPT !.status = "dropped"].status = "dropped"
          /\ [row[q] EXCEPT !.status = "dropped"].progress = row[q].progress
      BY <2>2 DEF Row
    <3> QED
      BY <1>1, <1>4, <3>1, NoRowAssumption DEF OperatorDrops
  <2>4. \A r \in Request : Good(r)'
    <3> SUFFICES ASSUME NEW r \in Request PROVE Good(r)'
      OBVIOUS
    <3>1. Good(r)
      BY DEF IInv
    <3>2. CASE call[r].pair # q
      BY <1>1, <2>1, <2>3, <3>1, <3>2 DEF Good, Holds, Reopens, Exists, CourseOf
    <3>3. CASE call[r].pair = q
      <4>1. pc[r] # "save"
        BY <1>1, <2>2, <3>1, <3>3 DEF Good, Holds
      <4>2. pc[r] \in {"reload", "update"} => q \in contested
        BY <1>4, <2>2, <3>1, <3>3 DEF Good, Reopens, OperatorDrops
      <4> QED
        BY <2>1, <2>3, <3>1, <3>3, <4>1, <4>2 DEF Good, Holds, Reopens, Exists
    <3> QED
      BY <3>2, <3>3
  <2>5. \A p \in Pair : Sound(p)'
    <3>1. \A p \in Pair \ {q} : Sound(p)'
      BY <2>1, <2>3 DEF IInv, Sound, Winners, Exists, CourseOf
    <3>2. Sound(q)'
      BY <1>4, <2>1, <2>2, <2>3 DEF IInv, Sound, OperatorDrops, Exists, CourseOf
    <3> QED
      BY <3>1, <3>2
  <2>6. \A p \in Pair : Paid(p)'
    <3> SUFFICES ASSUME NEW p \in Pair PROVE Paid(p)'
      OBVIOUS
    <3>1. Paid(p) /\ Winners(p)' = Winners(p) /\ Wins(p)' = Wins(p)
      BY <2>1 DEF IInv, Winners, Wins
    <3>2. Wins(p) \in Nat
      BY <3>1, FS_CardinalityType DEF Paid, Wins
    <3>3. \A r \in Request : Reactivates(r, p)' <=> Reactivates(r, p)
      BY <2>1 DEF Reactivates
    <3>4. CASE p # q
      BY <2>1, <2>3, <3>1, <3>3, <3>4 DEF Paid, Exists
    <3>5. CASE p = q
      BY <1>1, <2>1, <2>3, <3>1, <3>2, <3>3, <3>5 DEF Paid
    <3> QED
      BY <3>4, <3>5
  <2> QED
    BY <2>4, <2>5, <2>6
<1> QED
  BY <1>2, <1>3, <1>4 DEF Other

LEMMA CrashKeeps ==
  ASSUME IInv, Crash
  PROVE  (\A r \in Request : Good(r)') /\ (\A p \in Pair : Sound(p)' /\ Paid(p)')
<1>1. /\ UNCHANGED <<course, row, call, memory, reloaded, acked, drops, contested>>
      /\ \A r \in Request : pc'[r] \in {"idle", "done"} /\ (pc'[r] # "done" => pc[r] = pc'[r])
      /\ \A r \in Request : IF pc[r] \in {"idle", "done"} THEN answer'[r] = answer[r]
                                                          ELSE answer'[r] = "lost"
  BY DEF Crash, InFlight, history
<1>2. \A r \in Request : Good(r)'
  BY <1>1 DEF IInv, Good, Holds, Reopens
<1>3. \A p \in Pair : Winners(p)' = Winners(p)
  BY <1>1 DEF IInv, Good, Winners
<1>4. \A p \in Pair, r \in Request : ~ Reactivates(r, p)'
  BY <1>1 DEF Reactivates
<1> QED
  BY <1>1, <1>2, <1>3, <1>4 DEF IInv, Sound, Paid, Wins, Exists, CourseOf

(***************************************************************************)
(* The theorems                                                            *)
(***************************************************************************)
LEMMA InitIInv == Init => IInv
<1> SUFFICES ASSUME Init PROVE IInv
  OBVIOUS
<1>1. TypeOK
  BY AnyCallIsCall, ProgressAssumption DEF Init, TypeOK
<1>2. \A p \in Pair : Winners(p) = {} /\ ~ Exists(p)
  BY DEF Init, Winners, Exists
<1>3. \A p \in Pair : IsFiniteSet(Winners(p)) /\ Wins(p) = 0
  BY <1>2, FS_EmptySet DEF Wins
<1>4. \A p \in Pair : Sound(p)
  BY <1>2 DEF Init, Sound
<1>5. \A p \in Pair : Paid(p)
  BY <1>2, <1>3 DEF Init, Paid, Reactivates
<1> QED
  BY <1>1, <1>4, <1>5 DEF Init, IInv, Good, Holds, Reopens

LEMMA NextIInv == IInv /\ [Next]_vars => IInv'
<1> SUFFICES ASSUME IInv, [Next]_vars PROVE IInv'
  OBVIOUS
<1>1. TypeOK'
  BY TypesKept DEF IInv
<1>2. ASSUME NEW r \in Request, RequestStep(r)
      PROVE  (\A o \in Request : Good(o)') /\ (\A p \in Pair : Sound(p)' /\ Paid(p)')
  <2>1. \A o \in Request : call[o].pair \in Pair
    BY DEF IInv, TypeOK, Call
  <2>2. \A o \in Request : Good(o)'
    BY <1>2, <2>1, ActorGood, OthersGood DEF IInv
  <2>3. \A p \in Pair : Sound(p)' /\ Paid(p)'
    BY <1>2, SoundKept, PaidKept DEF IInv
  <2> QED
    BY <2>2, <2>3
<1>3. ASSUME UNCHANGED vars
      PROVE  (\A o \in Request : Good(o)') /\ (\A p \in Pair : Sound(p)' /\ Paid(p)')
  <2>1. \A o \in Request : Good(o)'
    BY <1>3 DEF IInv, Good, Holds, Reopens, Exists, CourseOf, vars, history
  <2>2. \A p \in Pair : Winners(p)' = Winners(p)
    BY <1>3 DEF Winners, vars
  <2>3. \A p \in Pair : Sound(p)'
    BY <1>3, <2>2 DEF IInv, Sound, Exists, CourseOf, vars, history
  <2>4. \A p \in Pair : Paid(p)'
    BY <1>3, <2>2 DEF IInv, Paid, Wins, Reactivates, Exists, vars, history
  <2> QED
    BY <2>1, <2>3, <2>4
<1> QED
  BY <1>1, <1>2, <1>3, OtherKeeps, CrashKeeps, Steps DEF IInv

(* The inductive invariant holds in every state.                           *)
THEOREM Invariance == Spec => []IInv
  BY InitIInv, NextIInv, PTL DEF Spec

(* Every variable has its type in every state.                             *)
THEOREM TypeCorrect == Spec => []TypeOK
<1>1. IInv => TypeOK
  BY DEF IInv
<1> QED
  BY <1>1, Invariance, PTL

(* COMPLETED and 100 go together, whatever interleaves                     *)
(* (enrollments.service.ts:112-119, 199-201).                              *)
THEOREM CompletionIsFull == Spec => []CompletedIffFull
<1>1. IInv => CompletedIffFull
  BY DEF IInv, Sound, CompletedIffFull
<1> QED
  BY <1>1, Invariance, PTL

(* A progress that was answered with 200 is in the row                     *)
(* (enrollments.service.ts:96-119).                                        *)
THEOREM ProgressIsKept == Spec => []AckedProgressKept
<1>1. IInv => AckedProgressKept
  BY DEF IInv, Sound, AckedProgressKept
<1> QED
  BY <1>1, Invariance, PTL

(* One request to enroll wins, and one more for each drop                  *)
(* (enrollments.service.ts:154-215).                                       *)
THEOREM OneWins == Spec => []OneEnrollmentWins
<1>1. IInv => OneEnrollmentWins
  BY DEF IInv, Paid, Wins, Winners, OneEnrollmentWins
<1> QED
  BY <1>1, Invariance, PTL

(* A step never takes progress back, save for a reactivation               *)
(* (enrollments.service.ts:96-119, 191-201).                               *)
THEOREM ProgressGrows == Spec => ProgressNeverDecreases
<1> DEFINE Grows == \A p \in Pair \ contested :
                      Exists(p) /\ Exists(p)' /\ row[p].status # "dropped" =>
                        row'[p].progress >= row[p].progress
<1>1. IInv /\ Next => Grows
  <2> SUFFICES ASSUME IInv, Next, NEW p \in Pair \ contested,
                      Exists(p), Exists(p)', row[p].status # "dropped"
               PROVE  row'[p].progress >= row[p].progress
    OBVIOUS
  <2>1. row \in [Pair -> Row \cup {NoRow}] /\ row[p] \in Row /\ row[p].progress \in Nat
    BY ProgressAssumption DEF IInv, TypeOK, Row, Exists
  <2>2. ASSUME NEW r \in Request, RequestStep(r) PROVE row'[p].progress >= row[p].progress
    <3>1. Looks(r) \/ Reactivated(r) \/ Inserted(r) \/ Saved(r)
      BY <2>2, StepActs DEF IInv
    <3>2. call[r].pair \in Pair /\ call[r].progress \in Progress /\ Good(r)
      BY DEF IInv, TypeOK, Call
    <3>3. CASE Looks(r) \/ Inserted(r) \/ call[r].pair # p
      <4>1. row'[p] = row[p]
        BY <2>1, <3>1, <3>2, <3>3 DEF Looks, Inserted, Reactivated, Saved
      <4> QED
        BY <2>1, <4>1
    <3>4. ~ (Reactivated(r) /\ call[r].pair = p)
      BY <3>2 DEF Reactivated, Good, Reopens
    <3>5. CASE Saved(r) /\ call[r].pair = p
      BY <2>1, <3>2, <3>5, AdvancedGrows DEF Saved
    <3> QED
      BY <3>1, <3>3, <3>4, <3>5
  <2>3. CASE \E c \in Course : PublishCourse(c) \/ RemoveCourse(c)
    <3>1. row'[p] = row[p]
      BY <2>1, <2>3 DEF PublishCourse, RemoveCourse, Exists
    <3> QED
      BY <2>1, <3>1
  <2>4. ASSUME NEW q \in Pair, OperatorDrops(q) PROVE row'[p].progress >= row[p].progress
    <3>1. row'[p].progress = row[p].progress
      BY <2>1, <2>4 DEF OperatorDrops, Row
    <3> QED
      BY <2>1, <3>1
  <2>5. CASE Crash
    BY <2>1, <2>5 DEF Crash
  <2> QED
    BY <2>2, <2>3, <2>4, <2>5, Steps DEF Other
<1>2. IInv /\ [Next]_vars => [Grows]_vars
  BY <1>1
<1>3. ProgressNeverDecreases <=> [][Grows]_vars
  BY PTL DEF ProgressNeverDecreases
<1> QED
  BY <1>2, <1>3, Invariance, PTL DEF Spec

(***************************************************************************)
(* The book                                                                *)
(***************************************************************************)
Replies == [r \in Request |-> Reply(r)]
Gone == {c \in Course : course[c] = "deleted"}

(* How the place and the answer of a request are told to its caller.       *)
LEMMA SaidIs ==
  /\ \A k \in {"error", "lost"} : Said(k) = "unknown"
  /\ \A k \in {"notFound", "selfEnrollment", "invalidReference"} : Said(k) = "refused"
  /\ \A k \in {"pending", "enrolled", "updated", "conflict", "notActive"} : Said(k) = k
  BY DEF Said

LEMMA ReplyIs ==
  ASSUME NEW r \in Request
  PROVE  /\ pc[r] = "idle" => Reply(r) = "none"
         /\ pc[r] \in {"check", "dropped", "insert", "reload", "update"} => Reply(r) = "enrolling"
         /\ pc[r] \in {"lock", "save"} => Reply(r) = "reporting"
         /\ pc[r] = "rollback" => Reply(r) = "declined"
         /\ pc[r] = "done" => Reply(r) = Said(answer[r])
  BY DEF Reply

LEMMA ReplyWillBe ==
  ASSUME NEW r \in Request
  PROVE  /\ pc'[r] \in {"check", "dropped", "insert", "reload", "update"} => Reply(r)' = "enrolling"
         /\ pc'[r] \in {"lock", "save"} => Reply(r)' = "reporting"
         /\ pc'[r] = "rollback" => Reply(r)' = "declined"
         /\ pc'[r] = "done" => Reply(r)' = Said(answer'[r])
  BY DEF Reply

(* One step is told to one caller.                                         *)
LEMMA OneIsTold ==
  ASSUME TypeOK, NEW r \in Request, Moves(r)
  PROVE  Replies' = [Replies EXCEPT ![r] = Reply(r)']
<1>1. \A o \in Request \ {r} : pc'[o] = pc[o] /\ answer'[o] = answer[o]
  BY DEF TypeOK, Moves
<1>2. \A o \in Request \ {r} : Reply(o)' = Reply(o)
  BY <1>1 DEF Reply
<1> QED
  BY <1>2 DEF Replies

LEMMA Told ==
  ASSUME TypeOK, NEW r \in Request, Moves(r), NEW from, NEW answers,
         Reply(r) = from, Reply(r)' \in answers
  PROVE  Book!Tell(r, from, answers)
<1>1. Replies[r] = from /\ Replies' = [Replies EXCEPT ![r] = Reply(r)']
  BY OneIsTold DEF Replies
<1> QED
  BY <1>1 DEF Book!Tell, Replies

(* Where a step of r leads.                                                *)
LEMMA Goes ==
  ASSUME TypeOK, NEW r \in Request, NEW s, Go(r, s)
  PROVE  pc'[r] = s /\ answer'[r] = answer[r]
  BY DEF TypeOK, Go

LEMMA Finishes ==
  ASSUME TypeOK, NEW r \in Request, NEW k, Finish(r, k)
  PROVE  pc'[r] = "done" /\ answer'[r] = k
  BY DEF TypeOK, Finish

(* The pages follow the rows.                                              *)
LEMMA PagesAre ==
  ASSUME NEW p \in Pair
  PROVE  /\ p \in DOMAIN Pages <=> p \notin contested /\ Exists(p)
         /\ p \in DOMAIN Pages => Pages[p] = row[p]
  BY DEF Pages

LEMMA PagesStay ==
  ASSUME contested' = contested, \A q \in Pair \ contested : row'[q] = row[q]
  PROVE  Pages' = Pages
<1>1. {q \in Pair \ contested : Exists(q)}' = {q \in Pair \ contested : Exists(q)}
  BY DEF Exists
<1> QED
  BY <1>1 DEF Pages

LEMMA PagePut ==
  ASSUME TypeOK, NEW p \in Pair \ contested, NEW e \in Row, contested' = contested,
         row' = [row EXCEPT ![p] = e]
  PROVE  Pages' = Book!With(p, e)
<1>1. \A q \in Pair : row'[q] = IF q = p THEN e ELSE row[q]
  BY DEF TypeOK
<1>2. {q \in Pair \ contested : Exists(q)}' = DOMAIN Pages \cup {p}
  BY <1>1, NoRowAssumption DEF Pages, Exists
<1>3. Pages' = [q \in DOMAIN Pages \cup {p} |-> row'[q]]
  BY <1>2 DEF Pages
<1>4. \A q \in DOMAIN Pages \cup {p} : row'[q] = IF q = p THEN e ELSE Pages[q]
  BY <1>1 DEF Pages
<1> QED
  BY <1>3, <1>4 DEF Book!With

LEMMA PagesTaken ==
  ASSUME NEW S \in SUBSET Pair,
         {q \in Pair \ contested : Exists(q)}' = DOMAIN Pages \ S,
         \A q \in DOMAIN Pages \ S : row'[q] = row[q]
  PROVE  Pages' = Book!Without(S)
<1>1. Pages' = [q \in DOMAIN Pages \ S |-> row'[q]]
  BY DEF Pages
<1>2. \A q \in DOMAIN Pages \ S : row'[q] = Pages[q]
  BY DEF Pages
<1> QED
  BY <1>1, <1>2 DEF Book!Without

(* A step of a request is a step of its caller, or is not seen at all.     *)
Served(r) ==
  /\ Reply(r)' # Reply(r)
  /\ \/ Book!Begin(r)
     \/ Book!Serve(r, call[r].pair)
     \/ Book!Muddle(r, call[r].pair)

Unseen(r) == Reply(r)' = Reply(r) /\ Pages' = Pages /\ call' = call /\ contested' = contested

LEMMA ServedIsStep ==
  ASSUME TypeOK, NEW r \in Request, Moves(r), course' = course, Served(r) \/ Unseen(r)
  PROVE  [Book!Next]_Book!bookVars
<1>1. CASE Served(r)
  <2>1. Replies'[r] # Replies[r]
    BY <1>1 DEF Served, Replies
  <2> QED
    BY <1>1, <2>1 DEF Served, Book!Next, Replies
<1>2. CASE Unseen(r)
  <2>1. Replies' = Replies
    BY <1>2, OneIsTold DEF Unseen, Replies
  <2>2. Gone' = Gone
    BY DEF Gone
  <2> QED
    BY <1>2, <2>1, <2>2 DEF Unseen, Book!bookVars, Replies, Gone
<1> QED
  BY <1>1, <1>2

LEMMA ArrivalBegins ==
  ASSUME TypeOK, NEW r \in Request, Arrival(r), Moves(r), Keeps(r)
  PROVE  Served(r)
<1>1. pc[r] = "idle" /\ row' = row /\ contested' = contested /\ course' = course
  BY DEF Arrival, FindCourse, BeginProgress, history
<1>2. \/ Go(r, "check") \/ Go(r, "lock") \/ Finish(r, "notFound") \/ Finish(r, "selfEnrollment")
  BY DEF Arrival, FindCourse, BeginProgress
<1>3. Reply(r)' \in {"enrolling", "reporting", "refused"}
  BY <1>2, Goes, Finishes, ReplyWillBe, SaidIs
<1>4. Reply(r) = "none"
  BY <1>1, ReplyIs
<1>5. Book!Tell(r, "none", Book!Begun)
  BY <1>3, <1>4, Told DEF Book!Begun
<1>6. Pages' = Pages
  BY <1>1, PagesStay
<1>7. \E q \in Call : call' = [call EXCEPT ![r] = q]
  <2>1. call'[r] \in Call /\ \A o \in Request \ {r} : call'[o] = call[o]
    BY DEF Keeps
  <2>2. call \in [Request -> Call] /\ call' \in [Request -> Call]
    BY DEF TypeOK, Keeps
  <2>3. call' = [call EXCEPT ![r] = call'[r]]
    BY <2>1, <2>2
  <2> QED
    BY <2>1, <2>3
<1>8. Gone' = Gone
  BY <1>1 DEF Gone
<1> QED
  BY <1>1, <1>3, <1>4, <1>5, <1>6, <1>7, <1>8 DEF Served, Book!Begin, Gone

(***************************************************************************)
(* A pair in dispute: any answer will do.                                  *)
(***************************************************************************)
(* A request that has arrived stays where it is, or it is told something.  *)
LEMMA StepTells ==
  ASSUME TypeOK, NEW r \in Request, RequestStep(r), ~ Arrival(r)
  PROVE  /\ Reply(r) \in Book!Waiting
         /\ Reply(r)' \in {Reply(r), "enrolled", "updated", "conflict", "refused",
                           "declined", "notActive", "unknown"}
<1>1. pc[r] \in Step \ {"idle", "done"}
  BY DEF RequestStep, Handle, CheckExisting, FindDropped, Reload, UpdateDropped, InsertEnrollment,
       LockRow, SaveProgress, Rollback, CallFails, InsertAmbiguous, UpdateAmbiguous, Reactivate,
       CommitAmbiguous, TypeOK
<1>2. Reply(r) \in Book!Waiting
  BY <1>1, ReplyIs DEF Book!Waiting
<1>3. \/ pc[r] \in {"check", "dropped", "reload"} /\ \E s \in {"dropped", "reload", "insert", "update"} : Go(r, s)
      \/ pc[r] = "lock" /\ \E s \in {"save", "rollback"} : Go(r, s)
      \/ \E k \in Kind \ {"pending"} : Finish(r, k)
  BY DEF RequestStep, Handle, CheckExisting, FindDropped, Reload, UpdateDropped, InsertEnrollment,
       LockRow, SaveProgress, Rollback, CallFails, InsertAmbiguous, UpdateAmbiguous, Reactivate,
       CommitAmbiguous
<1>4. ASSUME NEW k \in Kind \ {"pending"}, Finish(r, k)
      PROVE  Reply(r)' \in {"enrolled", "updated", "conflict", "refused", "notActive", "unknown"}
  BY <1>4, Finishes, ReplyWillBe, SaidIs
<1> QED
  BY <1>2, <1>3, <1>4, Goes, ReplyIs, ReplyWillBe

LEMMA DisputedServes ==
  ASSUME TypeOK, NEW r \in Request, Good(r), RequestStep(r), ~ Arrival(r), Moves(r), Keeps(r),
         call[r].pair \in contested
  PROVE  Served(r) \/ Unseen(r)
<1> DEFINE p == call[r].pair
<1>1. contested' = contested /\ call' = call /\ course' = course
  <2>1. contested' = contested
    <3>1. contested \cup {p} = contested
      OBVIOUS
    <3> QED
      BY <3>1, StepContests
  <2>2. pc[r] # "idle"
    BY StepTells, ReplyIs DEF Book!Waiting
  <2> QED
    BY <2>1, <2>2 DEF Keeps
<1>2. \A q \in Pair \ contested : row'[q] = row[q]
  BY StepActs DEF Looks, Reactivated, Inserted, Saved, TypeOK
<1>3. Pages' = Pages /\ Gone' = Gone
  BY <1>1, <1>2, PagesStay DEF Gone
<1>4. CASE Reply(r)' = Reply(r)
  BY <1>1, <1>3, <1>4 DEF Unseen
<1>5. CASE Reply(r)' # Reply(r)
  <2>1. Book!Tell(r, Reply(r), {"enrolled", "updated", "conflict", "refused", "declined",
                               "notActive", "unknown"})
    BY <1>5, StepTells, Told
  <2>2. Replies[r] = Reply(r)
    BY DEF Replies
  <2>3. Book!Muddle(r, p)
    BY <1>1, <1>3, <2>1, <2>2, StepTells DEF Book!Muddle, Replies, Gone
  <2> QED
    BY <1>5, <2>3 DEF Served
<1> QED
  BY <1>4, <1>5

(***************************************************************************)
(* A pair that is not in dispute                                           *)
(***************************************************************************)
(* What such a step leaves alone.                                          *)
Calm(r) ==
  /\ TypeOK /\ Good(r) /\ Moves(r)
  /\ call[r].pair \notin contested
  /\ contested' = contested /\ call' = call /\ course' = course

(* Answers without a write.                                                *)
LEMMA Returns ==
  ASSUME NEW r \in Request, Calm(r), row' = row,
         LET p == call[r].pair IN
           \/ Reply(r) = "enrolling" /\ Reply(r)' = "conflict" /\ Exists(p)
           \/ Reply(r) = "enrolling" /\ Reply(r)' \in {"refused", "enrolled"} /\ CourseOf(p) = "deleted"
           \/ Reply(r) = "reporting" /\ Reply(r)' = "refused" /\ ~ Exists(p)
           \/ Reply(r) = "reporting" /\ Reply(r)' = "declined" /\ Exists(p) /\ row[p].status # "active"
           \/ Reply(r) = "declined" /\ Reply(r)' = "notActive"
           \/ Reply(r) \in Book!Waiting /\ Reply(r)' = "unknown"
  PROVE  Served(r)
<1> DEFINE p == call[r].pair
<1>1. p \in Pair /\ p[2] \in Course /\ TypeOK /\ Moves(r) /\ p \notin contested
  BY DEF Calm, TypeOK, Call, Pair
<1>2. Pages' = Pages /\ Gone' = Gone /\ contested' = contested /\ call' = call
  BY PagesStay DEF Calm, Gone
<1>3. /\ p \in DOMAIN Pages <=> Exists(p)
      /\ p \in DOMAIN Pages => Pages[p] = row[p]
  BY <1>1, PagesAre
<1>4. CourseOf(p) = "deleted" => p[2] \in Gone
  BY <1>1 DEF Gone, CourseOf
<1>5. \/ Book!Tell(r, "enrolling", {"conflict"}) /\ p \in DOMAIN Pages
      \/ Book!Tell(r, "enrolling", {"refused", "enrolled"}) /\ p[2] \in Gone
      \/ Book!Tell(r, "reporting", {"refused"}) /\ p \notin DOMAIN Pages
      \/ Book!Tell(r, "reporting", {"declined"}) /\ p \in DOMAIN Pages /\ Pages[p].status # "active"
      \/ Book!Tell(r, "declined", {"notActive"})
      \/ Reply(r) \in Book!Waiting /\ Book!Tell(r, Reply(r), {"unknown"})
  BY <1>1, <1>3, <1>4, Told
<1>6. Replies[r] = Reply(r)
  BY DEF Replies
<1>7. Book!Return(r, p)
  BY <1>2, <1>5, <1>6 DEF Book!Return, Replies, Gone
<1>8. Book!Serve(r, p)
  BY <1>1, <1>2, <1>7 DEF Book!Serve, Gone
<1>9. Reply(r)' # Reply(r)
  BY DEF Book!Waiting
<1> QED
  BY <1>8, <1>9 DEF Served

LEMMA Enrolls ==
  ASSUME NEW r \in Request, Calm(r), pc[r] = "insert",
         ~ Exists(call[r].pair), CourseOf(call[r].pair) # "deleted",
         row' = [row EXCEPT ![call[r].pair] = NewEnrollment],
         Finish(r, "enrolled") \/ Finish(r, "error")
  PROVE  Served(r)
<1> DEFINE p == call[r].pair
<1>1. p \in Pair \ contested /\ TypeOK /\ Moves(r)
  BY DEF Calm, TypeOK, Call
<1>2. Reply(r) = "enrolling" /\ Reply(r)' \in {"enrolled", "unknown"}
  BY <1>1, Finishes, ReplyIs, ReplyWillBe, SaidIs
<1>3. Book!Tell(r, "enrolling", {"enrolled", "unknown"})
  BY <1>1, <1>2, Told
<1>4. Pages' = Book!With(p, NewEnrollment)
  BY <1>1, PagePut, RowTypes DEF Calm
<1>5. Book!NewPage = NewEnrollment
  BY DEF Book!NewPage, NewEnrollment
<1>6. p \notin DOMAIN Pages /\ p[2] \notin Gone
  BY <1>1, PagesAre DEF Gone, CourseOf
<1>7. Book!Enroll(r, p)
  BY <1>3, <1>4, <1>5, <1>6 DEF Book!Enroll, Gone
<1>8. Gone' = Gone
  BY DEF Calm, Gone
<1>9. Book!Serve(r, p)
  BY <1>1, <1>7, <1>8 DEF Book!Serve, Calm, Gone
<1> QED
  BY <1>2, <1>9 DEF Served

LEMMA Reinstates ==
  ASSUME NEW r \in Request, Calm(r), UpdateDropped(r) \/ UpdateAmbiguous(r)
  PROVE  Served(r)
<1> DEFINE p == call[r].pair
<1>1. p \in Pair \ contested /\ TypeOK /\ Moves(r) /\ Good(r)
  BY DEF Calm, TypeOK, Call
<1>2. Reply(r) = "enrolling" /\ Reply(r)' \in {"enrolled", "unknown"}
  BY <1>1, Finishes, ReplyIs, ReplyWillBe, SaidIs DEF UpdateDropped, UpdateAmbiguous, Reactivate
<1>3. Reactivated(r) /\ pc[r] = "update"
  BY DEF UpdateDropped, UpdateAmbiguous, Reactivate, Write, Reactivated
<1>4. CASE ~ Exists(p)
  <2>1. CourseOf(p) = "deleted"
    BY <1>1, <1>3, <1>4 DEF Good, Reopens
  <2>2. row' = row
    BY <1>3, <1>4 DEF Reactivated
  <2> QED
    BY <1>2, <2>1, <2>2, Returns DEF Book!Waiting
<1>5. CASE Exists(p)
  <2>1. row[p].status = "dropped"
    BY <1>1, <1>3, <1>5 DEF Good, Reopens
  <2>2. row' = [row EXCEPT ![p] = NewEnrollment]
    BY <1>1, <1>3, <1>5, ReactivatedRow
  <2>3. Pages' = Book!With(p, NewEnrollment)
    BY <1>1, <2>2, PagePut, RowTypes DEF Calm
  <2>4. Book!NewPage = NewEnrollment
    BY DEF Book!NewPage, NewEnrollment
  <2>5. p \in DOMAIN Pages /\ Pages[p].status = "dropped"
    BY <1>1, <1>5, <2>1, PagesAre
  <2>6. Book!Tell(r, "enrolling", {"enrolled", "unknown"})
    BY <1>1, <1>2, Told
  <2>7. Book!Reinstate(r, p)
    BY <2>3, <2>4, <2>5, <2>6 DEF Book!Reinstate
  <2>8. Gone' = Gone
    BY DEF Calm, Gone
  <2>9. Book!Serve(r, p)
    BY <1>1, <2>7, <2>8 DEF Book!Serve, Calm, Gone
  <2> QED
    BY <1>2, <2>9 DEF Served
<1> QED
  BY <1>4, <1>5

LEMMA Reports ==
  ASSUME NEW r \in Request, Calm(r), SaveProgress(r) \/ CommitAmbiguous(r)
  PROVE  Served(r)
<1> DEFINE p == call[r].pair
           v == call[r].progress
           next == IF v > row[p].progress THEN v ELSE row[p].progress
           page == [status |-> IF next = Full THEN "completed" ELSE "active", progress |-> next]
<1>1. p \in Pair \ contested /\ TypeOK /\ Moves(r) /\ Good(r) /\ v \in Progress
  BY DEF Calm, TypeOK, Call
<1>2. pc[r] = "save" /\ (Finish(r, "updated") \/ Finish(r, "error"))
  BY DEF SaveProgress, CommitAmbiguous
<1>3. Reply(r) = "reporting" /\ Reply(r)' \in {"updated", "unknown"}
  BY <1>1, <1>2, Finishes, ReplyIs, ReplyWillBe, SaidIs
<1>4. Exists(p) /\ row[p] \in Row /\ row[p].status = "active"
  BY <1>1, <1>2 DEF Good, Holds, Exists, TypeOK
<1>5. row' = [row EXCEPT ![p] = Advanced(row[p], v)]
  <2>1. memory[r] = Advanced(row[p], v) /\ memory[r] \in Row
    BY <1>1, <1>2, <1>4, RowTypes DEF Good, Holds
  <2>2. row' = [row EXCEPT ![p] = Updated(@, memory[r], row[p])]
    BY <1>4 DEF SaveProgress, CommitAmbiguous, Commit, Write, Enrollment
  <2>3. Updated(row[p], memory[r], row[p]) = memory[r]
    BY <1>4, <2>1, UpdatedIsEntity
  <2> QED
    BY <2>1, <2>2, <2>3
<1>6. Advanced(row[p], v) = page
  <2>1. row[p].progress \in 0 .. Full /\ v \in 0 .. Full /\ Full \in Nat
    <3> HIDE DEF v
    <3> QED
      BY <1>1, <1>4, ProgressAssumption DEF Row
  <2>2. Maximum(row[p].progress, v) = next
    BY <2>1 DEF Maximum
  <2> QED
    BY <1>4, <2>2 DEF Advanced
<1>7. Advanced(row[p], v) \in Row
  BY <1>1, <1>4, RowTypes
<1>8. Pages' = Book!With(p, page)
  BY <1>1, <1>5, <1>6, <1>7, PagePut DEF Calm
<1>9. p \in DOMAIN Pages /\ Pages[p] = row[p]
  BY <1>1, <1>4, PagesAre
<1>10. Book!Tell(r, "reporting", {"updated", "unknown"})
  BY <1>1, <1>3, Told
<1>11. Book!Report(r, p)
  BY <1>4, <1>8, <1>9, <1>10 DEF Book!Report
<1>12. Gone' = Gone
  BY DEF Calm, Gone
<1>13. Book!Serve(r, p)
  BY <1>1, <1>11, <1>12 DEF Book!Serve, Calm, Gone
<1> QED
  BY <1>3, <1>13 DEF Served

LEMMA HandleServes ==
  ASSUME NEW r \in Request, Calm(r), Handle(r), \A o \in Request : Good(o), Keeps(r)
  PROVE  Served(r) \/ Unseen(r)
<1> DEFINE p == call[r].pair
<1>1. TypeOK /\ Moves(r) /\ Good(r) /\ p \in Pair /\ p \notin contested
      /\ call' = call /\ contested' = contested
  BY DEF Calm, TypeOK, Call
<1>2. row' = row => Pages' = Pages
  BY <1>1, PagesStay
<1>3. CASE CheckExisting(r)
  <2>1. pc[r] = "check" /\ row' = row
    BY <1>3 DEF CheckExisting
  <2>2. CASE Blocks(p) /\ Finish(r, "conflict")
    <3>1. Reply(r) = "enrolling" /\ Reply(r)' = "conflict"
      BY <1>1, <2>1, <2>2, Finishes, ReplyIs, ReplyWillBe, SaidIs
    <3> QED
      BY <2>1, <2>2, <3>1, Returns DEF Blocks
  <2>3. CASE Go(r, "dropped")
    BY <1>1, <1>2, <2>1, <2>3, Goes, ReplyIs, ReplyWillBe DEF Unseen
  <2> QED
    BY <1>3, <2>2, <2>3 DEF CheckExisting
<1>4. CASE FindDropped(r)
  <2>1. pc[r] = "dropped" /\ row' = row /\ (Go(r, "reload") \/ Go(r, "insert"))
    BY <1>4 DEF FindDropped
  <2> QED
    BY <1>1, <1>2, <2>1, Goes, ReplyIs, ReplyWillBe DEF Unseen
<1>5. CASE Reload(r)
  <2>1. pc[r] = "reload" /\ row' = row
    BY <1>5 DEF Reload, history
  <2>2. CASE Go(r, "insert") \/ Go(r, "update")
    BY <1>1, <1>2, <2>1, <2>2, Goes, ReplyIs, ReplyWillBe DEF Unseen
  <2>3. CASE Exists(p) /\ Dirty(memory[r], Enrollment(r)) = {}
    <3>1. "status" \in DOMAIN memory[r] /\ memory[r].status = "active" /\ row[p].status = "dropped"
      BY <1>1, <2>1, <2>3 DEF Good, Reopens, NewEnrollment
    <3>2. "status" \in Dirty(memory[r], row[p])
      BY <3>1 DEF Dirty
    <3> QED
      BY <2>3, <3>2 DEF Enrollment
  <2> QED
    BY <1>5, <2>2, <2>3 DEF Reload, Enrollment, Exists
<1>6. CASE UpdateDropped(r)
  BY <1>6, Reinstates
<1>7. CASE InsertEnrollment(r)
  <2>1. pc[r] = "insert"
    BY <1>7 DEF InsertEnrollment
  <2>2. CASE Exists(p) /\ Finish(r, "conflict") /\ row' = row
    <3>1. Reply(r) = "enrolling" /\ Reply(r)' = "conflict"
      BY <1>1, <2>1, <2>2, Finishes, ReplyIs, ReplyWillBe, SaidIs
    <3> QED
      BY <2>2, <3>1, Returns
  <2>3. CASE CourseOf(p) = "deleted" /\ Finish(r, "invalidReference") /\ row' = row
    <3>1. Reply(r) = "enrolling" /\ Reply(r)' = "refused"
      BY <1>1, <2>1, <2>3, Finishes, ReplyIs, ReplyWillBe, SaidIs
    <3> QED
      BY <2>3, <3>1, Returns
  <2>4. CASE /\ CourseOf(p) # "deleted" /\ ~ Exists(p) /\ Finish(r, "enrolled")
             /\ row' = [row EXCEPT ![p] = NewEnrollment]
    BY <2>1, <2>4, Enrolls
  <2> QED
    BY <1>7, <2>2, <2>3, <2>4 DEF InsertEnrollment
<1>8. CASE LockRow(r)
  <2>1. pc[r] = "lock" /\ row' = row
    BY <1>8 DEF LockRow
  <2>2. CASE ~ Exists(p) /\ Finish(r, "notFound")
    <3>1. Reply(r) = "reporting" /\ Reply(r)' = "refused"
      BY <1>1, <2>1, <2>2, Finishes, ReplyIs, ReplyWillBe, SaidIs
    <3> QED
      BY <2>1, <2>2, <3>1, Returns
  <2>3. CASE Exists(p) /\ row[p].status # "active" /\ Go(r, "rollback")
    <3>1. Reply(r) = "reporting" /\ Reply(r)' = "declined"
      BY <1>1, <2>1, <2>3, Goes, ReplyIs, ReplyWillBe
    <3> QED
      BY <2>1, <2>3, <3>1, Returns
  <2>4. CASE Go(r, "save")
    BY <1>1, <1>2, <2>1, <2>4, Goes, ReplyIs, ReplyWillBe DEF Unseen
  <2> QED
    BY <1>8, <2>2, <2>3, <2>4 DEF LockRow
<1>9. CASE SaveProgress(r)
  BY <1>9, Reports
<1>10. CASE Rollback(r)
  <2>1. pc[r] = "rollback" /\ row' = row /\ Finish(r, "notActive")
    BY <1>10 DEF Rollback
  <2>2. Reply(r) = "declined" /\ Reply(r)' = "notActive"
    BY <1>1, <2>1, Finishes, ReplyIs, ReplyWillBe, SaidIs
  <2> QED
    BY <2>1, <2>2, Returns
<1> QED
  BY <1>3, <1>4, <1>5, <1>6, <1>7, <1>8, <1>9, <1>10 DEF Handle

(* A failed call: the caller does not know.                                *)
LEMMA FaultServes ==
  ASSUME NEW r \in Request, Calm(r),
         CallFails(r) \/ InsertAmbiguous(r) \/ UpdateAmbiguous(r) \/ CommitAmbiguous(r)
  PROVE  Served(r)
<1>1. CASE CallFails(r)
  <2>1. Finish(r, "error") /\ row' = row /\ pc[r] \in Step \ {"idle", "done"}
    BY <1>1 DEF CallFails, Calm, TypeOK
  <2>2. Reply(r) \in Book!Waiting /\ Reply(r)' = "unknown"
    BY <2>1, Finishes, ReplyIs, ReplyWillBe, SaidIs DEF Calm, Book!Waiting
  <2> QED
    BY <2>1, <2>2, Returns
<1>2. CASE InsertAmbiguous(r)
  BY <1>2, Enrolls DEF InsertAmbiguous
<1>3. CASE UpdateAmbiguous(r)
  BY <1>3, Reinstates
<1>4. CASE CommitAmbiguous(r)
  BY <1>4, Reports
<1> QED
  BY <1>1, <1>2, <1>3, <1>4

(***************************************************************************)
(* The steps of the book                                                   *)
(***************************************************************************)
(* A second request loads a dropped row: its pair comes into dispute.      *)
LEMMA Disputes ==
  ASSUME IInv, NEW r \in Request, RequestStep(r), ~ Arrival(r), contested' # contested
  PROVE  Book!Next
<1> DEFINE p == call[r].pair
<1>1. pc[r] = "dropped" /\ contested' = contested \cup {p} /\ p \in Pair /\ TypeOK
  BY StepContests DEF IInv, TypeOK, Call
<1>2. FindDropped(r)
  BY <1>1 DEF RequestStep, Handle, CheckExisting, FindDropped, Reload, UpdateDropped, InsertEnrollment,
       LockRow, SaveProgress, Rollback, CallFails, InsertAmbiguous, UpdateAmbiguous, Reactivate,
       CommitAmbiguous, history
<1>3. /\ Exists(p) /\ row[p].status = "dropped" /\ Reactivating(r, p) /\ Go(r, "reload")
      /\ row' = row /\ call' = call /\ course' = course
  BY <1>2 DEF FindDropped
<1>4. p \notin contested
  <2>1. p \in contested => contested \cup {p} = contested
    OBVIOUS
  <2> QED
    BY <1>1, <2>1
<1>5. p \in DOMAIN Pages /\ Pages[p].status = "dropped"
  BY <1>1, <1>3, <1>4, PagesAre
<1>6. \E c, d \in Request :
        c # d /\ \A w \in {c, d} : Replies[w] = "enrolling" /\ call[w].pair = p
  <2>1. PICK other \in Request \ {r} : call[other].pair = p /\ pc[other] \in {"reload", "update"}
    BY <1>3 DEF Reactivating
  <2>2. Reply(r) = "enrolling" /\ Reply(other) = "enrolling"
    BY <1>1, <2>1, ReplyIs
  <2> QED
    BY <2>1, <2>2 DEF Replies
<1>7. Replies' = Replies
  <2>1. Reply(r)' = Reply(r)
    BY <1>1, <1>3, Goes, ReplyIs, ReplyWillBe
  <2>2. Moves(r)
    BY <1>1, StepMoves
  <2> QED
    BY <1>1, <2>1, <2>2, OneIsTold DEF Replies
<1>8. Pages' = Book!Without({p})
  <2>1. {q \in Pair \ contested : Exists(q)}' = DOMAIN Pages \ {p}
    BY <1>1, <1>3 DEF Pages, Exists
  <2>2. \A q \in DOMAIN Pages \ {p} : row'[q] = row[q]
    BY <1>3
  <2> QED
    BY <1>1, <2>1, <2>2, PagesTaken
<1>9. Gone' = Gone
  BY <1>3 DEF Gone
<1>10. Book!Dispute(p)
  BY <1>1, <1>3, <1>5, <1>6, <1>7, <1>8, <1>9 DEF Book!Dispute, Replies, Gone
<1> QED
  BY <1>5, <1>10 DEF Book!Next

LEMMA CrashIsBlackout == TypeOK /\ Crash => Book!Blackout
<1> SUFFICES ASSUME TypeOK, Crash PROVE Book!Blackout
  OBVIOUS
<1>1. call' = call /\ row' = row /\ contested' = contested /\ course' = course
  BY DEF Crash, history
<1>2. ASSUME NEW r \in Request
      PROVE  Reply(r)' = IF Reply(r) \in Book!Waiting THEN "unknown" ELSE Reply(r)
  <2>1. pc[r] \in Step
    BY DEF TypeOK
  <2>2. CASE pc[r] \in {"idle", "done"}
    <3>1. pc'[r] = pc[r] /\ answer'[r] = answer[r]
      BY <2>2 DEF Crash, InFlight
    <3>2. Reply(r)' = Reply(r)
      BY <3>1 DEF Reply
    <3>3. Reply(r) \notin Book!Waiting
      <4>1. answer[r] \in Kind
        BY DEF TypeOK
      <4>2. Said(answer[r]) \notin Book!Waiting
        BY <4>1, SaidIs DEF Book!Waiting
      <4> QED
        BY <2>2, <4>2, ReplyIs DEF Book!Waiting
    <3> QED
      BY <3>2, <3>3
  <2>3. CASE pc[r] \notin {"idle", "done"}
    <3>1. pc'[r] = "done" /\ answer'[r] = "lost"
      BY <2>3 DEF Crash, InFlight
    <3>2. Reply(r)' = "unknown"
      BY <3>1, ReplyWillBe, SaidIs
    <3>3. Reply(r) \in Book!Waiting
      BY <2>1, <2>3, ReplyIs DEF Book!Waiting
    <3> QED
      BY <3>2, <3>3
  <2> QED
    BY <2>2, <2>3
<1>3. Replies' = [r \in Request |-> IF Replies[r] \in Book!Waiting THEN "unknown" ELSE Replies[r]]
  BY <1>2 DEF Replies
<1>4. Pages' = Pages /\ Gone' = Gone
  BY <1>1, PagesStay DEF Gone
<1> QED
  BY <1>1, <1>3, <1>4 DEF Book!Blackout, Replies, Gone

LEMMA OtherIsStep ==
  ASSUME TypeOK, Other
  PROVE  [Book!Next]_Book!bookVars
<1>1. call' = call /\ contested' = contested /\ pc' = pc /\ answer' = answer
  BY DEF Other, PublishCourse, RemoveCourse, OperatorDrops, history
<1>2. Replies' = Replies
  BY <1>1 DEF Replies, Reply
<1>3. ASSUME NEW c \in Course, PublishCourse(c) PROVE UNCHANGED Book!bookVars
  <2>1. Gone' = Gone
    BY <1>3 DEF PublishCourse, Gone, TypeOK
  <2>2. Pages' = Pages
    BY <1>1, <1>3, PagesStay DEF PublishCourse
  <2> QED
    BY <1>1, <1>2, <2>1, <2>2 DEF Book!bookVars, Replies, Gone
<1>4. ASSUME NEW c \in Course, RemoveCourse(c) PROVE Book!Next
  <2> DEFINE S == {p \in DOMAIN Pages : p[2] = c}
  <2>1. Gone' = Gone \cup {c} /\ c \in Course \ Gone
    BY <1>4 DEF RemoveCourse, Gone, TypeOK
  <2>2. \A q \in Pair : row'[q] = IF q[2] = c THEN NoRow ELSE row[q]
    BY <1>4 DEF RemoveCourse
  <2>3. {q \in Pair \ contested : Exists(q)}' = DOMAIN Pages \ S
    BY <1>1, <2>2 DEF Pages, Exists
  <2>4. \A q \in DOMAIN Pages \ S : row'[q] = row[q]
    BY <2>2 DEF Pages
  <2>5. S \in SUBSET Pair
    BY DEF Pages
  <2>6. Pages' = Book!Without(S)
    BY <2>3, <2>4, <2>5, PagesTaken
  <2>7. Book!Remove(c)
    BY <1>1, <1>2, <2>1, <2>6 DEF Book!Remove, Replies, Gone
  <2> QED
    BY <2>1, <2>7 DEF Book!Next, Gone
<1>5. ASSUME NEW p \in Pair, OperatorDrops(p) PROVE [Book!Next]_Book!bookVars
  <2>1. Gone' = Gone
    BY <1>5 DEF OperatorDrops, Gone
  <2>2. Exists(p) /\ row[p] \in Row /\ row[p].status = "active"
    BY <1>5 DEF OperatorDrops, Exists, TypeOK
  <2> DEFINE e == [row[p] EXCEPT !.status = "dropped"]
  <2>3. e \in Row /\ row' = [row EXCEPT ![p] = e]
    <3>1. e \in Row
      BY <2>2 DEF Row
    <3> QED
      BY <1>5, <3>1 DEF OperatorDrops
  <2>4. CASE p \in contested
    <3>1. \A q \in Pair \ contested : row'[q] = row[q]
      BY <2>3, <2>4 DEF TypeOK
    <3>2. Pages' = Pages
      BY <1>1, <3>1, PagesStay
    <3> QED
      BY <1>1, <1>2, <2>1, <3>2 DEF Book!bookVars, Replies, Gone
  <2>5. CASE p \notin contested
    <3>1. p \in DOMAIN Pages /\ Pages[p] = row[p]
      BY <2>2, <2>5, PagesAre
    <3>2. Pages' = Book!With(p, e)
      <4> HIDE DEF e
      <4> QED
        BY <1>1, <2>3, <2>5, PagePut
    <3>3. Pages' = [Pages EXCEPT ![p].status = "dropped"]
      <4>1. DOMAIN Pages \cup {p} = DOMAIN Pages
        BY <3>1
      <4>2. Pages' = [q \in DOMAIN Pages |-> IF q = p THEN e ELSE Pages[q]]
        BY <3>2, <4>1 DEF Book!With
      <4>3. e = [Pages[p] EXCEPT !.status = "dropped"]
        BY <3>1
      <4>4. Pages = [q \in DOMAIN Pages |-> Pages[q]]
        BY DEF Pages
      <4> HIDE DEF e
      <4> QED
        BY <3>1, <4>2, <4>3, <4>4
    <3>4. Book!Drop(p)
      BY <1>1, <1>2, <2>1, <2>2, <3>1, <3>3 DEF Book!Drop, Replies, Gone
    <3> QED
      BY <3>1, <3>4 DEF Book!Next
  <2> QED
    BY <2>4, <2>5
<1> QED
  BY <1>3, <1>4, <1>5 DEF Other

LEMMA BookStep == IInv /\ [Next]_vars => [Book!Next]_Book!bookVars
<1> SUFFICES ASSUME IInv, [Next]_vars PROVE [Book!Next]_Book!bookVars
  OBVIOUS
<1>1. ASSUME NEW r \in Request, RequestStep(r) PROVE [Book!Next]_Book!bookVars
  <2>1. TypeOK /\ Good(r) /\ Moves(r) /\ Keeps(r) /\ course' = course
    BY <1>1, StepMoves, StepKeeps DEF IInv, Keeps
  <2>2. CASE ~ Arrival(r) /\ contested' # contested
    BY <1>1, <2>2, Disputes
  <2>3. CASE ~ Arrival(r) /\ contested' = contested
    <3>1. CASE call[r].pair \in contested
      BY <1>1, <2>1, <2>3, <3>1, DisputedServes, ServedIsStep
    <3>2. CASE call[r].pair \notin contested
      <4>1. call' = call
        BY <1>1, <2>1, <2>3, StepTells, ReplyIs DEF Keeps, Book!Waiting
      <4>2. Calm(r)
        BY <2>1, <2>3, <3>2, <4>1 DEF Calm
      <4>3. Served(r) \/ Unseen(r)
        BY <1>1, <2>1, <2>3, <4>2, HandleServes, FaultServes DEF RequestStep, IInv
      <4> QED
        BY <2>1, <4>3, ServedIsStep
    <3> QED
      BY <3>1, <3>2
  <2>4. CASE Arrival(r)
    BY <2>1, <2>4, ArrivalBegins, ServedIsStep
  <2> QED
    BY <2>2, <2>3, <2>4
<1>2. CASE Other
  BY <1>2, OtherIsStep DEF IInv
<1>3. CASE Crash
  BY <1>3, CrashIsBlackout DEF IInv, Book!Next
<1>4. CASE UNCHANGED vars
  <2>1. Replies' = Replies /\ Gone' = Gone
    BY <1>4 DEF Replies, Reply, Gone, vars
  <2>2. Pages' = Pages
    BY <1>4, PagesStay DEF vars, history
  <2> QED
    BY <1>4, <2>1, <2>2 DEF Book!bookVars, Replies, Gone, vars, history
<1> QED
  BY <1>1, <1>2, <1>3, <1>4, Steps

LEMMA BookInit == Init => Book!Init
<1> SUFFICES ASSUME Init PROVE Book!Init
  OBVIOUS
<1>1. Pages = [p \in {} |-> Book!NewPage]
  <2>1. {p \in Pair \ contested : Exists(p)} = {}
    BY DEF Init, Exists
  <2> QED
    BY <2>1 DEF Pages
<1>2. Replies = [r \in Request |-> "none"]
  BY ReplyIs DEF Init, Replies
<1>3. call \in [Request -> Call]
  BY AnyCallIsCall DEF Init
<1>4. Gone = {}
  BY DEF Init, Gone
<1> QED
  BY <1>1, <1>2, <1>3, <1>4 DEF Init, Book!Init, Replies, Gone

(* Enrollments and progress reports behave like steps in one book, for any *)
(* number of requests, students and courses and under every fault: each    *)
(* takes effect once between call and answer, and is refused only for a    *)
(* reason that held then (enrollments.service.ts:38-48, 88-121, 139-215).  *)
THEOREM BookIsKept == Spec => ImplementsBook
<1>1. Spec => Book!Init /\ [][Book!Next]_Book!bookVars
  BY BookInit, BookStep, Invariance, PTL DEF Spec
<1> QED
  BY <1>1 DEF ImplementsBook, Book!Spec

=============================================================================
