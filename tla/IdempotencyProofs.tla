------------------------- MODULE IdempotencyProofs -------------------------
(***************************************************************************)
(* For any number of requests, keys, payloads and resources, any bound on  *)
(* the polls and any set of faults: the types of Idempotency and its three *)
(* safety invariants.                                                      *)
(***************************************************************************)
EXTENDS Idempotency, TLAPS

(***************************************************************************)
(* The inductive invariant                                                 *)
(***************************************************************************)
(* A row is named by a request that has inserted it, carries the call of   *)
(* that request, and is completed with what that request created.          *)
RowInv ==
  \A o \in Request :
    row[o] # NoRow =>
      /\ pc[o] \in {"run", "save", "delete", "done"}
      /\ row[o].key = call[o].header
      /\ row[o].hash = call[o].payload
      /\ row[o].status = "completed" => row[o].body = o /\ o \in made

(* The unique constraint.                                                  *)
KeyInv ==
  \A a, b \in Request :
    row[a] # NoRow /\ row[b] # NoRow /\ row[a].key = row[b].key => a = b

(* Where a request holds a row, the row is there, and no other request can *)
(* have deleted it.                                                        *)
HolderInv ==
  \A r \in Request :
    /\ pc[r] \in {"idle", "create", "refind", "wait", "replay"} => ~ holds[r]
    /\ pc[r] \in {"run", "save"} /\ holds[r] => row[r] # NoRow
    /\ pc[r] = "save" => /\ holds[r]
                         /\ outcome[r] = [kind |-> "created", entity |-> r]
                         /\ r \in made
    /\ r \in made => pc[r] \in {"save", "delete", "done"}
    /\ pc[r] \notin {"save", "done"} => outcome[r].kind # "created"

(* What a request has read from the row of another one.                    *)
ReaderInv ==
  \A r \in Request :
    /\ pc[r] \in {"create", "refind"} => call[r].header \in Key
    /\ pc[r] \in {"idle", "create", "refind", "wait"} => polls[r] < WaitRetries
    /\ pc[r] = "wait" => /\ watched[r] \in Request
                         /\ pc[watched[r]] # "idle"
                         /\ call[r] = call[watched[r]]
    /\ outcome[r].kind = "replayed" => /\ pc[r] \in {"replay", "done"}
                                       /\ outcome[r].entity \in made
                                       /\ call[r] = call[outcome[r].entity]

(* The conjunction is inductive.                                           *)
IInv == TypeOK /\ RowInv /\ KeyInv /\ HolderInv /\ ReaderInv /\ RecordedBeforeAnswered

(***************************************************************************)
(* Rows                                                                    *)
(***************************************************************************)
(* The row createProcessingRecord inserts is a row of the table.           *)
LEMMA NewRowType ==
  ASSUME NEW r \in Request, call[r].header \in Key, call[r].payload \in Payload
  PROVE  NewRow(r) \in Row /\ NewRow(r) # NoRow
<1>1. NewRow(r) \in Row
  BY SMTT(20) DEF NewRow, Row
<1>. QED
  BY <1>1, NoRowAssumption

(* An error is an outcome.                                                 *)
LEMMA OutcomeType ==
  /\ \A kind \in Kind : Throw(kind) \in Outcome
  /\ \A kind \in Kind, x \in Request \cup {Nobody} :
       [kind |-> kind, entity |-> x] \in Outcome
BY DEF Throw, Outcome

(* The columns of a row after an update of some of them.                   *)
LEMMA CompletedRowType ==
  ASSUME NEW o \in Request, NEW b \in Request, row[o] \in Row,
         row \in [Request -> Row \cup {NoRow}],
         row' = [row EXCEPT ![o].status = "completed", ![o].body = b]
  PROVE  /\ row' \in [Request -> Row \cup {NoRow}]
         /\ row'[o] # NoRow
         /\ row'[o].status = "completed" /\ row'[o].body = b
         /\ row'[o].key = row[o].key /\ row'[o].hash = row[o].hash
         /\ \A a \in Request : a # o => row'[a] = row[a]
<1>. DEFINE new == [row[o] EXCEPT !.status = "completed", !.body = b]
<1>1. /\ new \in Row
      /\ new.status = "completed" /\ new.body = b
      /\ new.key = row[o].key /\ new.hash = row[o].hash
  BY DEF Row
<1>2. row' = [row EXCEPT ![o] = new]
  OBVIOUS
<1>. HIDE DEF new
<1>. QED
  BY <1>1, <1>2, NoRowAssumption

(* A row of which only expiresAt has passed is still a row.                *)
LEMMA ExpiredRowType ==
  ASSUME NEW o \in Request, row[o] \in Row,
         row \in [Request -> Row \cup {NoRow}],
         row' = [row EXCEPT ![o].expired = TRUE]
  PROVE  /\ row' \in [Request -> Row \cup {NoRow}]
         /\ row'[o] # NoRow
         /\ row'[o].status = row[o].status /\ row'[o].body = row[o].body
         /\ row'[o].key = row[o].key /\ row'[o].hash = row[o].hash
         /\ \A a \in Request : a # o => row'[a] = row[a]
<1>. DEFINE new == [row[o] EXCEPT !.expired = TRUE]
<1>1. /\ new \in Row
      /\ new.status = row[o].status /\ new.body = row[o].body
      /\ new.key = row[o].key /\ new.hash = row[o].hash
  BY DEF Row
<1>2. row' = [row EXCEPT ![o] = new]
  OBVIOUS
<1>. HIDE DEF new
<1>. QED
  BY <1>1, <1>2, NoRowAssumption

(***************************************************************************)
(* One lemma per action: it preserves every part of the invariant          *)
(***************************************************************************)
(* A request without a key touches no row.                                 *)
LEMMA StartWithoutKeyPreserves ==
  ASSUME IInv, NEW r \in Request, NEW p \in Payload, StartWithoutKey(r, p)
  PROVE  IInv'
<1>. USE NobodyAssumption, NoRowAssumption, ResourceAssumption
     DEF IInv, TypeOK, RowInv, KeyInv, HolderInv, ReaderInv,
         RecordedBeforeAnswered, Answered, Header, Step, Kind, Outcome, Throw
<1>. USE DEF StartWithoutKey, Arrive, Go
<1>1. TypeOK'
  OBVIOUS
<1>2. RowInv'
  OBVIOUS
<1>3. KeyInv'
  OBVIOUS
<1>4. HolderInv'
  OBVIOUS
<1>5. ReaderInv'
  BY SMTT(30)
<1>6. RecordedBeforeAnswered'
  OBVIOUS
<1>. QED
  BY <1>1, <1>2, <1>3, <1>4, <1>5, <1>6

(* A header that is too long ends the request at once.                     *)
LEMMA RejectLongKeyPreserves ==
  ASSUME IInv, NEW r \in Request, NEW p \in Payload, RejectLongKey(r, p)
  PROVE  IInv'
<1>. USE NobodyAssumption, NoRowAssumption, ResourceAssumption
     DEF IInv, TypeOK, RowInv, KeyInv, HolderInv, ReaderInv,
         RecordedBeforeAnswered, Answered, Header, Step, Kind, Outcome, Throw
<1>. USE DEF RejectLongKey, Arrive, Finish, Go
<1>1. TypeOK'
  OBVIOUS
<1>2. RowInv'
  OBVIOUS
<1>3. KeyInv'
  OBVIOUS
<1>4. HolderInv'
  OBVIOUS
<1>5. ReaderInv'
  OBVIOUS
<1>6. RecordedBeforeAnswered'
  OBVIOUS
<1>. QED
  BY <1>1, <1>2, <1>3, <1>4, <1>5, <1>6

(* The common part of Find and Refind: a row of the key has been read.      *)
LEMMA ResolveExistingPreserves ==
  ASSUME IInv, NEW r \in Request, NEW k \in Key, NEW p \in Payload,
         NEW o \in RowsOf(k), pc[r] \in {"idle", "refind"},
         call' = [call EXCEPT ![r] = [header |-> k, payload |-> p]],
         pc[r] = "refind" => call' = call,
         ResolveExisting(r, o, p)
  PROVE  IInv'
<1>0. /\ o \in Request /\ row[o] \in Row /\ row[o] # NoRow /\ row[o].key = k
      /\ row[o].hash \in Payload /\ row[o].body \in Request \cup {Nobody}
      /\ call[o] = [header |-> k, payload |-> row[o].hash]
      /\ pc[o] \in {"run", "save", "delete", "done"}
      /\ row[o].status = "completed" => row[o].body = o /\ o \in made
      /\ o # r /\ r \notin made /\ row[r] = NoRow
  BY DEF RowsOf, Row, IInv, TypeOK, RowInv, HolderInv
<1>1. TypeOK'
  <2>1. call' \in [Request -> [header : Header, payload : Payload]]
    BY DEF IInv, TypeOK, Header
  <2>2. pc' \in [Request -> Step]
    BY DEF IInv, TypeOK, Step, ResolveExisting, Finish, Go
  <2>4. watched' \in [Request -> Request \cup {Nobody}]
    BY <1>0 DEF IInv, TypeOK, ResolveExisting
  <2>3. outcome' \in [Request -> Outcome]
    BY <1>0, OutcomeType DEF IInv, TypeOK, Kind, ResolveExisting, Finish
  <2>. QED
    BY <2>1, <2>2, <2>3, <2>4 DEF IInv, TypeOK, ResolveExisting
<1>5. ReaderInv'
  <2>. DEFINE kept(a) ==
         /\ call'[a] = call[a] /\ pc'[a] = pc[a] /\ watched'[a] = watched[a]
         /\ polls'[a] = polls[a] /\ outcome'[a] = outcome[a]
  <2>1. /\ made' = made /\ polls' = polls
        /\ call'[r] = [header |-> k, payload |-> p]
        /\ \A a \in Request : a # r => kept(a)
    BY DEF ResolveExisting, IInv, TypeOK, Finish, Go
  <2>2. pc'[r] # "idle" /\ polls[r] < WaitRetries
    BY DEF ResolveExisting, IInv, TypeOK, ReaderInv, Finish, Go
  <2>3. \/ pc'[r] = "done" /\ outcome'[r].kind = "mismatch"
        \/ /\ pc'[r] = "replay" /\ row[o].hash = p /\ o \in made
           /\ outcome'[r] = [kind |-> "replayed", entity |-> o]
        \/ /\ pc'[r] = "wait" /\ row[o].hash = p /\ watched'[r] = o
           /\ outcome'[r] = outcome[r]
    BY <1>0 DEF ResolveExisting, IInv, TypeOK, Finish, Go, Throw
  <2>4. SUFFICES ASSUME NEW a \in Request PROVE ReaderInv!(a)'
    BY DEF ReaderInv
  <2>5. CASE a = r
    BY <1>0, <2>1, <2>2, <2>3, <2>5 DEF IInv, ReaderInv
  <2>6. CASE a # r
    BY <1>0, <2>1, <2>2, <2>6 DEF IInv, TypeOK, HolderInv, ReaderInv
  <2>. QED
    BY <2>5, <2>6
<1>. USE NobodyAssumption, NoRowAssumption, ResourceAssumption
     DEF IInv, TypeOK, RowInv, KeyInv, HolderInv, ReaderInv,
         RecordedBeforeAnswered, Answered, Header, Step, Kind, Outcome, Throw
<1>. USE DEF ResolveExisting, Finish, Go
<1>2. RowInv'
  BY <1>0
<1>3. KeyInv'
  BY <1>0
<1>4. HolderInv'
  BY <1>0
<1>6. RecordedBeforeAnswered'
  BY <1>0
<1>. QED
  BY <1>1, <1>2, <1>3, <1>4, <1>5, <1>6

(* The insert: the unique constraint keeps one row per key, and the        *)
(* request becomes the holder of its own.                                  *)
LEMMA CreatePreserves ==
  ASSUME IInv, NEW r \in Request, Create(r)
  PROVE  IInv'
<1>0. /\ call[r].header \in Key /\ call[r].payload \in Payload
      /\ NewRow(r) \in Row /\ NewRow(r) # NoRow
      /\ NewRow(r).key = call[r].header /\ NewRow(r).hash = call[r].payload
      /\ NewRow(r).status = "processing"
  BY NewRowType DEF Create, NewRow, IInv, TypeOK, ReaderInv
<1>1. TypeOK'
  <2>1. pc' \in [Request -> Step]
    BY DEF IInv, TypeOK, Step, Create, Go
  <2>2. row' \in [Request -> Row \cup {NoRow}]
    BY <1>0 DEF IInv, TypeOK, Create
  <2>3. holds' \in [Request -> BOOLEAN]
    BY DEF IInv, TypeOK, Create
  <2>. QED
    BY <2>1, <2>2, <2>3 DEF IInv, TypeOK, Create
<1>. USE NobodyAssumption, NoRowAssumption, ResourceAssumption
     DEF IInv, TypeOK, RowInv, KeyInv, HolderInv, ReaderInv,
         RecordedBeforeAnswered, Answered, Header, Step, Kind, Outcome, Throw
<1>. USE DEF Create, RowsOf, Go
<1>2. RowInv'
  BY <1>0
<1>3. KeyInv'
  BY <1>0, SMTT(20)
<1>4. HolderInv'
  BY <1>0
<1>5. ReaderInv'
  BY <1>0
<1>6. RecordedBeforeAnswered'
  BY <1>0, SMTT(20)
<1>. QED
  BY <1>1, <1>2, <1>3, <1>4, <1>5, <1>6

(* A turn of the polling loop stays within the bound and hands out the     *)
(* body of a completed row of an equal call only.                          *)
LEMMA PollPreserves ==
  ASSUME IInv, NEW r \in Request, Poll(r)
  PROVE  IInv'
<1>0. /\ watched[r] \in Request /\ polls[r] \in 0 .. WaitRetries
      /\ row[watched[r]] # NoRow => row[watched[r]] \in Row
      /\ row[watched[r]] \in Row => row[watched[r]].body \in Request \cup {Nobody}
  BY DEF Poll, Row, IInv, TypeOK, ReaderInv
<1>1. TypeOK'
  <2>1. polls[r] + 1 \in 0 .. WaitRetries
    BY <1>0, WaitAssumption DEF Poll, IInv, HolderInv, ReaderInv, TypeOK
  <2>2. polls' \in [Request -> 0 .. WaitRetries]
    BY <2>1 DEF Poll, IInv, TypeOK
  <2>3. pc' \in [Request -> Step]
    BY DEF Poll, IInv, TypeOK, Step, Go, Finish
  <2>4. outcome' \in [Request -> Outcome]
    BY <1>0, OutcomeType DEF Poll, IInv, TypeOK, Kind, Finish
  <2>. QED
    BY <2>2, <2>3, <2>4 DEF Poll, IInv, TypeOK
<1>6. RecordedBeforeAnswered'
  <2>1. ~ holds[r]
    BY DEF IInv, HolderInv, Poll
  <2>2. \A a \in Request : a # r => pc'[a] = pc[a] /\ outcome'[a] = outcome[a]
    BY DEF IInv, TypeOK, Poll, Finish, Go
  <2>. QED
    BY <2>1, <2>2 DEF IInv, RecordedBeforeAnswered, Answered, Poll
<1>. USE NobodyAssumption, NoRowAssumption, ResourceAssumption
     DEF IInv, TypeOK, RowInv, KeyInv, HolderInv, ReaderInv,
         RecordedBeforeAnswered, Answered, Header, Step, Kind, Outcome, Throw
<1>. USE DEF Poll, Finish, Go
<1>2. RowInv'
  BY <1>0
<1>3. KeyInv'
  BY <1>0
<1>4. HolderInv'
  BY <1>0
<1>5. ReaderInv'
  BY <1>0
<1>. QED
  BY <1>1, <1>2, <1>3, <1>4, <1>5, <1>6

(* The replay returns the result that was read, or an error.               *)
LEMMA ReplayPreserves ==
  ASSUME IInv, NEW r \in Request, Replay(r)
  PROVE  IInv'
<1>1. TypeOK'
  <2>1. pc' \in [Request -> Step]
    BY DEF Replay, IInv, TypeOK, Step, Go, Finish
  <2>2. outcome' \in [Request -> Outcome]
    BY OutcomeType DEF Replay, IInv, TypeOK, Kind, Finish
  <2>. QED
    BY <2>1, <2>2 DEF Replay, IInv, TypeOK
<1>. USE NobodyAssumption, NoRowAssumption, ResourceAssumption
     DEF IInv, TypeOK, RowInv, KeyInv, HolderInv, ReaderInv,
         RecordedBeforeAnswered, Answered, Header, Step, Kind, Outcome, Throw
<1>. USE DEF Replay, Finish, Go, Target
<1>2. RowInv'
  OBVIOUS
<1>3. KeyInv'
  OBVIOUS
<1>4. HolderInv'
  OBVIOUS
<1>5. ReaderInv'
  OBVIOUS
<1>6. RecordedBeforeAnswered'
  OBVIOUS
<1>. QED
  BY <1>1, <1>2, <1>3, <1>4, <1>5, <1>6

(* run() succeeds: a holder goes on to save, others are done.              *)
LEMMA RunCreatesPreserves ==
  ASSUME IInv, NEW r \in Request, RunCreates(r)
  PROVE  IInv'
<1>. USE NobodyAssumption, NoRowAssumption, ResourceAssumption
     DEF IInv, TypeOK, RowInv, KeyInv, HolderInv, ReaderInv,
         RecordedBeforeAnswered, Answered, Header, Step, Kind, Outcome, Throw
<1>. USE DEF RunCreates, Go, Target
<1>1. TypeOK'
  OBVIOUS
<1>2. RowInv'
  OBVIOUS
<1>3. KeyInv'
  OBVIOUS
<1>4. HolderInv'
  OBVIOUS
<1>5. ReaderInv'
  OBVIOUS
<1>6. RecordedBeforeAnswered'
  OBVIOUS
<1>. QED
  BY <1>1, <1>2, <1>3, <1>4, <1>5, <1>6

(* run() finds the resource taken: a holder goes on to delete its row.     *)
LEMMA RunConflictsPreserves ==
  ASSUME IInv, NEW r \in Request, RunConflicts(r)
  PROVE  IInv'
<1>. USE NobodyAssumption, NoRowAssumption, ResourceAssumption
     DEF IInv, TypeOK, RowInv, KeyInv, HolderInv, ReaderInv,
         RecordedBeforeAnswered, Answered, Header, Step, Kind, Outcome, Throw
<1>. USE DEF RunConflicts, ThrowFromRun, Go, Target
<1>1. TypeOK'
  OBVIOUS
<1>2. RowInv'
  OBVIOUS
<1>3. KeyInv'
  OBVIOUS
<1>4. HolderInv'
  OBVIOUS
<1>5. ReaderInv'
  OBVIOUS
<1>6. RecordedBeforeAnswered'
  OBVIOUS
<1>. QED
  BY <1>1, <1>2, <1>3, <1>4, <1>5, <1>6

(* run() fails otherwise: a holder goes on to delete its row.              *)
LEMMA RunRejectsPreserves ==
  ASSUME IInv, NEW r \in Request, RunRejects(r)
  PROVE  IInv'
<1>. USE NobodyAssumption, NoRowAssumption, ResourceAssumption
     DEF IInv, TypeOK, RowInv, KeyInv, HolderInv, ReaderInv,
         RecordedBeforeAnswered, Answered, Header, Step, Kind, Outcome, Throw
<1>. USE DEF RunRejects, ThrowFromRun, Go, Target
<1>1. TypeOK'
  OBVIOUS
<1>2. RowInv'
  OBVIOUS
<1>3. KeyInv'
  OBVIOUS
<1>4. HolderInv'
  OBVIOUS
<1>5. ReaderInv'
  OBVIOUS
<1>6. RecordedBeforeAnswered'
  OBVIOUS
<1>. QED
  BY <1>1, <1>2, <1>3, <1>4, <1>5, <1>6

(* The save records the result of the holder of the row.                   *)
LEMMA SaveCompletedPreserves ==
  ASSUME IInv, NEW r \in Request, SaveCompleted(r)
  PROVE  IInv'
<1>0. row[r] \in Row /\ outcome[r].entity = r /\ r \in made
  BY DEF SaveCompleted, Row, IInv, TypeOK, HolderInv
<1>a. /\ row' \in [Request -> Row \cup {NoRow}]
      /\ row'[r] # NoRow
      /\ row'[r].status = "completed" /\ row'[r].body = r
      /\ row'[r].key = row[r].key /\ row'[r].hash = row[r].hash
      /\ \A a \in Request : a # r => row'[a] = row[a]
  <2>1. row' = [row EXCEPT ![r].status = "completed", ![r].body = r]
    BY <1>0 DEF SaveCompleted
  <2>. QED
    BY <1>0, <2>1, CompletedRowType, Zenon DEF IInv, TypeOK
<1>6. RecordedBeforeAnswered'
  <2>1. /\ \A a \in Request : a # r => pc'[a] = pc[a]
        /\ outcome' = outcome /\ holds' = holds
    BY DEF IInv, TypeOK, SaveCompleted, Go
  <2>. QED
    BY <1>a, <2>1 DEF IInv, RecordedBeforeAnswered, Answered
<1>. USE NobodyAssumption, NoRowAssumption, ResourceAssumption
     DEF IInv, TypeOK, RowInv, KeyInv, HolderInv, ReaderInv,
         RecordedBeforeAnswered, Answered, Header, Step, Kind, Outcome, Throw
<1>. USE DEF SaveCompleted, Go
<1>1. TypeOK'
  BY <1>0, <1>a
<1>2. RowInv'
  BY <1>0, <1>a
<1>3. KeyInv'
  BY <1>0, <1>a
<1>4. HolderInv'
  BY <1>0, <1>a
<1>5. ReaderInv'
  BY <1>0, <1>a
<1>. QED
  BY <1>1, <1>2, <1>3, <1>4, <1>5, <1>6

(* The catch block deletes the row of a request that failed, which no      *)
(* answer relies on.                                                       *)
LEMMA DeleteRowPreserves ==
  ASSUME IInv, NEW r \in Request, DeleteRow(r)
  PROVE  IInv'
<1>. USE NobodyAssumption, NoRowAssumption, ResourceAssumption
     DEF IInv, TypeOK, RowInv, KeyInv, HolderInv, ReaderInv,
         RecordedBeforeAnswered, Answered, Header, Step, Kind, Outcome, Throw
<1>. USE DEF DeleteRow, Go
<1>1. TypeOK'
  OBVIOUS
<1>2. RowInv'
  OBVIOUS
<1>3. KeyInv'
  OBVIOUS
<1>4. HolderInv'
  OBVIOUS
<1>5. ReaderInv'
  OBVIOUS
<1>6. RecordedBeforeAnswered'
  OBVIOUS
<1>. QED
  BY <1>1, <1>2, <1>3, <1>4, <1>5, <1>6

(* A call outside the try block fails: no row changes.                     *)
LEMMA CallFailsPreserves ==
  ASSUME IInv, NEW r \in Request, CallFails(r)
  PROVE  IInv'
<1>. USE NobodyAssumption, NoRowAssumption, ResourceAssumption
     DEF IInv, TypeOK, RowInv, KeyInv, HolderInv, ReaderInv,
         RecordedBeforeAnswered, Answered, Header, Step, Kind, Outcome, Throw
<1>. USE DEF CallFails, Finish, Go
<1>1. TypeOK'
  OBVIOUS
<1>2. RowInv'
  OBVIOUS
<1>3. KeyInv'
  OBVIOUS
<1>4. HolderInv'
  OBVIOUS
<1>5. ReaderInv'
  OBVIOUS
<1>6. RecordedBeforeAnswered'
  OBVIOUS
<1>. QED
  BY <1>1, <1>2, <1>3, <1>4, <1>5, <1>6

(* An insert that is committed but reported as failed leaves a row of the  *)
(* key that nobody holds.                                                  *)
LEMMA CreateAmbiguousPreserves ==
  ASSUME IInv, NEW r \in Request, CreateAmbiguous(r)
  PROVE  IInv'
<1>. USE NobodyAssumption, NoRowAssumption, ResourceAssumption
     DEF IInv, TypeOK, RowInv, KeyInv, HolderInv, ReaderInv,
         RecordedBeforeAnswered, Answered, Header, Step, Kind, Outcome, Throw
<1>0. /\ call[r].header \in Key /\ call[r].payload \in Payload
      /\ NewRow(r) \in Row /\ NewRow(r) # NoRow
      /\ NewRow(r).key = call[r].header /\ NewRow(r).hash = call[r].payload
      /\ NewRow(r).status = "processing"
  BY NewRowType DEF CreateAmbiguous, NewRow
<1>. USE DEF CreateAmbiguous, Finish, RowsOf, Go
<1>1. TypeOK'
  BY <1>0
<1>2. RowInv'
  BY <1>0
<1>3. KeyInv'
  BY <1>0
<1>4. HolderInv'
  BY <1>0
<1>5. ReaderInv'
  BY <1>0
<1>6. RecordedBeforeAnswered'
  BY <1>0
<1>. QED
  BY <1>1, <1>2, <1>3, <1>4, <1>5, <1>6

(* run() fails after it created the entity: the row is not completed.      *)
LEMMA RunAmbiguousPreserves ==
  ASSUME IInv, NEW r \in Request, RunAmbiguous(r)
  PROVE  IInv'
<1>. USE NobodyAssumption, NoRowAssumption, ResourceAssumption
     DEF IInv, TypeOK, RowInv, KeyInv, HolderInv, ReaderInv,
         RecordedBeforeAnswered, Answered, Header, Step, Kind, Outcome, Throw
<1>. USE DEF RunAmbiguous, ThrowFromRun, Go, Target
<1>1. TypeOK'
  OBVIOUS
<1>2. RowInv'
  OBVIOUS
<1>3. KeyInv'
  OBVIOUS
<1>4. HolderInv'
  OBVIOUS
<1>5. ReaderInv'
  OBVIOUS
<1>6. RecordedBeforeAnswered'
  OBVIOUS
<1>. QED
  BY <1>1, <1>2, <1>3, <1>4, <1>5, <1>6

(* The save fails without effect and the row is going to be deleted.       *)
LEMMA SaveLostPreserves ==
  ASSUME IInv, NEW r \in Request, SaveLost(r)
  PROVE  IInv'
<1>. USE NobodyAssumption, NoRowAssumption, ResourceAssumption
     DEF IInv, TypeOK, RowInv, KeyInv, HolderInv, ReaderInv,
         RecordedBeforeAnswered, Answered, Header, Step, Kind, Outcome, Throw
<1>. USE DEF SaveLost, ThrowFromRun, Go
<1>1. TypeOK'
  OBVIOUS
<1>2. RowInv'
  OBVIOUS
<1>3. KeyInv'
  OBVIOUS
<1>4. HolderInv'
  OBVIOUS
<1>5. ReaderInv'
  OBVIOUS
<1>6. RecordedBeforeAnswered'
  OBVIOUS
<1>. QED
  BY <1>1, <1>2, <1>3, <1>4, <1>5, <1>6

(* The save takes effect but is reported as failed: the row names an       *)
(* entity that was really created.                                         *)
LEMMA SaveAmbiguousPreserves ==
  ASSUME IInv, NEW r \in Request, SaveAmbiguous(r)
  PROVE  IInv'
<1>. USE NobodyAssumption, NoRowAssumption, ResourceAssumption
     DEF IInv, TypeOK, RowInv, KeyInv, HolderInv, ReaderInv,
         RecordedBeforeAnswered, Answered, Header, Step, Kind, Outcome, Throw
<1>0. row[r] \in Row /\ outcome[r].entity = r /\ r \in made
  BY DEF SaveAmbiguous, Row
<1>a. /\ row' \in [Request -> Row \cup {NoRow}]
      /\ row'[r] # NoRow
      /\ row'[r].status = "completed" /\ row'[r].body = r
      /\ row'[r].key = row[r].key /\ row'[r].hash = row[r].hash
      /\ \A a \in Request : a # r => row'[a] = row[a]
  <2>1. row' = [row EXCEPT ![r].status = "completed", ![r].body = r]
    BY <1>0 DEF SaveAmbiguous
  <2>. QED
    BY <1>0, <2>1, CompletedRowType, Zenon
<1>. USE DEF SaveAmbiguous, ThrowFromRun, Go
<1>1. TypeOK'
  BY <1>0, <1>a
<1>2. RowInv'
  BY <1>0, <1>a
<1>3. KeyInv'
  BY <1>0, <1>a
<1>4. HolderInv'
  BY <1>0, <1>a
<1>5. ReaderInv'
  BY <1>0, <1>a
<1>6. RecordedBeforeAnswered'
  BY <1>0, <1>a
<1>. QED
  BY <1>1, <1>2, <1>3, <1>4, <1>5, <1>6

(* A crash ends the requests in flight and leaves the table as it is.      *)
LEMMA CrashPreserves ==
  ASSUME IInv, Crash
  PROVE  IInv'
<1>. USE NobodyAssumption, NoRowAssumption, ResourceAssumption
     DEF IInv, TypeOK, RowInv, KeyInv, HolderInv, ReaderInv,
         RecordedBeforeAnswered, Answered, Header, Step, Kind, Outcome, Throw
<1>. USE DEF Crash, InFlight
<1>1. TypeOK'
  OBVIOUS
<1>2. RowInv'
  OBVIOUS
<1>3. KeyInv'
  OBVIOUS
<1>4. HolderInv'
  OBVIOUS
<1>5. ReaderInv'
  OBVIOUS
<1>6. RecordedBeforeAnswered'
  OBVIOUS
<1>. QED
  BY <1>1, <1>2, <1>3, <1>4, <1>5, <1>6

(* Expiry changes neither the key, the hash, the status nor the body.      *)
LEMMA ExpirePreserves ==
  ASSUME IInv, NEW o \in Request, Expire(o)
  PROVE  IInv'
<1>. USE NobodyAssumption, NoRowAssumption, ResourceAssumption
     DEF IInv, TypeOK, RowInv, KeyInv, HolderInv, ReaderInv,
         RecordedBeforeAnswered, Answered, Header, Step, Kind, Outcome, Throw
<1>0. row[o] \in Row
  BY DEF Expire
<1>a. /\ row' \in [Request -> Row \cup {NoRow}]
      /\ row'[o] # NoRow
      /\ row'[o].status = row[o].status /\ row'[o].body = row[o].body
      /\ row'[o].key = row[o].key /\ row'[o].hash = row[o].hash
      /\ \A a \in Request : a # o => row'[a] = row[a]
  BY <1>0, ExpiredRowType, Zenon DEF Expire
<1>. USE DEF Expire
<1>1. TypeOK'
  BY <1>0, <1>a
<1>2. RowInv'
  BY <1>0, <1>a
<1>3. KeyInv'
  BY <1>0, <1>a
<1>4. HolderInv'
  BY <1>0, <1>a
<1>5. ReaderInv'
  BY <1>0, <1>a
<1>6. RecordedBeforeAnswered'
  BY <1>0, <1>a
<1>. QED
  BY <1>1, <1>2, <1>3, <1>4, <1>5, <1>6

(* The removal of an entity leaves the table and the history alone.        *)
LEMMA RemovePreserves ==
  ASSUME IInv, NEW x \in Resource, Remove(x)
  PROVE  IInv'
<1>. USE NobodyAssumption, NoRowAssumption, ResourceAssumption
     DEF IInv, TypeOK, RowInv, KeyInv, HolderInv, ReaderInv,
         RecordedBeforeAnswered, Answered, Header, Step, Kind, Outcome, Throw
<1>. USE DEF Remove
<1>1. TypeOK'
  OBVIOUS
<1>2. RowInv'
  OBVIOUS
<1>3. KeyInv'
  OBVIOUS
<1>4. HolderInv'
  OBVIOUS
<1>5. ReaderInv'
  OBVIOUS
<1>6. RecordedBeforeAnswered'
  OBVIOUS
<1>. QED
  BY <1>1, <1>2, <1>3, <1>4, <1>5, <1>6

(* The first look-up: no row, or the row that is found is resolved.        *)
LEMMA FindPreserves ==
  ASSUME IInv, NEW r \in Request, NEW k \in Key, NEW p \in Payload, Find(r, k, p)
  PROVE  IInv'
<1>1. /\ pc[r] = "idle"
      /\ call' = [call EXCEPT ![r] = [header |-> k, payload |-> p]]
  BY DEF Find, Arrive
<1>2. CASE \E o \in ActiveRowsOf(k) : ResolveExisting(r, o, p)
  <2>1. PICK o \in ActiveRowsOf(k) : ResolveExisting(r, o, p)
    BY <1>2
  <2>2. o \in RowsOf(k)
    BY DEF ActiveRowsOf
  <2>. QED
    BY <1>1, <2>1, <2>2, ResolveExistingPreserves
<1>3. CASE /\ Go(r, "create")
           /\ UNCHANGED <<row, watched, polls, holds, outcome, entity, made>>
  <2>. USE NobodyAssumption, NoRowAssumption, <1>1, <1>3
       DEF IInv, TypeOK, RowInv, KeyInv, HolderInv, ReaderInv,
           RecordedBeforeAnswered, Answered, Header, Step, Go
  <2>1. TypeOK'
    OBVIOUS
  <2>2. RowInv' /\ KeyInv'
    OBVIOUS
  <2>3. HolderInv'
    OBVIOUS
  <2>4. ReaderInv'
    OBVIOUS
  <2>5. RecordedBeforeAnswered'
    OBVIOUS
  <2>. QED
    BY <2>1, <2>2, <2>3, <2>4, <2>5
<1>. QED
  BY <1>2, <1>3 DEF Find

(* The look-up after a lost insert.                                        *)
LEMMA RefindPreserves ==
  ASSUME IInv, NEW r \in Request, Refind(r)
  PROVE  IInv'
<1>. DEFINE k == call[r].header
            p == call[r].payload
<1>1. /\ pc[r] = "refind" /\ call' = call
      /\ k \in Key /\ p \in Payload
      /\ call = [call EXCEPT ![r] = [header |-> k, payload |-> p]]
  BY DEF Refind, IInv, TypeOK, ReaderInv
<1>2. CASE \E o \in ActiveRowsOf(k) : ResolveExisting(r, o, p)
  <2>1. PICK o \in ActiveRowsOf(k) : ResolveExisting(r, o, p)
    BY <1>2
  <2>2. o \in RowsOf(k)
    BY DEF ActiveRowsOf
  <2>. HIDE DEF k, p
  <2>. QED
    BY <1>1, <2>1, <2>2, ResolveExistingPreserves
<1>3. CASE /\ Go(r, "run")
           /\ UNCHANGED <<row, watched, polls, holds, outcome, entity, made>>
  <2>. HIDE DEF k, p
  <2>. USE NobodyAssumption, NoRowAssumption, <1>1, <1>3
       DEF IInv, TypeOK, RowInv, KeyInv, HolderInv, ReaderInv,
           RecordedBeforeAnswered, Answered, Header, Step, Go
  <2>1. TypeOK'
    OBVIOUS
  <2>2. RowInv' /\ KeyInv'
    OBVIOUS
  <2>3. HolderInv'
    OBVIOUS
  <2>4. ReaderInv'
    OBVIOUS
  <2>5. RecordedBeforeAnswered'
    OBVIOUS
  <2>. QED
    BY <2>1, <2>2, <2>3, <2>4, <2>5
<1>. QED
  BY <1>2, <1>3 DEF Refind

(***************************************************************************)
(* The theorems                                                            *)
(***************************************************************************)
(* The invariant holds at the start.                                       *)
LEMMA InitEstablishes == Init => IInv
BY NobodyAssumption, NoRowAssumption, WaitAssumption
DEF Init, IInv, TypeOK, RowInv, KeyInv, HolderInv, ReaderInv,
    RecordedBeforeAnswered, Answered, Header, Step, Kind, Outcome, Pending

(* Every step keeps the invariant: one case per action.                    *)
LEMMA NextPreserves == IInv /\ [Next]_vars => IInv'
<1>. SUFFICES ASSUME IInv, [Next]_vars PROVE IInv'
  OBVIOUS
<1>1. CASE UNCHANGED vars
  BY <1>1 DEF vars, IInv, TypeOK, RowInv, KeyInv, HolderInv, ReaderInv,
              RecordedBeforeAnswered, Answered
<1>2. CASE Crash
  BY <1>2, CrashPreserves
<1>3. ASSUME NEW x \in Resource, Remove(x) PROVE IInv'
  BY <1>3, RemovePreserves
<1>4. ASSUME NEW r \in Request, Arrival(r) PROVE IInv'
  BY <1>4, StartWithoutKeyPreserves, RejectLongKeyPreserves, FindPreserves DEF Arrival
<1>5. ASSUME NEW r \in Request, Progress(r) PROVE IInv'
  BY <1>5, CreatePreserves, RefindPreserves, PollPreserves, ReplayPreserves,
     RunCreatesPreserves, RunConflictsPreserves, RunRejectsPreserves,
     SaveCompletedPreserves, DeleteRowPreserves DEF Progress
<1>6. ASSUME NEW r \in Request, CallFault(r) PROVE IInv'
  BY <1>6, CallFailsPreserves, CreateAmbiguousPreserves, RunAmbiguousPreserves,
     SaveLostPreserves, SaveAmbiguousPreserves DEF CallFault
<1>7. ASSUME NEW o \in Request, Expire(o) PROVE IInv'
  BY <1>7, ExpirePreserves
<1>. QED
  BY <1>1, <1>2, <1>3, <1>4, <1>5, <1>6, <1>7 DEF Next

(* The inductive invariant holds in every reachable state, for any number  *)
(* of requests, keys, payloads and polls, under every fault.               *)
THEOREM Invariance == Spec => []IInv
BY InitEstablishes, NextPreserves, PTL DEF Spec

(* Every variable keeps its type; the poll counter never passes the bound. *)
THEOREM TypeCorrect == Spec => []TypeOK
<1>1. IInv => TypeOK
  BY DEF IInv
<1>. QED
  BY Invariance, <1>1, PTL

(* An answer that was replayed is the result of an equal call.             *)
THEOREM ReplayIsFaithful == Spec => []ReplayFaithful
<1>1. IInv => ReplayFaithful
  BY DEF IInv, ReaderInv, ReplayFaithful, Answered, SameCall
<1>. QED
  BY Invariance, <1>1, PTL

(* No holder of a row answers 201 before its row says so.                  *)
THEOREM RecordComesFirst == Spec => []RecordedBeforeAnswered
<1>1. IInv => RecordedBeforeAnswered
  BY DEF IInv
<1>. QED
  BY Invariance, <1>1, PTL

(* At most one holder of a row of a key ever answers 201.                  *)
THEOREM CreationIsUnique == Spec => []OneProtectedCreation
<1>1. IInv => OneProtectedCreation
  BY DEF IInv, RowInv, KeyInv, RecordedBeforeAnswered, OneProtectedCreation
<1>. QED
  BY Invariance, <1>1, PTL
=============================================================================
