---------------------------- MODULE Idempotency ----------------------------
(***************************************************************************)
(* IdempotencyService.execute: the wrapper around "enroll" and "submit"    *)
(* that makes a POST carrying an Idempotency-Key header safe to repeat.    *)
(*                                                                         *)
(* The module follows one scope (one user, one method, one path): a Key is *)
(* a normalized header in that scope.  A Request is one HTTP call, so a    *)
(* client's retry is another Request with the same header.  A step is the  *)
(* code between two awaits: one database call and what is computed from    *)
(* its answer before the next one.  A row of idempotency_keys and a row or *)
(* document created by run() are named by the request that inserted them.  *)
(*                                                                         *)
(* Faults says which of the following may happen:                          *)
(*   crash        the server process dies with every request in flight     *)
(*   expiry       the 24 hours of a row pass                               *)
(*   dbLost       a database call fails and has no effect                  *)
(*   dbAmbiguous  a database call fails after it took effect               *)
(*   removal      somebody removes the resource run() created              *)
(***************************************************************************)
EXTENDS Naturals, FiniteSets

CONSTANTS
  Request,      \* HTTP calls, each made at most once
  Key,          \* normalized headers: trimmed, not blank, at most 255 long
  NoKey,        \* a header that is missing or blank
  LongKey,      \* a header longer than 255 characters
  Payload,      \* canonical payloads; the SHA-256 hash is taken as injective
  Resource,     \* what run() may create: an enrollment, a submission
  ResourceOf,   \* the resource that a payload asks for
  Nobody,       \* no entity, no row id
  NoRow,        \* no row of idempotency_keys
  WaitRetries,  \* PROCESSING_WAIT_RETRIES, 20 in the code
  Faults        \* the faults of this instance, see above

FaultKinds == {"crash", "expiry", "dbLost", "dbAmbiguous", "removal"}

ASSUME KeyAssumption == NoKey \notin Key /\ LongKey \notin Key /\ NoKey # LongKey
ASSUME NobodyAssumption == Nobody \notin Request
ASSUME WaitAssumption == WaitRetries \in Nat \ {0}
ASSUME ResourceAssumption == ResourceOf \in [Payload -> Resource]
ASSUME FaultAssumption == Faults \subseteq FaultKinds

(* status, requestHash, responseBody and expiresAt of the entity           *)
Row == [key : Key, hash : Payload, status : {"processing", "completed"},
        body : Request \cup {Nobody}, expired : BOOLEAN]

ASSUME NoRowAssumption == NoRow \notin Row

Header == Key \cup {NoKey, LongKey}

Step == {"idle", "create", "refind", "wait", "replay", "run", "save",
         "delete", "done"}

(* How execute returns or throws: the kinds from "conflict" on are errors. *)
Kind == {"pending", "created", "replayed", "conflict", "rejected", "mismatch",
         "inProgress", "gone", "badKey", "error", "lost"}

Outcome == [kind : Kind, entity : Request \cup {Nobody}]

Pending == [kind |-> "pending", entity |-> Nobody]
Throw(kind) == [kind |-> kind, entity |-> Nobody]

VARIABLES
  pc,        \* the await at which a request stands
  call,      \* the header and the payload it came with
  row,       \* the table idempotency_keys, by the request that inserted a row
  watched,   \* the id of the row a waiting request polls
  polls,     \* how many times it has polled
  holds,     \* `processing` is a record: this request inserted a row
  outcome,   \* what it will return or throw, final once pc is "done"
  entity,    \* the entity that exists for each resource
  made       \* history: the requests whose run() created an entity

vars == <<pc, call, row, watched, polls, holds, outcome, entity, made>>

TypeOK ==
  /\ pc \in [Request -> Step]
  /\ call \in [Request -> [header : Header, payload : Payload]]
  /\ row \in [Request -> Row \cup {NoRow}]
  /\ watched \in [Request -> Request \cup {Nobody}]
  /\ polls \in [Request -> 0 .. WaitRetries]
  /\ holds \in [Request -> BOOLEAN]
  /\ outcome \in [Request -> Outcome]
  /\ entity \in [Resource -> Request \cup {Nobody}]
  /\ made \subseteq Request

Init ==
  /\ pc = [r \in Request |-> "idle"]
  /\ call \in {[r \in Request |-> [header |-> NoKey, payload |-> p]] : p \in Payload}
  /\ row = [r \in Request |-> NoRow]
  /\ watched = [r \in Request |-> Nobody]
  /\ polls = [r \in Request |-> 0]
  /\ holds = [r \in Request |-> FALSE]
  /\ outcome = [r \in Request |-> Pending]
  /\ entity = [x \in Resource |-> Nobody]
  /\ made = {}

(***************************************************************************)
(* Helpers                                                                 *)
(***************************************************************************)
Go(r, step) == pc' = [pc EXCEPT ![r] = step]

Finish(r, result) ==
  /\ Go(r, "done")
  /\ outcome' = [outcome EXCEPT ![r] = result]

(* Mutant: the unique index covers only the rows that have not expired.    *)
RowsOf_PartialIndex(k) ==
  {o \in Request : row[o] # NoRow /\ row[o].key = k /\ ~ row[o].expired}

(* The rows that the unique constraint on the scope and key protects.      *)
RowsOf(k) == {o \in Request : row[o] # NoRow /\ row[o].key = k}

(* findActiveRecord: expiresAt > now.                                      *)
ActiveRowsOf(k) == {o \in RowsOf(k) : ~ row[o].expired}

Target(r) == ResourceOf[call[r].payload]

(* Mutant: the request hash of an existing record is not compared.         *)
ResolveExisting_NoHash(r, o, payload) ==
  /\ UNCHANGED <<row, polls, holds, entity, made>>
  /\ \/ /\ row[o].status = "completed"
        /\ Go(r, "replay")
        /\ outcome' = [outcome EXCEPT ![r] = [kind |-> "replayed", entity |-> row[o].body]]
        /\ UNCHANGED watched
     \/ /\ row[o].status = "processing"
        /\ Go(r, "wait")
        /\ watched' = [watched EXCEPT ![r] = o]
        /\ UNCHANGED outcome

(* resolveExistingRecord up to its first await, on the row with id o.      *)
ResolveExisting(r, o, payload) ==
  /\ UNCHANGED <<row, polls, holds, entity, made>>
  /\ \/ /\ row[o].hash # payload
        /\ Finish(r, Throw("mismatch"))
        /\ UNCHANGED watched
     \/ /\ row[o].hash = payload
        /\ row[o].status = "completed"
        /\ Go(r, "replay")
        /\ outcome' = [outcome EXCEPT ![r] = [kind |-> "replayed", entity |-> row[o].body]]
        /\ UNCHANGED watched
     \/ /\ row[o].hash = payload
        /\ row[o].status = "processing"
        /\ Go(r, "wait")
        /\ watched' = [watched EXCEPT ![r] = o]
        /\ UNCHANGED outcome

(***************************************************************************)
(* execute, up to the point where run() may start                          *)
(***************************************************************************)
Arrive(r, h, p) ==
  /\ pc[r] = "idle"
  /\ call' = [call EXCEPT ![r] = [header |-> h, payload |-> p]]

(* normalizeKey returns null: run() is called with no record.              *)
StartWithoutKey(r, p) ==
  /\ Arrive(r, NoKey, p)
  /\ Go(r, "run")
  /\ UNCHANGED <<row, watched, polls, holds, outcome, entity, made>>

RejectLongKey(r, p) ==
  /\ Arrive(r, LongKey, p)
  /\ Finish(r, Throw("badKey"))
  /\ UNCHANGED <<row, watched, polls, holds, entity, made>>

(* The first findActiveRecord.                                             *)
Find(r, k, p) ==
  /\ Arrive(r, k, p)
  /\ \/ /\ ActiveRowsOf(k) = {}
        /\ Go(r, "create")
        /\ UNCHANGED <<row, watched, polls, holds, outcome, entity, made>>
     \/ \E o \in ActiveRowsOf(k) : ResolveExisting(r, o, p)

NewRow(r) ==
  [key |-> call[r].header, hash |-> call[r].payload, status |-> "processing",
   body |-> Nobody, expired |-> FALSE]

(* createProcessingRecord: the insert succeeds, or the unique constraint   *)
(* fires, also for a row that has expired.                                 *)
Create(r) ==
  /\ pc[r] = "create"
  /\ \/ /\ RowsOf(call[r].header) = {}
        /\ row' = [row EXCEPT ![r] = NewRow(r)]
        /\ holds' = [holds EXCEPT ![r] = TRUE]
        /\ Go(r, "run")
     \/ /\ RowsOf(call[r].header) # {}
        /\ Go(r, "refind")
        /\ UNCHANGED <<row, holds>>
  /\ UNCHANGED <<call, watched, polls, outcome, entity, made>>

(* The findActiveRecord after a unique violation.  When it finds nothing,  *)
(* the request calls run() without a record.                               *)
Refind(r) ==
  /\ pc[r] = "refind"
  /\ UNCHANGED call
  /\ \/ /\ ActiveRowsOf(call[r].header) = {}
        /\ Go(r, "run")
        /\ UNCHANGED <<row, watched, polls, holds, outcome, entity, made>>
     \/ \E o \in ActiveRowsOf(call[r].header) : ResolveExisting(r, o, call[r].payload)

(***************************************************************************)
(* waitForCompletion and replay                                            *)
(***************************************************************************)
(* Mutants: the loop only ends when the record is completed, with its      *)
(* counter running on, or without one.                                     *)
PollUntilCompleted(r, counted) ==
  /\ pc[r] = "wait"
  /\ polls' = [polls EXCEPT ![r] = IF counted THEN @ + 1 ELSE @]
  /\ UNCHANGED <<call, row, watched, holds, entity, made>>
  /\ LET latest == row[watched[r]] IN
       IF latest # NoRow /\ latest.status = "completed"
         THEN /\ Go(r, "replay")
              /\ outcome' = [outcome EXCEPT
                               ![r] = [kind |-> "replayed", entity |-> latest.body]]
         ELSE UNCHANGED <<pc, outcome>>
Poll_NoLimit(r) == polls[r] <= WaitRetries /\ PollUntilCompleted(r, TRUE)
Poll_NoCounter(r) == PollUntilCompleted(r, FALSE)

(* One turn of the polling loop, and what follows the loop.                *)
Poll(r) ==
  /\ pc[r] = "wait"
  /\ polls' = [polls EXCEPT ![r] = @ + 1]
  /\ UNCHANGED <<call, row, watched, holds, entity, made>>
  /\ LET latest == row[watched[r]] IN
       \/ /\ latest = NoRow
          /\ Finish(r, Throw("inProgress"))
       \/ /\ latest # NoRow
          /\ latest.status = "completed"
          /\ IF latest.hash = call[r].payload
               THEN /\ Go(r, "replay")
                    /\ outcome' = [outcome EXCEPT
                                     ![r] = [kind |-> "replayed", entity |-> latest.body]]
               ELSE Finish(r, Throw("mismatch"))
       \/ /\ latest # NoRow
          /\ latest.status = "processing"
          /\ \/ /\ polls[r] + 1 < WaitRetries
                /\ UNCHANGED <<pc, outcome>>
             \/ /\ polls[r] + 1 = WaitRetries
                /\ Finish(r, Throw("inProgress"))

(* Mutant: the entity is looked up by what the payload names, not by id.   *)
Replay_ByResource(r) ==
  /\ pc[r] = "replay"
  /\ UNCHANGED <<call, row, watched, polls, holds, entity, made>>
  /\ IF entity[Target(r)] # Nobody
       THEN Finish(r, [kind |-> "replayed", entity |-> entity[Target(r)]])
       ELSE Finish(r, Throw("gone"))

(* replay: the stored id is looked up; the entity may have been removed.   *)
Replay(r) ==
  /\ pc[r] = "replay"
  /\ UNCHANGED <<call, row, watched, polls, holds, entity, made>>
  /\ \/ /\ \E x \in Resource : entity[x] = outcome[r].entity
        /\ Go(r, "done")
        /\ UNCHANGED outcome
     \/ /\ \A x \in Resource : entity[x] # outcome[r].entity
        /\ Finish(r, Throw("gone"))

(***************************************************************************)
(* run, save, and the catch block                                          *)
(***************************************************************************)
(* Where an error thrown inside the try block goes, or outside of it.      *)
ThrowFromRun(r, kind) ==
  /\ outcome' = [outcome EXCEPT ![r] = Throw(kind)]
  /\ Go(r, IF holds[r] THEN "delete" ELSE "done")

(* run() creates the entity; the uniqueness of the resource is its own.    *)
RunCreates(r) ==
  /\ pc[r] = "run"
  /\ entity[Target(r)] = Nobody
  /\ entity' = [entity EXCEPT ![Target(r)] = r]
  /\ made' = made \cup {r}
  /\ outcome' = [outcome EXCEPT ![r] = [kind |-> "created", entity |-> r]]
  /\ Go(r, IF holds[r] THEN "save" ELSE "done")
  /\ UNCHANGED <<call, row, watched, polls, holds>>

(* run() finds the resource taken and throws a ConflictException.          *)
RunConflicts(r) ==
  /\ pc[r] = "run"
  /\ entity[Target(r)] # Nobody
  /\ ThrowFromRun(r, "conflict")
  /\ UNCHANGED <<call, row, watched, polls, holds, entity, made>>

(* run() throws for another reason: a course not published, a failed call. *)
RunRejects(r) ==
  /\ pc[r] = "run"
  /\ ThrowFromRun(r, "rejected")
  /\ UNCHANGED <<call, row, watched, polls, holds, entity, made>>

SaveCompleted(r) ==
  /\ pc[r] = "save"
  /\ row' = [row EXCEPT ![r].status = "completed", ![r].body = outcome[r].entity]
  /\ Go(r, "done")
  /\ UNCHANGED <<call, watched, polls, holds, outcome, entity, made>>

(* The catch block: the row is deleted by its id and the error rethrown.   *)
DeleteRow(r) ==
  /\ pc[r] = "delete"
  /\ row' = [row EXCEPT ![r] = NoRow]
  /\ Go(r, "done")
  /\ UNCHANGED <<call, watched, polls, holds, outcome, entity, made>>

(***************************************************************************)
(* Faults of the database and of the process, and the clock                *)
(***************************************************************************)
(* A call outside the try block fails, and execute with it.                *)
CallFails(r) ==
  /\ "dbLost" \in Faults
  /\ pc[r] \in {"create", "refind", "wait", "replay", "delete"}
  /\ Finish(r, Throw("error"))
  /\ UNCHANGED <<call, row, watched, polls, holds, entity, made>>

(* The insert is committed but reported as an error other than a unique    *)
(* violation: nobody holds the row.                                        *)
CreateAmbiguous(r) ==
  /\ "dbAmbiguous" \in Faults
  /\ pc[r] = "create"
  /\ RowsOf(call[r].header) = {}
  /\ row' = [row EXCEPT ![r] = NewRow(r)]
  /\ Finish(r, Throw("error"))
  /\ UNCHANGED <<call, watched, polls, holds, entity, made>>

RunAmbiguous(r) ==
  /\ "dbAmbiguous" \in Faults
  /\ pc[r] = "run"
  /\ entity[Target(r)] = Nobody
  /\ entity' = [entity EXCEPT ![Target(r)] = r]
  /\ made' = made \cup {r}
  /\ ThrowFromRun(r, "rejected")
  /\ UNCHANGED <<call, row, watched, polls, holds>>

(* Mutant: the error of the save is swallowed and the result returned.     *)
SaveLost_Swallowed(r) ==
  /\ "dbLost" \in Faults
  /\ pc[r] = "save"
  /\ Go(r, "done")
  /\ UNCHANGED <<call, row, watched, polls, holds, outcome, entity, made>>

SaveLost(r) ==
  /\ "dbLost" \in Faults
  /\ pc[r] = "save"
  /\ ThrowFromRun(r, "error")
  /\ UNCHANGED <<call, row, watched, polls, holds, entity, made>>

SaveAmbiguous(r) ==
  /\ "dbAmbiguous" \in Faults
  /\ pc[r] = "save"
  /\ row' = [row EXCEPT ![r].status = "completed", ![r].body = outcome[r].entity]
  /\ ThrowFromRun(r, "error")
  /\ UNCHANGED <<call, watched, polls, holds, entity, made>>

InFlight == {r \in Request : pc[r] \notin {"idle", "done"}}

(* One process serves the API: a crash takes every request in flight.      *)
Crash ==
  /\ "crash" \in Faults
  /\ InFlight # {}
  /\ pc' = [r \in Request |-> IF r \in InFlight THEN "done" ELSE pc[r]]
  /\ outcome' = [r \in Request |-> IF r \in InFlight THEN Throw("lost") ELSE outcome[r]]
  /\ UNCHANGED <<call, row, watched, polls, holds, entity, made>>

(* expiresAt passes.  No request lasts 24 hours, so its inserter is done.  *)
Expire(o) ==
  /\ "expiry" \in Faults
  /\ pc[o] = "done"
  /\ row[o] # NoRow
  /\ ~ row[o].expired
  /\ row' = [row EXCEPT ![o].expired = TRUE]
  /\ UNCHANGED <<pc, call, watched, polls, holds, outcome, entity, made>>

(* A course is deleted with its enrollments, or a document by hand.        *)
Remove(x) ==
  /\ "removal" \in Faults
  /\ entity[x] # Nobody
  /\ entity' = [entity EXCEPT ![x] = Nobody]
  /\ UNCHANGED <<pc, call, row, watched, polls, holds, outcome, made>>

(***************************************************************************)
(* The specification                                                       *)
(***************************************************************************)
Arrival(r) ==
  \E p \in Payload :
    \/ StartWithoutKey(r, p)
    \/ RejectLongKey(r, p)
    \/ \E k \in Key : Find(r, k, p)

(* What the event loop runs to the end once the request has arrived.       *)
Progress(r) ==
  \/ Create(r) \/ Refind(r) \/ Poll(r) \/ Replay(r)
  \/ RunCreates(r) \/ RunConflicts(r) \/ RunRejects(r)
  \/ SaveCompleted(r) \/ DeleteRow(r)

CallFault(r) ==
  \/ CallFails(r) \/ CreateAmbiguous(r) \/ RunAmbiguous(r)
  \/ SaveLost(r) \/ SaveAmbiguous(r)

Next ==
  \/ \E r \in Request : Arrival(r) \/ Progress(r) \/ CallFault(r) \/ Expire(r)
  \/ \E x \in Resource : Remove(x)
  \/ Crash

Spec == Init /\ [][Next]_vars

(* Every await of a request in flight is answered in the end: the driver   *)
(* and the timer call back, and Node runs every ready callback.            *)
FairSpec == Spec /\ \A r \in Request : WF_vars(Progress(r))

(***************************************************************************)
(* Properties                                                              *)
(***************************************************************************)
Answered(r, kinds) == pc[r] = "done" /\ outcome[r].kind \in kinds

SameCall(a, b) == call[a] = call[b]

(* A replayed answer carries the entity that a request with the same key   *)
(* and the same payload really created: whatever expired, was deleted,     *)
(* lost or inserted again between the find, the polls and the replay, a    *)
(* client is never handed the result of another call (lines 89-109).       *)
ReplayFaithful ==
  \A r \in Request :
    Answered(r, {"replayed"}) =>
      LET x == outcome[r].entity IN x \in made /\ SameCall(r, x)

(* A request that inserted a row and answered 201 leaves behind a          *)
(* COMPLETED row with its own result, so that a later retry can replay it: *)
(* the answer never overtakes the save (lines 73-82).                      *)
RecordedBeforeAnswered ==
  \A r \in Request :
    Answered(r, {"created"}) /\ holds[r] =>
      /\ row[r] # NoRow
      /\ row[r].status = "completed"
      /\ row[r].body = r

(* Of all the requests that ever held a row for a key, at most one         *)
(* answered 201, even after the row has expired and the resource is gone.  *)
OneProtectedCreation ==
  \A a, b \in Request :
    /\ Answered(a, {"created"}) /\ holds[a]
    /\ Answered(b, {"created"}) /\ holds[b]
    /\ call[a].header = call[b].header
    => a = b

(* Once a request has arrived it is answered, or dies with the process:    *)
(* the wait for another request's record is bounded.                       *)
EveryRequestAnswered ==
  \A r \in Request : pc[r] # "idle" ~> pc[r] = "done"

(* "A retry with the same Idempotency-Key returns the same enrollment      *)
(* result" (test/enrollments.e2e-spec.ts:261): when one of two equal calls *)
(* was answered 201, the other is not told that the resource is taken.     *)
SameKeySameResult ==
  \A a, b \in Request :
    /\ call[a].header \in Key
    /\ SameCall(a, b)
    /\ Answered(a, {"created"})
    => ~ Answered(b, {"conflict"})
=============================================================================
