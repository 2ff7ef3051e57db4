------------------------- MODULE EnrollmentApiProofs -------------------------
(***************************************************************************)
(* POST /enrollments implements the wrapper, and what it promises to a     *)
(* client, for every number of requests, keys and courses.                 *)
(*                                                                         *)
(* Wrapped is an invariant of the wrapper alone, kept by every step of     *)
(* W!Next.  Linked ties the wrapper to the service inside of it.  The two  *)
(* make each step of the API a step of the wrapper (StepIsWrapped), and    *)
(* with it Wrapped is kept as well.                                        *)
(***************************************************************************)
EXTENDS EnrollmentApi, TLAPS

(***************************************************************************)
(* The invariant of the wrapper                                            *)
(***************************************************************************)
TableTypes ==
  /\ call \in [Request -> [header : W!Header, payload : Course]]
  /\ row \in [Request -> W!Row \cup {NoRow}]
  /\ watched \in [Request -> Request \cup {Nobody}]
  /\ holds \in [Request -> BOOLEAN]
  /\ entity \in [Course -> Request \cup {Nobody}]
  /\ made \subseteq Request

WTypes ==
  /\ pc \in [Request -> W!Step]
  /\ outcome \in [Request -> W!Outcome]
  /\ TableTypes

(* A row carries the payload of its inserter, and its own result.          *)
RowIsCall(r) ==
  row[r] # NoRow =>
    /\ row[r].hash = call[r].payload
    /\ row[r].status = "completed" => row[r].body = r /\ r \in made

(* A request has no row before it inserts one, and the row of a holder is  *)
(* there as long as it may save or delete it.                              *)
HolderHolds(r) ==
  /\ pc[r] \in {"idle", "create", "refind"} =>
       ~ holds[r] /\ row[r] = NoRow /\ outcome[r] = W!Pending
  /\ pc[r] \in {"create", "refind"} => call[r].header \in Key
  /\ pc[r] \in {"save", "delete"} \/ (pc[r] = "run" /\ holds[r]) => row[r] # NoRow
  /\ pc[r] = "save" => outcome[r].kind = "created"
  /\ pc[r] = "wait" => watched[r] \in Request

(* Who has made an enrollment is past run() and was not refused by it.     *)
MakerIsDone(r) ==
  r \in made =>
    /\ pc[r] \in {"save", "delete", "done"}
    /\ outcome[r].kind \in {"created", "rejected", "error", "lost"}

(* Results are those of a request that made the enrollment in this course. *)
ResultIsMade(r) ==
  /\ outcome[r].kind = "created" => outcome[r].entity = r /\ r \in made
  /\ outcome[r].kind = "replayed" =>
       /\ outcome[r].entity \in made
       /\ call[outcome[r].entity].payload = call[r].payload
  /\ outcome[r].kind = "conflict" =>
       \E o \in made \ {r} : call[o].payload = call[r].payload

Good(r) == RowIsCall(r) /\ HolderHolds(r) /\ MakerIsDone(r) /\ ResultIsMade(r)

EntitiesAreMade ==
  \A c \in Course : entity[c] # Nobody =>
    entity[c] \in made /\ call[entity[c]].payload = c

Wrapped == WTypes /\ (\A r \in Request : Good(r)) /\ EntitiesAreMade

USE DEF W!Step, W!Pending

LEMMA OutcomeTypes ==
  /\ W!Pending \in W!Outcome
  /\ W!Throw("conflict") \in W!Outcome /\ W!Throw("rejected") \in W!Outcome
  /\ W!Throw("mismatch") \in W!Outcome /\ W!Throw("inProgress") \in W!Outcome
  /\ W!Throw("gone") \in W!Outcome /\ W!Throw("badKey") \in W!Outcome
  /\ W!Throw("error") \in W!Outcome /\ W!Throw("lost") \in W!Outcome
  /\ \A x \in Request \cup {Nobody} :
       /\ [kind |-> "created", entity |-> x] \in W!Outcome
       /\ [kind |-> "replayed", entity |-> x] \in W!Outcome
  BY DEF W!Outcome, W!Kind, W!Throw

LEMMA InitWrapped == Init => Wrapped
<1> SUFFICES ASSUME Init PROVE Wrapped
  OBVIOUS
<1> USE DEF Init, W!Init
<1>1. WTypes
  BY OutcomeTypes DEF WTypes, TableTypes, W!Header
<1>2. \A r \in Request : Good(r)
  BY DEF Good, RowIsCall, HolderHolds, MakerIsDone, ResultIsMade
<1>3. EntitiesAreMade
  BY DEF EntitiesAreMade
<1> QED
  BY <1>1, <1>2, <1>3 DEF Wrapped

(* The request o is left alone.                                            *)
Same(o) ==
  /\ pc'[o] = pc[o] /\ call'[o] = call[o] /\ row'[o] = row[o]
  /\ watched'[o] = watched[o] /\ holds'[o] = holds[o] /\ outcome'[o] = outcome[o]

(* A step of one request need only be looked at where it happens.          *)
LEMMA OnlyOne ==
  ASSUME Wrapped, WTypes', NEW r \in Request,
         \A o \in Request \ {r} : Same(o),
         pc[r] = "idle" \/ call'[r] = call[r],
         made \subseteq made', made' \subseteq made \cup {r},
         Good(r)', entity' = entity \/ EntitiesAreMade'
  PROVE  Wrapped'
<1>1. ASSUME NEW o \in made PROVE call'[o] = call[o]
  BY DEF Wrapped, WTypes, TableTypes, Good, MakerIsDone, Same
<1>2. ASSUME NEW o \in Request \ {r} PROVE Good(o)'
  <2>1. Good(o) /\ Same(o)
    BY DEF Wrapped
  <2>2. RowIsCall(o)' /\ HolderHolds(o)' /\ MakerIsDone(o)'
    BY <2>1 DEF Good, Same, RowIsCall, HolderHolds, MakerIsDone
  <2>3. ResultIsMade(o)'
    BY <2>1, <1>1 DEF Good, Same, ResultIsMade
  <2> QED
    BY <2>2, <2>3 DEF Good
<1>3. EntitiesAreMade'
  BY <1>1 DEF Wrapped, EntitiesAreMade
<1> QED
  BY <1>2, <1>3 DEF Wrapped

(* What resolveExistingRecord answers from the row of another request.     *)
LEMMA ResolveWrapped ==
  ASSUME Wrapped, NEW r \in Request, NEW o \in Request, NEW p \in Course,
         row[o] # NoRow, o # r, r \notin made, row[r] = NoRow,
         outcome[r] = W!Pending, ~ holds[r],
         call'[r].payload = p,
         call' \in [Request -> [header : W!Header, payload : Course]],
         \A x \in Request \ {r} : call'[x] = call[x],
         pc[r] = "idle" \/ call'[r] = call[r],
         W!ResolveExisting(r, o, p)
  PROVE  Wrapped'
<1> USE DEF W!ResolveExisting, W!Go, W!Finish, W!Throw
<1>0. /\ row[o] \in W!Row /\ row[o].hash = call[o].payload
      /\ row[o].status = "completed" => row[o].body = o /\ o \in made
  BY DEF Wrapped, WTypes, TableTypes, Good, RowIsCall
<1>1. WTypes'
  <2>1. pc' \in [Request -> W!Step]
    BY <1>0 DEF Wrapped, WTypes, TableTypes, W!Row
  <2>0. row[o].status = "completed" =>
          [kind |-> "replayed", entity |-> row[o].body] \in W!Outcome
    BY <1>0, OutcomeTypes
  <2>2. outcome' \in [Request -> W!Outcome]
    BY <2>0, OutcomeTypes DEF Wrapped, WTypes
  <2>3. TableTypes'
    BY <1>0 DEF Wrapped, WTypes, W!Row, TableTypes
  <2> QED
    BY <2>1, <2>2, <2>3 DEF WTypes
<1>2. RowIsCall(r)' /\ MakerIsDone(r)'
  BY DEF Wrapped, WTypes, TableTypes, RowIsCall, MakerIsDone
<1>3. HolderHolds(r)'
  BY DEF Wrapped, WTypes, TableTypes, HolderHolds
<1>4. ResultIsMade(r)'
  BY <1>0 DEF Wrapped, WTypes, TableTypes, ResultIsMade
<1>5. \A x \in Request \ {r} : Same(x)
  BY DEF Wrapped, WTypes, TableTypes, Same
<1> QED
  BY <1>1, <1>2, <1>3, <1>4, <1>5, OnlyOne DEF Good

LEMMA FindWrapped ==
  ASSUME Wrapped, NEW r \in Request, NEW k \in Key, NEW p \in Course, W!Find(r, k, p)
  PROVE  Wrapped'
<1> USE DEF W!Find, W!Arrive, W!ActiveRowsOf, W!RowsOf
<1>1. /\ r \notin made /\ row[r] = NoRow /\ outcome[r] = W!Pending /\ ~ holds[r]
      /\ pc[r] = "idle"
  BY DEF Wrapped, WTypes, TableTypes, Good, MakerIsDone, HolderHolds
<1>2. /\ call' \in [Request -> [header : W!Header, payload : Course]]
      /\ call'[r].payload = p
      /\ \A x \in Request \ {r} : call'[x] = call[x]
  BY DEF Wrapped, WTypes, TableTypes, W!Header
<1>3. CASE \E o \in W!ActiveRowsOf(k) : W!ResolveExisting(r, o, p)
  BY <1>1, <1>2, <1>3, ResolveWrapped
<1>4. CASE /\ W!Go(r, "create")
           /\ UNCHANGED <<row, watched, polls, holds, outcome, entity, made>>
  <2>1. WTypes'
    <3>1. pc' \in [Request -> W!Step]
      BY <1>2, <1>4 DEF Wrapped, WTypes, TableTypes, W!Go
    <3>2. outcome' \in [Request -> W!Outcome]
      BY <1>2, <1>4, OutcomeTypes DEF Wrapped, WTypes, W!Go, TableTypes
    <3>3. TableTypes'
      BY <1>2, <1>4 DEF Wrapped, WTypes, W!Go, TableTypes
    <3> QED
      BY <3>1, <3>2, <3>3 DEF WTypes
  <2>1s. \A o \in Request \ {r} : Same(o)
    BY <1>2, <1>4 DEF Wrapped, WTypes, TableTypes, W!Go, Same
  <2>2. Good(r)'
    BY <1>1, <1>4 DEF Wrapped, WTypes, TableTypes, W!Go, Good, RowIsCall, HolderHolds, MakerIsDone, ResultIsMade
  <2> QED
    BY <1>1, <1>4, <2>1, <2>1s, <2>2, OnlyOne
<1> QED
  BY <1>3, <1>4

LEMMA ArrivalWrapped ==
  ASSUME Wrapped, NEW r \in Request, W!Arrival(r)
  PROVE  Wrapped'
<1> USE DEF W!Arrive
<1>1. /\ r \notin made /\ row[r] = NoRow /\ outcome[r] = W!Pending /\ ~ holds[r]
      /\ pc[r] = "idle"
  BY DEF Wrapped, WTypes, TableTypes, Good, MakerIsDone, HolderHolds,
         W!Arrival, W!StartWithoutKey, W!RejectLongKey, W!Find
<1>2. ASSUME NEW p \in Course, W!StartWithoutKey(r, p) \/ W!RejectLongKey(r, p)
      PROVE  Wrapped'
  <2> USE DEF W!StartWithoutKey, W!RejectLongKey, W!Go, W!Finish, W!Throw
  <2>1. WTypes'
    <3>1. pc' \in [Request -> W!Step]
      BY <1>2 DEF Wrapped, WTypes, TableTypes
    <3>2. outcome' \in [Request -> W!Outcome]
      BY <1>2, OutcomeTypes DEF Wrapped, WTypes, TableTypes
    <3>0. call' \in [Request -> [header : W!Header, payload : Course]]
      BY <1>2 DEF Wrapped, WTypes, TableTypes, W!Header
    <3>3. TableTypes'
      BY <1>2, <3>0 DEF Wrapped, WTypes, TableTypes
    <3> QED
      BY <3>1, <3>2, <3>3 DEF WTypes
  <2>1s. \A o \in Request \ {r} : Same(o)
    BY <1>2 DEF Wrapped, WTypes, TableTypes, Same
  <2>2. Good(r)'
    BY <1>1, <1>2 DEF Wrapped, WTypes, TableTypes, Good, RowIsCall, HolderHolds, MakerIsDone, ResultIsMade
  <2> QED
    BY <1>1, <1>2, <2>1, <2>1s, <2>2, OnlyOne
<1> QED
  BY <1>2, FindWrapped DEF W!Arrival

LEMMA CreateWrapped ==
  ASSUME Wrapped, NEW r \in Request, W!Create(r) \/ W!CreateAmbiguous(r)
  PROVE  Wrapped'
<1> USE DEF W!Create, W!CreateAmbiguous, W!NewRow, W!Go, W!Finish, W!Throw
<1>1. r \notin made /\ ~ holds[r] /\ call[r].header \in Key /\ call[r].payload \in Course
  BY DEF Wrapped, WTypes, TableTypes, Good, MakerIsDone, HolderHolds
<1>2. W!NewRow(r) \in W!Row /\ (row' = row \/ row' = [row EXCEPT ![r] = W!NewRow(r)])
  BY <1>1 DEF W!Row
<1>3. WTypes'
  <2>1. pc' \in [Request -> W!Step]
    BY <1>2 DEF Wrapped, WTypes, TableTypes
  <2>2. outcome' \in [Request -> W!Outcome]
    BY <1>2, OutcomeTypes DEF Wrapped, WTypes, TableTypes
  <2>0. row' \in [Request -> W!Row \cup {NoRow}]
    BY <1>2 DEF Wrapped, WTypes, TableTypes
  <2>3. TableTypes'
    BY <2>0 DEF Wrapped, WTypes, TableTypes
  <2> QED
    BY <2>1, <2>2, <2>3 DEF WTypes
<1>3s. \A o \in Request \ {r} : Same(o)
  BY <1>2 DEF Wrapped, WTypes, TableTypes, Same
<1>4. RowIsCall(r)' /\ MakerIsDone(r)'
  BY <1>1, <1>2 DEF Wrapped, WTypes, TableTypes, Good, RowIsCall, HolderHolds, MakerIsDone
<1>5. HolderHolds(r)'
  BY <1>1, <1>2, NoRowAssumption DEF Wrapped, WTypes, TableTypes, Good, HolderHolds
<1>6. ResultIsMade(r)'
  BY <1>1 DEF Wrapped, WTypes, TableTypes, Good, HolderHolds, ResultIsMade
<1> QED
  BY <1>1, <1>3, <1>3s, <1>4, <1>5, <1>6, OnlyOne DEF Good

LEMMA RefindWrapped ==
  ASSUME Wrapped, NEW r \in Request, W!Refind(r)
  PROVE  Wrapped'
<1> USE DEF W!Refind, W!ActiveRowsOf, W!RowsOf
<1>1. /\ r \notin made /\ row[r] = NoRow /\ outcome[r] = W!Pending /\ ~ holds[r]
      /\ call[r].payload \in Course
  BY DEF Wrapped, WTypes, TableTypes, Good, MakerIsDone, HolderHolds
<1>2. CASE \E o \in W!ActiveRowsOf(call[r].header) : W!ResolveExisting(r, o, call[r].payload)
  BY <1>1, <1>2, ResolveWrapped DEF Wrapped, WTypes, TableTypes
<1>3. CASE /\ W!Go(r, "run")
           /\ UNCHANGED <<row, watched, polls, holds, outcome, entity, made>>
  <2>1. WTypes'
    <3>1. pc' \in [Request -> W!Step]
      BY <1>3 DEF Wrapped, WTypes, TableTypes, W!Go
    <3>2. outcome' \in [Request -> W!Outcome]
      BY <1>3, OutcomeTypes DEF Wrapped, WTypes, W!Go, TableTypes
    <3>3. TableTypes'
      BY <1>3 DEF Wrapped, WTypes, W!Go, TableTypes
    <3> QED
      BY <3>1, <3>2, <3>3 DEF WTypes
  <2>1s. \A o \in Request \ {r} : Same(o)
    BY <1>3 DEF Wrapped, WTypes, TableTypes, W!Go, Same
  <2>2. Good(r)'
    BY <1>1, <1>3 DEF Wrapped, WTypes, TableTypes, W!Go, Good, RowIsCall, HolderHolds, MakerIsDone, ResultIsMade
  <2> QED
    BY <1>1, <1>3, <2>1, <2>1s, <2>2, OnlyOne
<1> QED
  BY <1>2, <1>3

(* The row a request polls still is that of its inserter.                  *)
LEMMA PollWrapped ==
  ASSUME Wrapped, NEW r \in Request, W!Poll(r)
  PROVE  Wrapped'
<1> USE DEF W!Poll, W!Go, W!Finish, W!Throw
<1> DEFINE o == watched[r]
<1>1. o \in Request /\ r \notin made /\ call[r].payload \in Course
  BY DEF Wrapped, WTypes, TableTypes, Good, MakerIsDone, HolderHolds
<1>2. row[o] # NoRow =>
        /\ row[o] \in W!Row /\ row[o].hash = call[o].payload
        /\ row[o].status = "completed" => row[o].body = o /\ o \in made
  BY <1>1 DEF Wrapped, WTypes, TableTypes, Good, RowIsCall
<1>3. WTypes'
  <2>1. pc' \in [Request -> W!Step]
    BY <1>1, <1>2 DEF Wrapped, WTypes, TableTypes, W!Row
  <2>2. outcome' \in [Request -> W!Outcome]
    BY <1>1, <1>2, OutcomeTypes DEF Wrapped, WTypes, W!Row, TableTypes
  <2>3. TableTypes'
    BY <1>1, <1>2 DEF Wrapped, WTypes, W!Row, TableTypes
  <2> QED
    BY <2>1, <2>2, <2>3 DEF WTypes
<1>3s. \A x \in Request \ {r} : Same(x)
  BY <1>1, <1>2 DEF Wrapped, WTypes, TableTypes, Same, W!Row
<1>4. RowIsCall(r)' /\ HolderHolds(r)' /\ MakerIsDone(r)'
  BY <1>1 DEF Wrapped, WTypes, TableTypes, Good, RowIsCall, HolderHolds, MakerIsDone
<1>5. ResultIsMade(r)'
  BY <1>1, <1>2 DEF Wrapped, WTypes, TableTypes, Good, ResultIsMade
<1> QED
  BY <1>1, <1>3, <1>3s, <1>4, <1>5, OnlyOne DEF Good

LEMMA ReplayWrapped ==
  ASSUME Wrapped, NEW r \in Request, W!Replay(r)
  PROVE  Wrapped'
<1> USE DEF W!Replay, W!Go, W!Finish, W!Throw
<1>1. WTypes'
  <2>1. pc' \in [Request -> W!Step]
    BY DEF Wrapped, WTypes, TableTypes
  <2>2. outcome' \in [Request -> W!Outcome]
    BY OutcomeTypes DEF Wrapped, WTypes, TableTypes
  <2>3. TableTypes'
    BY DEF Wrapped, WTypes, TableTypes
  <2> QED
    BY <2>1, <2>2, <2>3 DEF WTypes
<1>1s. \A x \in Request \ {r} : Same(x)
  BY DEF Wrapped, WTypes, TableTypes, Same
<1>2. Good(r)'
  BY DEF Wrapped, WTypes, TableTypes, Good, RowIsCall, HolderHolds, MakerIsDone, ResultIsMade
<1> QED
  BY <1>1, <1>1s, <1>2, OnlyOne

LEMMA SaveWrapped ==
  ASSUME Wrapped, NEW r \in Request, W!SaveCompleted(r) \/ W!SaveAmbiguous(r)
  PROVE  Wrapped'
<1> USE DEF W!SaveCompleted, W!SaveAmbiguous, W!ThrowFromRun, W!Go, W!Finish, W!Throw
<1>1. /\ row[r] \in W!Row /\ row[r].hash = call[r].payload
      /\ r \in made /\ outcome[r] = [kind |-> "created", entity |-> r]
  BY DEF Wrapped, WTypes, TableTypes, Good, RowIsCall, HolderHolds, ResultIsMade, W!Outcome
<1>2. row'[r] \in W!Row /\ row'[r].hash = row[r].hash /\ row'[r].body = r
  BY <1>1 DEF Wrapped, WTypes, TableTypes, W!Row
<1>3. WTypes'
  <2>1. pc' \in [Request -> W!Step]
    BY <1>1, <1>2 DEF Wrapped, WTypes, TableTypes
  <2>2. outcome' \in [Request -> W!Outcome]
    BY <1>1, <1>2, OutcomeTypes DEF Wrapped, WTypes, TableTypes
  <2>3. TableTypes'
    BY <1>1, <1>2 DEF Wrapped, WTypes, TableTypes
  <2> QED
    BY <2>1, <2>2, <2>3 DEF WTypes
<1>3s. \A x \in Request \ {r} : Same(x)
  BY <1>1, <1>2 DEF Wrapped, WTypes, TableTypes, Same
<1>4. Good(r)'
  BY <1>1, <1>2, NoRowAssumption
  DEF Wrapped, WTypes, TableTypes, Good, RowIsCall, HolderHolds, MakerIsDone, ResultIsMade
<1> QED
  BY <1>3, <1>3s, <1>4, OnlyOne

LEMMA DeleteWrapped ==
  ASSUME Wrapped, NEW r \in Request, W!DeleteRow(r)
  PROVE  Wrapped'
<1> USE DEF W!DeleteRow, W!Go
<1>1. WTypes'
  <2>1. pc' \in [Request -> W!Step]
    BY DEF Wrapped, WTypes, TableTypes
  <2>2. outcome' \in [Request -> W!Outcome]
    BY OutcomeTypes DEF Wrapped, WTypes, TableTypes
  <2>3. TableTypes'
    BY DEF Wrapped, WTypes, TableTypes
  <2> QED
    BY <2>1, <2>2, <2>3 DEF WTypes
<1>1s. \A x \in Request \ {r} : Same(x)
  BY DEF Wrapped, WTypes, TableTypes, Same
<1>2. Good(r)'
  BY DEF Wrapped, WTypes, TableTypes, Good, RowIsCall, HolderHolds, MakerIsDone, ResultIsMade
<1> QED
  BY <1>1, <1>1s, <1>2, OnlyOne

LEMMA FaultWrapped ==
  ASSUME Wrapped, NEW r \in Request, W!CallFails(r) \/ W!SaveLost(r)
  PROVE  Wrapped'
<1> USE DEF W!CallFails, W!SaveLost, W!ThrowFromRun, W!Go, W!Finish, W!Throw
<1>1. WTypes'
  <2>1. pc' \in [Request -> W!Step]
    BY DEF Wrapped, WTypes, TableTypes
  <2>2. outcome' \in [Request -> W!Outcome]
    BY OutcomeTypes DEF Wrapped, WTypes, TableTypes
  <2>3. TableTypes'
    BY DEF Wrapped, WTypes, TableTypes
  <2> QED
    BY <2>1, <2>2, <2>3 DEF WTypes
<1>1s. \A x \in Request \ {r} : Same(x)
  BY DEF Wrapped, WTypes, TableTypes, Same
<1>2. Good(r)'
  BY DEF Wrapped, WTypes, TableTypes, Good, RowIsCall, HolderHolds, MakerIsDone, ResultIsMade
<1> QED
  BY <1>1, <1>1s, <1>2, OnlyOne

(* run() creates the entity and returns it, or loses the answer.           *)
LEMMA RunMadeWrapped ==
  ASSUME Wrapped, NEW r \in Request, W!RunCreates(r) \/ W!RunAmbiguous(r)
  PROVE  Wrapped'
<1> DEFINE c == call[r].payload
<1>1. /\ c \in Course
      /\ pc[r] = "run" /\ made' = made \cup {r} /\ entity' = [entity EXCEPT ![c] = r]
      /\ UNCHANGED <<call, row, watched, holds>>
  BY DEF Wrapped, WTypes, TableTypes, W!RunCreates, W!RunAmbiguous, W!Target
<1>2. \/ /\ outcome' = [outcome EXCEPT ![r] = [kind |-> "created", entity |-> r]]
         /\ pc' = [pc EXCEPT ![r] = IF holds[r] THEN "save" ELSE "done"]
      \/ /\ outcome' = [outcome EXCEPT ![r] = W!Throw("rejected")]
         /\ pc' = [pc EXCEPT ![r] = IF holds[r] THEN "delete" ELSE "done"]
  BY DEF W!RunCreates, W!RunAmbiguous, W!ThrowFromRun, W!Go
<1>3. WTypes'
  <2>1. pc' \in [Request -> W!Step]
    BY <1>2 DEF Wrapped, WTypes
  <2>0. [kind |-> "created", entity |-> r] \in W!Outcome
    BY OutcomeTypes
  <2>2. outcome' \in [Request -> W!Outcome]
    BY <1>2, <2>0, OutcomeTypes DEF Wrapped, WTypes
  <2>3. TableTypes'
    BY <1>1 DEF Wrapped, WTypes, TableTypes
  <2> QED
    BY <2>1, <2>2, <2>3 DEF WTypes
<1>3s. \A x \in Request \ {r} : Same(x)
  BY <1>1, <1>2 DEF Wrapped, WTypes, TableTypes, Same
<1>4. Good(r)'
  BY <1>1, <1>2
  DEF Wrapped, WTypes, TableTypes, Good, RowIsCall, HolderHolds, MakerIsDone, ResultIsMade, W!Throw
<1>5. EntitiesAreMade'
  BY <1>1 DEF Wrapped, WTypes, TableTypes, EntitiesAreMade
<1> QED
  BY <1>1, <1>3, <1>3s, <1>4, <1>5, OnlyOne

LEMMA RunThrowsWrapped ==
  ASSUME Wrapped, NEW r \in Request, W!RunConflicts(r) \/ W!RunRejects(r)
  PROVE  Wrapped'
<1> USE DEF W!RunConflicts, W!RunRejects, W!ThrowFromRun, W!Go, W!Throw, W!Target
<1>1. call[r].payload \in Course /\ r \notin made
  BY DEF Wrapped, WTypes, TableTypes, Good, MakerIsDone
<1>2. WTypes'
  <2>1. pc' \in [Request -> W!Step]
    BY DEF Wrapped, WTypes, TableTypes
  <2>2. outcome' \in [Request -> W!Outcome]
    BY OutcomeTypes DEF Wrapped, WTypes, TableTypes
  <2>3. TableTypes'
    BY DEF Wrapped, WTypes, TableTypes
  <2> QED
    BY <2>1, <2>2, <2>3 DEF WTypes
<1>2s. \A x \in Request \ {r} : Same(x)
  BY DEF Wrapped, WTypes, TableTypes, Same
<1>3. RowIsCall(r)' /\ HolderHolds(r)' /\ MakerIsDone(r)'
  BY <1>1 DEF Wrapped, WTypes, TableTypes, Good, RowIsCall, HolderHolds, MakerIsDone
<1>4. W!RunConflicts(r) => \E o \in made \ {r} : call[o].payload = call[r].payload
  BY <1>1 DEF Wrapped, EntitiesAreMade
<1>5. ResultIsMade(r)'
  BY <1>4 DEF Wrapped, WTypes, TableTypes, ResultIsMade
<1> QED
  BY <1>2, <1>2s, <1>3, <1>5, OnlyOne DEF Good

LEMMA ExpireWrapped ==
  ASSUME Wrapped, NEW r \in Request, W!Expire(r)
  PROVE  Wrapped'
<1> USE DEF W!Expire
<1>1. /\ row[r] \in W!Row
      /\ row'[r] = [row[r] EXCEPT !.expired = TRUE]
  BY DEF Wrapped, WTypes, TableTypes
<1>2. row'[r] \in W!Row
  <2>1. \A x \in W!Row : [x EXCEPT !.expired = TRUE] \in W!Row
    BY DEF W!Row
  <2> QED
    BY <1>1, <2>1
<1>3. WTypes'
  <2>1. pc' \in [Request -> W!Step]
    BY <1>1, <1>2 DEF Wrapped, WTypes, TableTypes
  <2>2. outcome' \in [Request -> W!Outcome]
    BY <1>1, <1>2, OutcomeTypes DEF Wrapped, WTypes, TableTypes
  <2>3. TableTypes'
    BY <1>1, <1>2 DEF Wrapped, WTypes, TableTypes
  <2> QED
    BY <2>1, <2>2, <2>3 DEF WTypes
<1>3s. \A x \in Request \ {r} : Same(x)
  BY <1>1, <1>2 DEF Wrapped, WTypes, TableTypes, Same
<1>4. Good(r)'
  BY <1>1, NoRowAssumption DEF Wrapped, WTypes, TableTypes, Good, RowIsCall, HolderHolds, MakerIsDone, ResultIsMade, W!Row
<1> QED
  BY <1>3, <1>3s, <1>4, OnlyOne

(* The removal of an entity and a crash touch no result that was given.    *)
LEMMA OthersWrapped ==
  ASSUME Wrapped, W!Crash \/ (\E c \in Course : W!Remove(c))
  PROVE  Wrapped'
<1>1. WTypes'
  <2>1. pc' \in [Request -> W!Step]
    BY DEF Wrapped, WTypes, TableTypes, W!Crash, W!Remove, W!InFlight, W!Throw
  <2>2. outcome' \in [Request -> W!Outcome]
    BY OutcomeTypes DEF Wrapped, WTypes, W!Crash, W!Remove, W!InFlight, W!Throw, TableTypes
  <2>3. TableTypes'
    BY DEF Wrapped, WTypes, W!Crash, W!Remove, W!InFlight, W!Throw, TableTypes
  <2> QED
    BY <2>1, <2>2, <2>3 DEF WTypes
<1>2. ASSUME NEW r \in Request PROVE Good(r)'
  BY DEF Wrapped, WTypes, TableTypes, Good, RowIsCall, HolderHolds, MakerIsDone, ResultIsMade,
         W!Crash, W!Remove, W!InFlight, W!Throw
<1>3. EntitiesAreMade'
  BY DEF Wrapped, WTypes, TableTypes, EntitiesAreMade, W!Crash, W!Remove
<1> QED
  BY <1>1, <1>2, <1>3 DEF Wrapped

(* Every step of the wrapper keeps it.                                     *)
LEMMA StepKeepsWrapped ==
  ASSUME Wrapped, [W!Next]_(W!vars)
  PROVE  Wrapped'
<1>1. CASE UNCHANGED W!vars
  BY <1>1
  DEF W!vars, Wrapped, WTypes, TableTypes, Good, RowIsCall, HolderHolds, MakerIsDone, ResultIsMade, EntitiesAreMade
<1>2. ASSUME NEW r \in Request,
             W!Arrival(r) \/ W!Progress(r) \/ W!CallFault(r) \/ W!Expire(r)
      PROVE  Wrapped'
  BY <1>2, ArrivalWrapped, CreateWrapped, RefindWrapped, PollWrapped, ReplayWrapped, SaveWrapped,
     DeleteWrapped, FaultWrapped, RunMadeWrapped, RunThrowsWrapped, ExpireWrapped
  DEF W!Progress, W!CallFault
<1> QED
  BY <1>1, <1>2, OthersWrapped DEF W!Next

(***************************************************************************)
(* The wrapper and the service inside of it                                *)
(***************************************************************************)
STypes ==
  /\ course \in [Course -> {"draft", "published", "deleted"}]
  /\ enrollment \in [{student} \X Course -> E!Row \cup {NoRow}]
  /\ step \in [Request -> E!Step]
  /\ about \in [Request -> [pair : {student} \X Course, progress : {0}]]
  /\ answer \in [Request -> E!Kind]

(* There is an id where there is a row.                                    *)
IdsAreRows == \A c \in Course : entity[c] = Nobody <=> enrollment[<<student, c>>] = NoRow

(* What a request works on inside of run() is what it asked for.           *)
WorksOnItsCall ==
  \A r \in Request :
    /\ pc[r] \in {"idle", "create", "refind"} => step[r] = "idle"
    /\ pc[r] = "run" => step[r] = "idle" \/ about[r].pair = PairOf(r)

(* An enrollment goes only with its course, and so it is made once.        *)
MadeOnce ==
  \A m \in made :
    /\ step[m] = "done"
    /\ outcome[m].kind = "rejected" => answer[m] = "error"
    /\ entity[call[m].payload] = m \/ course[call[m].payload] = "deleted"
    /\ \A o \in made : call[o].payload = call[m].payload => o = m

Linked == STypes /\ IdsAreRows /\ WorksOnItsCall /\ MadeOnce

LEMMA InitLinked == Init => Linked
<1> SUFFICES ASSUME Init PROVE Linked
  OBVIOUS
<1>1. E!AnyCall \in E!Call
  <2>1. PICK c \in Course : TRUE
    BY CourseAssumption
  <2>2. [pair |-> <<student, c>>, progress |-> 0] \in E!Call
    BY DEF E!Call, E!Pair
  <2> QED
    BY <2>2 DEF E!AnyCall
<1> QED
  BY <1>1
  DEF Init, W!Init, E!Init, E!Step, E!Kind, E!Pair, E!Call,
      Linked, STypes, IdsAreRows, WorksOnItsCall, MadeOnce

(* What a statement of run() does to the row, and what it answers.         *)
LEMMA StatementEffect ==
  ASSUME Wrapped, Linked, NEW r \in Request, pc[r] = "run", Statement(r)
  PROVE  /\ STypes' /\ course' = course
         /\ \A o \in Request \ {r} : step'[o] = step[o] /\ about'[o] = about[o] /\ answer'[o] = answer[o]
         /\ (step'[r] # "idle" /\ about'[r].pair = PairOf(r)) \/ step'[r] = "done"
         /\ \A p \in {student} \X Course : p # PairOf(r) => enrollment'[p] = enrollment[p]
         /\ ~ Inserted(r) => enrollment' = enrollment
         /\ Inserted(r) =>
              /\ step'[r] = "done" /\ course[call[r].payload] # "deleted"
              /\ \/ answer'[r] = "enrolled"
                 \/ answer'[r] = "error" /\ "dbAmbiguous" \in Faults
         /\ step'[r] = "done" /\ answer'[r] = "enrolled" => Inserted(r)
         /\ step'[r] = "done" /\ answer'[r] = "conflict" =>
              ~ Inserted(r) /\ enrollment[PairOf(r)] # NoRow
<1>0. call[r].payload \in Course /\ PairOf(r) \in {student} \X Course
  BY DEF Wrapped, WTypes, TableTypes, PairOf
<1> USE DEF E!Go, E!Finish, E!CourseOf, E!Exists, E!Blocks, E!Step, E!Kind
<1>1. CASE E!FindCourse(r, PairOf(r))
  <2>1. /\ about' \in [Request -> [pair : {student} \X Course, progress : {0}]]
        /\ about'[r].pair = PairOf(r) /\ \A o \in Request \ {r} : about'[o] = about[o]
    BY <1>0, <1>1 DEF E!FindCourse, Linked, STypes
  <2>2. /\ step' \in [Request -> E!Step] /\ answer' \in [Request -> E!Kind]
        /\ step'[r] \in {"check", "done"} /\ answer'[r] \in {answer[r], "notFound", "selfEnrollment"}
        /\ step'[r] = "done" => answer'[r] \in {"notFound", "selfEnrollment"}
        /\ \A o \in Request \ {r} : step'[o] = step[o] /\ answer'[o] = answer[o]
    BY <1>1 DEF E!FindCourse, Linked, STypes
  <2>3. enrollment' = enrollment /\ course' = course
    BY <1>1 DEF E!FindCourse
  <2> QED
    BY <2>1, <2>2, <2>3 DEF Linked, STypes, Inserted
<1>5. CASE FindCourseFails(r)
  BY <1>5 DEF FindCourseFails, Linked, STypes, Inserted
<1>2. CASE E!CheckExisting(r) \/ E!FindDropped(r)
  BY <1>0, <1>2 DEF E!CheckExisting, E!FindDropped, Linked, STypes, WorksOnItsCall, Inserted
<1>3. CASE E!CallFails(r)
  BY <1>0, <1>3 DEF E!CallFails, Linked, STypes, WorksOnItsCall, Inserted
<1>4. CASE E!InsertEnrollment(r) \/ E!InsertAmbiguous(r)
  <2>1. about[r].pair = PairOf(r) /\ course[PairOf(r)[2]] = course[call[r].payload]
    BY <1>4 DEF E!InsertEnrollment, E!InsertAmbiguous, Linked, WorksOnItsCall, PairOf
  <2>2. E!NewEnrollment \in E!Row /\ E!NewEnrollment # NoRow
    BY NoRowAssumption DEF E!NewEnrollment, E!Row
  <2>3. CASE UNCHANGED enrollment
    BY <1>0, <1>4, <2>1, <2>2, <2>3 DEF E!InsertEnrollment, E!InsertAmbiguous, Linked, STypes, Inserted
  <2>4. CASE enrollment' = [enrollment EXCEPT ![PairOf(r)] = E!NewEnrollment]
    BY <1>0, <1>4, <2>1, <2>2, <2>4 DEF E!InsertEnrollment, E!InsertAmbiguous, Linked, STypes, Inserted
  <2> QED
    BY <1>4, <2>1, <2>3, <2>4 DEF E!InsertEnrollment, E!InsertAmbiguous
<1> QED
  BY <1>1, <1>2, <1>3, <1>4, <1>5 DEF Statement

LEMMA RunIsWrapped ==
  ASSUME Wrapped, Linked, NEW r \in Request, Run(r)
  PROVE  \/ W!RunCreates(r) \/ W!RunAmbiguous(r) \/ W!RunConflicts(r) \/ W!RunRejects(r)
         \/ UNCHANGED W!vars
<1> DEFINE c == call[r].payload
<1>1. c \in Course /\ W!Target(r) = c /\ PairOf(r) = <<student, c>>
  BY DEF Wrapped, WTypes, TableTypes, W!Target, PairOf
<1>2. entity[c] = Nobody <=> enrollment[PairOf(r)] = NoRow
  BY <1>1 DEF Linked, IdsAreRows
<1>3. CASE Inserted(r)
  <2>1. /\ entity[c] = Nobody /\ step'[r] = "done"
        /\ entity' = [entity EXCEPT ![c] = r] /\ made' = made \cup {r}
    BY <1>2, <1>3, StatementEffect DEF Run, Record, Inserted
  <2>2. CASE answer'[r] = "enrolled"
    BY <1>1, <2>1, <2>2 DEF Run, Return, W!RunCreates
  <2>3. CASE answer'[r] = "error" /\ "dbAmbiguous" \in Faults
    BY <1>1, <2>1, <2>3 DEF Run, Return, W!RunAmbiguous
  <2> QED
    BY <1>3, <2>2, <2>3, StatementEffect DEF Run
<1>4. CASE ~ Inserted(r)
  <2>1. UNCHANGED <<entity, made>>
    BY <1>4 DEF Run, Record
  <2>2. CASE step'[r] # "done"
    BY <2>1, <2>2 DEF Run, Return, W!vars
  <2>3. CASE step'[r] = "done" /\ answer'[r] = "conflict"
    BY <1>1, <1>2, <2>1, <2>3, StatementEffect DEF Run, Return, W!RunConflicts
  <2>4. CASE step'[r] = "done" /\ answer'[r] # "conflict"
    BY <1>4, <2>1, <2>4, StatementEffect DEF Run, Return, W!RunRejects
  <2> QED
    BY <2>2, <2>3, <2>4
<1> QED
  BY <1>3, <1>4

(* Each step of the API is one of the wrapper, or none.                    *)
LEMMA StepIsWrapped ==
  ASSUME Wrapped, Linked, [Next]_vars
  PROVE  [W!Next]_(W!vars)
<1> USE DEF W!vars, wrapper
<1>1. CASE UNCHANGED vars
  BY <1>1 DEF vars
<1>2. ASSUME NEW r \in Request, Arrive(r) \/ Wrap(r) \/ WrapFails(r) \/ Expire(r)
      PROVE  W!Next
  BY <1>2 DEF Arrive, Wrap, WrapFails, Expire, W!Next, W!Progress, W!CallFault
<1>3. ASSUME NEW r \in Request, Run(r)
      PROVE  [W!Next]_(W!vars)
  BY <1>3, RunIsWrapped DEF W!Next, W!Progress, W!CallFault
<1>4. ASSUME NEW c \in Course, PublishCourse(c) PROVE UNCHANGED W!vars
  BY <1>4 DEF PublishCourse
<1>5. ASSUME NEW c \in Course, RemoveCourse(c) PROVE [W!Next]_(W!vars)
  <2>1. CASE entity[c] = Nobody
    BY <1>5, <2>1 DEF RemoveCourse, Wrapped, WTypes, TableTypes
  <2>2. CASE entity[c] # Nobody
    BY <1>5, <2>2 DEF RemoveCourse, W!Remove, W!Next
  <2> QED
    BY <2>1, <2>2
<1>6. ASSUME NEW q \in Reader, ReadList(q) \/ ReadListFails(q) PROVE UNCHANGED W!vars
  BY <1>6 DEF ReadList, ReadListFails
<1>7. CASE Crash
  BY <1>7 DEF Crash, W!Next
<1> QED
  BY <1>1, <1>2, <1>3, <1>4, <1>5, <1>6, <1>7 DEF Next

(* What a step outside of run() leaves to the service.                     *)
Outside(r) ==
  /\ \A o \in Request \ {r} : pc'[o] = pc[o] /\ call'[o] = call[o] /\ outcome'[o] = outcome[o]
  /\ pc[r] = "idle" \/ call'[r] = call[r]
  /\ pc'[r] \in {"idle", "create", "refind", "run"} => pc[r] \in {"idle", "create", "refind"}
  /\ outcome'[r].kind = "rejected" => outcome[r].kind = "rejected"
  /\ UNCHANGED <<entity, made>>

LEMMA ArriveIsOutside ==
  ASSUME Wrapped, NEW r \in Request, W!Arrival(r) \/ W!Refind(r)
  PROVE  Outside(r)
<1> USE DEF Wrapped, WTypes, TableTypes, W!Go, W!Finish, W!Throw, Outside
<1>1. ASSUME NEW o \in Request, NEW p \in Course, W!ResolveExisting(r, o, p)
      PROVE  /\ pc' = [pc EXCEPT ![r] = pc'[r]] /\ pc'[r] \in {"done", "replay", "wait"}
             /\ \A x \in Request \ {r} : outcome'[x] = outcome[x]
             /\ outcome'[r].kind = "rejected" => outcome[r].kind = "rejected"
             /\ UNCHANGED <<entity, made>>
  BY <1>1 DEF W!ResolveExisting
<1>2. CASE W!Refind(r)
  BY <1>1, <1>2 DEF W!Refind, W!ActiveRowsOf, W!RowsOf
<1>3. ASSUME NEW p \in Course, W!StartWithoutKey(r, p) \/ W!RejectLongKey(r, p)
      PROVE  Outside(r)
  BY <1>3 DEF W!StartWithoutKey, W!RejectLongKey, W!Arrive
<1>4. ASSUME NEW p \in Course, NEW k \in Key, W!Find(r, k, p)
      PROVE  Outside(r)
  BY <1>1, <1>4 DEF W!Find, W!Arrive, W!ActiveRowsOf, W!RowsOf
<1> QED
  BY <1>2, <1>3, <1>4 DEF W!Arrival

LEMMA WrapIsOutside ==
  ASSUME Wrapped, NEW r \in Request, Arrive(r) \/ Wrap(r) \/ WrapFails(r) \/ Expire(r)
  PROVE  Outside(r)
<1> USE DEF Wrapped, WTypes, TableTypes, W!Go, W!Finish, W!Throw, Outside
<1>1. CASE W!Create(r) \/ W!CreateAmbiguous(r) \/ W!Expire(r)
  BY <1>1 DEF W!Create, W!CreateAmbiguous, W!Expire
<1>2. CASE W!Poll(r) \/ W!Replay(r) \/ W!CallFails(r)
  BY <1>2 DEF W!Poll, W!Replay, W!CallFails
<1>3. CASE W!SaveCompleted(r) \/ W!SaveLost(r) \/ W!SaveAmbiguous(r) \/ W!DeleteRow(r)
  BY <1>3 DEF W!SaveCompleted, W!SaveLost, W!SaveAmbiguous, W!DeleteRow, W!ThrowFromRun
<1> QED
  BY <1>1, <1>2, <1>3, ArriveIsOutside DEF Arrive, Wrap, WrapFails, Expire

LEMMA OutsideLinked ==
  ASSUME Wrapped, Linked, NEW r \in Request, Outside(r), UNCHANGED service
  PROVE  Linked'
<1>1. STypes' /\ IdsAreRows'
  BY DEF Linked, STypes, IdsAreRows, Outside, service
<1>2. WorksOnItsCall'
  BY DEF Linked, WorksOnItsCall, Outside, service, PairOf
<1>3. \A m \in made : call'[m] = call[m]
  BY DEF Outside, Wrapped, WTypes, TableTypes, Good, MakerIsDone
<1>4. MadeOnce'
  BY <1>3 DEF Linked, MadeOnce, Outside, service, Wrapped, WTypes, TableTypes
<1> QED
  BY <1>1, <1>2, <1>4 DEF Linked

LEMMA RunLinked ==
  ASSUME Wrapped, Linked, NEW r \in Request, Run(r)
  PROVE  Linked'
<1> DEFINE c == call[r].payload
<1>1. c \in Course /\ PairOf(r) = <<student, c>> /\ pc[r] = "run" /\ call' = call /\ r \notin made
  BY DEF Wrapped, WTypes, TableTypes, PairOf, Run, Good, MakerIsDone
<1>2. /\ pc' = [pc EXCEPT ![r] = pc'[r]] /\ pc'[r] \in {"run", "save", "delete", "done"}
      /\ pc'[r] # "run" <=> step'[r] = "done"
      /\ \A o \in Request \ {r} : outcome'[o] = outcome[o]
      /\ step'[r] = "done" /\ answer'[r] = "enrolled" => outcome'[r].kind = "created"
  BY <1>1 DEF Run, Return, W!ThrowFromRun, W!Go, W!Throw, Wrapped, WTypes
<1>3. WorksOnItsCall'
  <2>1. \A o \in Request : PairOf(o)' = PairOf(o)
    BY <1>1 DEF PairOf
  <2>2. pc'[r] = "run" => about'[r].pair = PairOf(r)
    BY <1>1, <1>2, StatementEffect DEF Run
  <2>3. \A o \in Request \ {r} : pc'[o] = pc[o] /\ step'[o] = step[o] /\ about'[o] = about[o]
    BY <1>1, <1>2, StatementEffect DEF Run, Wrapped, WTypes
  <2> QED
    BY <1>2, <2>1, <2>2, <2>3 DEF Linked, WorksOnItsCall, Wrapped, WTypes
<1>4. CASE Inserted(r)
  <2>1. /\ entity' = [entity EXCEPT ![c] = r] /\ made' = made \cup {r}
        /\ entity[c] = Nobody /\ course[c] # "deleted" /\ enrollment'[PairOf(r)] # NoRow
    BY <1>1, <1>4 , StatementEffect DEF Run, Record, Inserted, Linked, IdsAreRows
  <2>2. IdsAreRows'
    BY <1>1, <2>1, StatementEffect, NobodyAssumption DEF Run, Linked, IdsAreRows, Wrapped, WTypes, TableTypes
  <2>3. \A m \in made : call[m].payload # c /\ m \in Request /\ call[m].payload \in Course
    BY <2>1, NobodyAssumption DEF Linked, MadeOnce, Wrapped, WTypes, TableTypes
  <2>4. MadeOnce'
    BY <1>1, <1>2, <1>4, <2>1, <2>3, StatementEffect
    DEF Run, Linked, MadeOnce, Wrapped, WTypes, TableTypes
  <2> QED
    BY <1>3, <2>2, <2>4, StatementEffect DEF Run, Linked
<1>5. CASE ~ Inserted(r)
  <2>1. UNCHANGED <<entity, made, enrollment>>
    BY <1>1, <1>5, StatementEffect DEF Run, Record
  <2>2. IdsAreRows'
    BY <2>1 DEF Linked, IdsAreRows
  <2>3. MadeOnce'
    BY <1>1, <1>2, <2>1, StatementEffect DEF Run, Linked, MadeOnce, Wrapped, WTypes, TableTypes
  <2> QED
    BY <1>1, <1>3, <2>2, <2>3, StatementEffect DEF Run, Linked
<1> QED
  BY <1>4, <1>5

LEMMA CourseLinked ==
  ASSUME Wrapped, Linked, NEW c \in Course, PublishCourse(c) \/ RemoveCourse(c)
  PROVE  Linked'
<1> USE DEF Linked, STypes
<1>1. CASE PublishCourse(c)
  BY <1>1 DEF PublishCourse, E!PublishCourse, wrapper, IdsAreRows, WorksOnItsCall, MadeOnce, PairOf
<1>2. CASE RemoveCourse(c)
  <2>1. /\ course' = [course EXCEPT ![c] = "deleted"]
        /\ enrollment' = [p \in {student} \X Course |-> IF p[2] = c THEN NoRow ELSE enrollment[p]]
        /\ entity' = [entity EXCEPT ![c] = Nobody]
        /\ UNCHANGED <<pc, call, outcome, made, step, about, answer>>
    BY <1>2 DEF RemoveCourse, E!RemoveCourse, E!Pair
  <2>2. STypes'
    BY <2>1
  <2>3. IdsAreRows'
    BY <2>1 DEF IdsAreRows, Wrapped, WTypes, TableTypes
  <2>4. WorksOnItsCall'
    BY <2>1 DEF WorksOnItsCall, PairOf
  <2>5. MadeOnce'
    BY <2>1 DEF MadeOnce, Wrapped, WTypes, TableTypes
  <2> QED
    BY <2>2, <2>3, <2>4, <2>5
<1> QED
  BY <1>1, <1>2

LEMMA CrashLinked ==
  ASSUME Wrapped, Linked, Crash
  PROVE  Linked'
<1> USE DEF Linked, STypes
<1>1. /\ UNCHANGED <<call, entity, made, course, enrollment, about>>
      /\ \A r \in Request : pc'[r] = pc[r] \/ pc'[r] = "done"
      /\ \A r \in Request : outcome'[r] = outcome[r] \/ outcome'[r].kind = "lost"
  BY DEF Crash, W!Crash, W!InFlight, W!Throw, E!Crash, service
<1>2. /\ step' \in [Request -> E!Step] /\ answer' \in [Request -> E!Kind]
      /\ \A r \in Request :
           \/ step'[r] = step[r] /\ answer'[r] = answer[r]
           \/ step'[r] = "done" /\ step[r] \notin {"idle", "done"}
  BY DEF Crash, E!Crash, E!InFlight, E!Step, E!Kind, service
<1>3. STypes' /\ IdsAreRows'
  BY <1>1, <1>2 DEF IdsAreRows
<1>4. WorksOnItsCall'
  BY <1>1, <1>2 DEF WorksOnItsCall, PairOf
<1>5. MadeOnce'
  <2>1. \A m \in made : /\ m \in Request /\ step'[m] = "done" /\ answer'[m] = answer[m]
                        /\ outcome'[m].kind = "rejected" => outcome[m].kind = "rejected"
    BY <1>1, <1>2 DEF MadeOnce, Wrapped, WTypes, TableTypes
  <2> QED
    BY <1>1, <2>1 DEF MadeOnce
<1> QED
  BY <1>3, <1>4, <1>5

LEMMA StepKeepsLinked ==
  ASSUME Wrapped, Linked, [Next]_vars
  PROVE  Linked'
<1>1. ASSUME UNCHANGED <<wrapper, service>> PROVE Linked'
  BY <1>1 DEF wrapper, service, Linked, STypes, IdsAreRows, WorksOnItsCall, MadeOnce, PairOf
<1>2. ASSUME NEW r \in Request, Arrive(r) \/ Wrap(r) \/ WrapFails(r) \/ Expire(r)
      PROVE  Linked'
  BY <1>2, WrapIsOutside, OutsideLinked DEF Arrive, Wrap, WrapFails, Expire
<1>3. ASSUME NEW q \in Reader, ReadList(q) \/ ReadListFails(q) PROVE Linked'
  BY <1>1, <1>3 DEF ReadList, ReadListFails
<1> QED
  BY <1>1, <1>2, <1>3, RunLinked, CourseLinked, CrashLinked DEF Next, vars

(***************************************************************************)
(* The theorems                                                            *)
(***************************************************************************)
(* The wrapper stays in a state it can be in, and the service works on the *)
(* call that the wrapper is running: how far enroll is (lines 38-48), and  *)
(* whose row an enrollment is.                                             *)
THEOREM WrappedAndLinked == Spec => [](Wrapped /\ Linked)
<1>1. Init => Wrapped /\ Linked
  BY InitWrapped, InitLinked
<1>2. (Wrapped /\ Linked) /\ [Next]_vars => (Wrapped /\ Linked)'
  BY StepIsWrapped, StepKeepsWrapped, StepKeepsLinked
<1> QED
  BY <1>1, <1>2, PTL DEF Spec

(* POST /enrollments is the wrapper around some run(): each statement of   *)
(* enrollOnce that ends it is one of the four ways run() may end, and each *)
(* other step is one of the wrapper's, a removal of an enrollment, or none *)
(* the wrapper can see (enrollments.service.ts:33-68).                     *)
THEOREM ApiImplementsIdempotency == Spec => ImplementsIdempotency
<1>1. Init => W!Init
  BY DEF Init
<1>2. Wrapped /\ Linked /\ [Next]_vars => [W!Next]_(W!vars)
  BY StepIsWrapped
<1> QED
  BY <1>1, <1>2, WrappedAndLinked, PTL DEF Spec, W!Spec, ImplementsIdempotency

LEMMA StatusOfOutcome ==
  ASSUME NEW r \in Request
  PROVE  /\ Status(r) = CREATED <=> outcome[r].kind \in {"created", "replayed"}
         /\ outcome[r].kind \in {"created", "error", "lost"} => ~ Refused(Status(r))
         /\ outcome[r].kind = "rejected" /\ answer[r] = "error" => ~ Refused(Status(r))
<1> USE DEF Status, StatusOf, Thrown, ThrownByRun, HttpException, QueryFailedError, Plain, Refused,
            PostgresStatus, UNIQUE_VIOLATION, FOREIGN_KEY_VIOLATION, INVALID_TEXT_REPRESENTATION,
            CREATED, BAD_REQUEST, NOT_FOUND, CONFLICT, INTERNAL_SERVER_ERROR
<1>1. CASE outcome[r].kind \in {"created", "replayed"}
  BY <1>1
<1>2. CASE outcome[r].kind \notin {"created", "replayed"}
  <2>1. Status(r) \in {400, 404, 409, 500}
    BY <1>2
  <2>2. outcome[r].kind \in {"error", "lost"} \/ (outcome[r].kind = "rejected" /\ answer[r] = "error")
          => Status(r) = 500
    BY <1>2
  <2> QED
    BY <1>2, <2>1, <2>2
<1> QED
  BY <1>1, <1>2

(* A request that is refused with a 4xx has not enrolled the student, for  *)
(* every interleaving and fault (http-exception.filter.ts:42-114).         *)
THEOREM RefusalChangedNothing == Spec => []RefusedChangedNothing
<1>1. Wrapped /\ Linked => RefusedChangedNothing
  <2> SUFFICES ASSUME Wrapped, Linked, NEW r \in made
               PROVE  ~ Refused(Status(r))
    BY DEF RefusedChangedNothing
  <2>1. r \in Request
    BY DEF Wrapped, WTypes, TableTypes
  <2>2. /\ outcome[r].kind \in {"created", "rejected", "error", "lost"}
        /\ outcome[r].kind = "rejected" => answer[r] = "error"
    BY <2>1 DEF Wrapped, Good, MakerIsDone, Linked, MadeOnce
  <2> QED
    BY <2>1, <2>2, StatusOfOutcome
<1> QED
  BY <1>1, WrappedAndLinked, PTL

(* ALREADY_ENROLLED is said only because of another request that enrolled  *)
(* the student (enrollments.service.ts:154-170, 204-215).                  *)
THEOREM ConflictNamesAWinner == Spec => []ConflictHasAWinner
<1>1. Wrapped => ConflictHasAWinner
  BY DEF Wrapped, Good, ResultIsMade, ConflictHasAWinner
<1> QED
  BY <1>1, WrappedAndLinked, PTL

(* All answers 201 for one course name one enrollment, however many keys,  *)
(* retries and failures there are (README.md:22).                          *)
THEOREM OneEnrollmentForAll == Spec => []DoubleClickIsOneEnrollment
<1>1. Wrapped /\ Linked => DoubleClickIsOneEnrollment
  <2> SUFFICES ASSUME Wrapped, Linked, NEW a \in Request, NEW b \in Request,
                      Status(a) = CREATED, Status(b) = CREATED,
                      call[a].payload = call[b].payload
               PROVE  outcome[a].entity = outcome[b].entity
    BY DEF DoubleClickIsOneEnrollment
  <2>1. ASSUME NEW r \in Request, Status(r) = CREATED
        PROVE  outcome[r].entity \in made /\ call[outcome[r].entity].payload = call[r].payload
    BY <2>1, StatusOfOutcome DEF Wrapped, Good, ResultIsMade
  <2> QED
    BY <2>1 DEF Linked, MadeOnce
<1> QED
  BY <1>1, WrappedAndLinked, PTL
==============================================================================
