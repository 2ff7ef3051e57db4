---------------------------- MODULE LedgerProofs ----------------------------
(***************************************************************************)
(* The table of idempotency keys implements the ledger of keys, for any    *)
(* number of requests, keys, payloads and polls, and every fault but one:  *)
(* a call that fails after it took effect (NoAmbiguity).  A save of that   *)
(* kind is undone by the catch block, and a closed key opens again.        *)
(***************************************************************************)
EXTENDS IdempotencyProofs, IdempotencyRefinement

NoAmbiguity == "dbAmbiguous" \notin Faults

USE DEF Step, Kind

(***************************************************************************)
(* The invariant                                                           *)
(***************************************************************************)
Completed(o) == row[o] # NoRow /\ row[o].status = "completed"

(* The holder of a row is the only one who completes or deletes it, so it  *)
(* is in process until then; and what is being replayed is in the table.   *)
Settled(r) ==
  /\ pc[r] \in {"run", "save"} /\ holds[r] => row[r].status = "processing"
  /\ pc[r] = "delete" => row[r] # NoRow /\ row[r].status = "processing"
  /\ pc[r] = "replay" => outcome[r].kind = "replayed" /\ Completed(outcome[r].entity)

LInv == IInv /\ \A r \in Request : Settled(r)

(***************************************************************************)
(* What a step does                                                        *)
(***************************************************************************)
RequestStep(r) == Arrival(r) \/ Progress(r) \/ CallFault(r)

(* The row that changes is that of r, and nobody else moves.               *)
Alone(r) ==
  \A q \in Request \ {r} :
    pc'[q] = pc[q] /\ call'[q] = call[q] /\ holds'[q] = holds[q] /\ outcome'[q] = outcome[q]

LEMMA StepIsAlone ==
  ASSUME TypeOK, NoAmbiguity, NEW r \in Request, RequestStep(r)
  PROVE  Alone(r)
<1> USE DEF TypeOK, Alone, Go, Finish
<1>1. CASE Arrival(r)
  <2>1. ASSUME NEW p \in Payload, StartWithoutKey(r, p) PROVE Alone(r)
    BY <2>1 DEF StartWithoutKey, Arrive
  <2>2. ASSUME NEW p \in Payload, RejectLongKey(r, p) PROVE Alone(r)
    BY <2>2 DEF RejectLongKey, Arrive
  <2>3. ASSUME NEW p \in Payload, NEW k \in Key, Find(r, k, p) PROVE Alone(r)
    BY <2>3 DEF Find, Arrive, ResolveExisting
  <2> QED
    BY <1>1, <2>1, <2>2, <2>3 DEF Arrival
<1>2. CASE Create(r)
  BY <1>2 DEF Create
<1>3. CASE Refind(r)
  BY <1>3 DEF Refind, ResolveExisting
<1>4. CASE Poll(r)
  BY <1>4 DEF Poll
<1>5. CASE Replay(r) \/ RunCreates(r) \/ RunConflicts(r) \/ RunRejects(r)
  BY <1>5 DEF Replay, RunCreates, RunConflicts, RunRejects, ThrowFromRun
<1>6. CASE SaveCompleted(r) \/ DeleteRow(r)
  BY <1>6 DEF SaveCompleted, DeleteRow
<1>7. CASE CallFault(r)
  BY <1>7 DEF CallFault, CallFails, CreateAmbiguous, RunAmbiguous, SaveLost, SaveAmbiguous,
     ThrowFromRun, NoAmbiguity
<1> QED
  BY <1>1, <1>2, <1>3, <1>4, <1>5, <1>6, <1>7 DEF RequestStep, Progress

(* The steps of a request that leave the table alone: the request ends     *)
(* without a replay, goes on without holding a row, finds a completed row, *)
(* or throws while it holds one.                                           *)
Reads(r) ==
  /\ row' = row /\ pc[r] # "done"
  /\ \/ pc'[r] = "done" /\ outcome'[r].kind # "replayed"
     \/ pc'[r] \in {"create", "refind", "wait"}
     \/ pc'[r] = "run" /\ ~ holds'[r]
     \/ /\ pc'[r] = "replay" /\ outcome'[r].kind = "replayed"
        /\ outcome'[r].entity \in Request /\ Completed(outcome'[r].entity)
     \/ pc[r] \in {"run", "save"} /\ holds[r] /\ holds'[r] /\ pc'[r] \in {"save", "delete"}

(* The steps that write the table, and the one that answers from it.       *)
Writes(r) == Create(r) \/ SaveCompleted(r) \/ DeleteRow(r)

Serves(r) == Replay(r) /\ pc'[r] = "done" /\ outcome' = outcome

LEMMA ResolveReads ==
  ASSUME IInv, NEW r \in Request, NEW o \in Request, NEW p \in Payload, row[o] # NoRow,
         pc[r] # "done", ResolveExisting(r, o, p)
  PROVE  Reads(r)
<1>1. /\ pc \in [Request -> Step] /\ outcome \in [Request -> Outcome]
      /\ row[o].status = "completed" => row[o].body = o
  BY DEF IInv, TypeOK, RowInv
<1>2. CASE Finish(r, Throw("mismatch"))
  BY <1>1, <1>2 DEF Reads, ResolveExisting, Finish, Go, Throw
<1>3. CASE row[o].status = "completed" /\ Go(r, "replay")
           /\ outcome' = [outcome EXCEPT ![r] = [kind |-> "replayed", entity |-> row[o].body]]
  BY <1>1, <1>3 DEF Reads, ResolveExisting, Go, Completed
<1>4. CASE Go(r, "wait")
  BY <1>1, <1>4 DEF Reads, ResolveExisting, Go
<1> QED
  BY <1>2, <1>3, <1>4 DEF ResolveExisting

LEMMA StepReads ==
  ASSUME LInv, NoAmbiguity, NEW r \in Request, RequestStep(r)
  PROVE  Reads(r) \/ Writes(r) \/ Serves(r)
<1>1. /\ IInv /\ Settled(r) /\ pc \in [Request -> Step] /\ outcome \in [Request -> Outcome]
      /\ call \in [Request -> [header : Header, payload : Payload]]
      /\ holds \in [Request -> BOOLEAN] /\ row \in [Request -> Row \cup {NoRow}]
  BY DEF LInv, IInv, TypeOK
<1>h. /\ pc[r] \in {"idle", "create", "refind", "wait", "replay"} => ~ holds[r]
      /\ pc[r] = "save" => holds[r]
  BY <1>1 DEF IInv, HolderInv
<1>f. ASSUME row' = row, pc[r] # "done", NEW k \in Kind \ {"replayed"}, Finish(r, Throw(k))
      PROVE  Reads(r)
  BY <1>1, <1>f DEF Finish, Go, Throw, Reads
<1>2. CASE Arrival(r)
  <2>1. ASSUME NEW p \in Payload, StartWithoutKey(r, p) PROVE Reads(r)
    BY <1>1, <1>h, <2>1 DEF StartWithoutKey, Arrive, Go, Reads
  <2>2. ASSUME NEW p \in Payload, RejectLongKey(r, p) PROVE Reads(r)
    BY <1>f, <2>2 DEF RejectLongKey, Arrive
  <2>3. ASSUME NEW p \in Payload, NEW k \in Key, Find(r, k, p) PROVE Reads(r)
    <3>1. CASE Go(r, "create") /\ row' = row
      BY <1>1, <2>3, <3>1 DEF Find, Arrive, Go, Reads
    <3>2. ASSUME NEW o \in ActiveRowsOf(k), ResolveExisting(r, o, p) PROVE Reads(r)
      <4>1. o \in Request /\ row[o] # NoRow
        BY DEF ActiveRowsOf, RowsOf
      <4> QED
        BY <1>1, <2>3, <3>2, <4>1, ResolveReads DEF Find, Arrive
    <3> QED
      BY <2>3, <3>1, <3>2 DEF Find
  <2> QED
    BY <1>2, <2>1, <2>2, <2>3 DEF Arrival
<1>3. CASE Refind(r)
  <2>1. CASE Go(r, "run") /\ row' = row /\ holds' = holds
    BY <1>1, <1>h, <1>3, <2>1 DEF Refind, Go, Reads
  <2>2. ASSUME NEW o \in ActiveRowsOf(call[r].header), ResolveExisting(r, o, call[r].payload)
        PROVE  Reads(r)
    <3>1. o \in Request /\ row[o] # NoRow
      BY DEF ActiveRowsOf, RowsOf
    <3> QED
      BY <1>1, <1>3, <2>2, <3>1, ResolveReads DEF Refind
  <2> QED
    BY <1>3, <2>1, <2>2 DEF Refind
<1>4. CASE Poll(r)
  <2> DEFINE o == watched[r]
  <2>1. /\ pc[r] = "wait" /\ row' = row /\ o \in Request
        /\ row[o] # NoRow /\ row[o].status = "completed" => row[o].body = o
    BY <1>1, <1>4 DEF Poll, IInv, ReaderInv, RowInv
  <2>2. CASE Finish(r, Throw("inProgress")) \/ Finish(r, Throw("mismatch"))
    BY <1>f, <2>1, <2>2
  <2>3. CASE /\ row[o] # NoRow /\ row[o].status = "completed" /\ Go(r, "replay")
             /\ outcome' = [outcome EXCEPT ![r] = [kind |-> "replayed", entity |-> row[o].body]]
    BY <1>1, <2>1, <2>3 DEF Go, Reads, Completed
  <2>4. CASE UNCHANGED <<pc, outcome>>
    BY <1>1, <2>1, <2>4 DEF Reads
  <2> QED
    BY <1>4, <2>2, <2>3, <2>4 DEF Poll
<1>5. CASE Replay(r)
  <2>1. CASE Go(r, "done") /\ UNCHANGED outcome
    BY <1>1, <1>5, <2>1 DEF Serves, Go
  <2>2. CASE Finish(r, Throw("gone"))
    BY <1>5, <1>f, <2>2 DEF Replay
  <2> QED
    BY <1>5, <2>1, <2>2 DEF Replay
<1>6. CASE RunCreates(r)
  <2>1. pc[r] = "run" /\ row' = row /\ holds' = holds
        /\ outcome'[r].kind = "created" /\ pc'[r] = IF holds[r] THEN "save" ELSE "done"
    BY <1>1, <1>6 DEF RunCreates, Go
  <2> QED
    BY <1>1, <2>1 DEF Reads
<1>7. CASE RunConflicts(r) \/ RunRejects(r) \/ SaveLost(r)
  <2>1. pc[r] \in {"run", "save"} /\ row' = row /\ holds' = holds
        /\ outcome'[r].kind # "replayed" /\ pc'[r] = IF holds[r] THEN "delete" ELSE "done"
    BY <1>1, <1>7 DEF RunConflicts, RunRejects, SaveLost, ThrowFromRun, Go, Throw
  <2> QED
    BY <1>1, <2>1 DEF Reads
<1>8. CASE CallFails(r)
  BY <1>8, <1>f DEF CallFails
<1>9. CASE Create(r) \/ SaveCompleted(r) \/ DeleteRow(r)
  BY <1>9 DEF Writes
<1> QED
  BY <1>2, <1>3, <1>4, <1>5, <1>6, <1>7, <1>8, <1>9
     DEF RequestStep, Progress, CallFault, CreateAmbiguous, RunAmbiguous, SaveAmbiguous, NoAmbiguity

(* A step of a request changes at most its own row; a row of another one   *)
(* only expires.                                                           *)
LEMMA WritesAre ==
  ASSUME LInv, NEW r \in Request, Writes(r)
  PROVE  /\ \A o \in Request \ {r} : row'[o] = row[o]
         /\ \/ /\ row' = row /\ pc'[r] = "refind"
            \/ /\ row[r] = NoRow /\ row'[r] = NewRow(r) /\ pc'[r] = "run"
               /\ RowsOf(call[r].header) = {}
            \/ /\ row[r] # NoRow /\ row[r].status = "processing" /\ row'[r] # NoRow
               /\ row'[r].status = "completed" /\ row'[r].body = r
               /\ row'[r].key = row[r].key /\ row'[r].hash = row[r].hash
               /\ pc'[r] = "done" /\ outcome'[r].kind = "created"
            \/ /\ row[r] # NoRow /\ row[r].status = "processing" /\ row'[r] = NoRow
               /\ pc'[r] = "done" /\ outcome' = outcome /\ pc[r] = "delete"
         /\ pc[r] # "done"
<1>1. /\ IInv /\ Settled(r) /\ pc \in [Request -> Step] /\ row \in [Request -> Row \cup {NoRow}]
  BY DEF LInv, IInv, TypeOK
<1>2. CASE Create(r)
  <2>1. row[r] = NoRow /\ pc[r] = "create"
    BY <1>1, <1>2 DEF Create, IInv, RowInv
  <2> QED
    BY <1>1, <1>2, <2>1 DEF Create, Go
<1>3. CASE SaveCompleted(r)
  <2>1. /\ pc[r] = "save" /\ holds[r] /\ row[r] # NoRow /\ row[r].status = "processing"
        /\ outcome[r] = [kind |-> "created", entity |-> r]
        /\ row' = [row EXCEPT ![r].status = "completed", ![r].body = outcome[r].entity]
        /\ pc' = [pc EXCEPT ![r] = "done"] /\ outcome' = outcome
    BY <1>1, <1>3 DEF SaveCompleted, Go, Settled, IInv, HolderInv
  <2>2. row[r] \in Row /\ row' = [row EXCEPT ![r].status = "completed", ![r].body = r]
    BY <1>1, <2>1
  <2>3. /\ row'[r] # NoRow /\ row'[r].status = "completed" /\ row'[r].body = r
        /\ row'[r].key = row[r].key /\ row'[r].hash = row[r].hash
        /\ \A o \in Request : o # r => row'[o] = row[o]
    BY <1>1, <2>2, CompletedRowType
  <2> QED
    BY <1>1, <2>1, <2>3
<1>4. CASE DeleteRow(r)
  BY <1>1, <1>4 DEF DeleteRow, Go, Settled
<1> QED
  BY <1>2, <1>3, <1>4 DEF Writes

LEMMA CompletedStays ==
  ASSUME LInv, NEW r \in Request, Reads(r) \/ Writes(r) \/ Serves(r), NEW o \in Request, Completed(o)
  PROVE  Completed(o)'
<1>1. CASE row' = row
  BY <1>1 DEF Completed
<1>2. CASE Writes(r)
  BY <1>2, WritesAre DEF Completed
<1> QED
  BY <1>1, <1>2 DEF Reads, Serves, Replay

(* What every other step leaves alone.                                     *)
LEMMA ExpireIs ==
  ASSUME LInv, NEW e \in Request, Expire(e)
  PROVE  /\ UNCHANGED <<pc, call, holds, outcome>>
         /\ \A o \in Request : (row'[o] = NoRow) = (row[o] = NoRow)
         /\ \A o \in Request : row[o] # NoRow =>
              /\ row'[o].status = row[o].status /\ row'[o].body = row[o].body
              /\ row'[o].key = row[o].key /\ row'[o].hash = row[o].hash
<1>1. /\ row \in [Request -> Row \cup {NoRow}] /\ row[e] # NoRow
      /\ row' = [row EXCEPT ![e].expired = TRUE] /\ UNCHANGED <<pc, call, holds, outcome>>
  BY DEF LInv, IInv, TypeOK, Expire
<1>2. row[e] \in Row
  BY <1>1
<1>3. /\ row'[e] # NoRow
      /\ row'[e].status = row[e].status /\ row'[e].body = row[e].body
      /\ row'[e].key = row[e].key /\ row'[e].hash = row[e].hash
      /\ \A a \in Request : a # e => row'[a] = row[a]
  BY <1>1, <1>2, ExpiredRowType
<1> QED
  BY <1>1, <1>3

LEMMA EntityIs ==
  ASSUME IInv, NEW r \in Request, outcome[r].kind = "replayed"
  PROVE  outcome[r].entity \in Request
BY DEF IInv, ReaderInv, TypeOK

LEMMA SettledKept ==
  ASSUME LInv, NoAmbiguity, NEW r \in Request, RequestStep(r), NEW q \in Request
  PROVE  Settled(q)'
<1>1. /\ IInv /\ Settled(q) /\ Settled(r) /\ pc \in [Request -> Step]
      /\ pc[q] = "replay" => outcome[q].entity \in Request
  BY EntityIs DEF LInv, Settled, IInv, TypeOK
<1>2. Reads(r) \/ Writes(r) \/ Serves(r)
  BY StepReads
<1>3. CASE q # r
  <2>1. pc'[q] = pc[q] /\ holds'[q] = holds[q] /\ outcome'[q] = outcome[q]
    BY <1>1, <1>3, StepIsAlone DEF Alone, IInv
  <2>2. row'[q] = row[q]
    BY <1>2, <1>3, WritesAre DEF Reads, Serves, Replay
  <2>3. pc[q] = "replay" =>
          row'[outcome[q].entity] # NoRow /\ row'[outcome[q].entity].status = "completed"
    <3> SUFFICES ASSUME pc[q] = "replay" PROVE \E o \in Request : o = outcome[q].entity /\ Completed(o)'
      BY DEF Completed
    <3>1. PICK o \in Request : o = outcome[q].entity /\ Completed(o)
      BY <1>1 DEF Settled
    <3>2. Completed(o)'
      BY <1>2, <3>1, CompletedStays
    <3> QED
      BY <3>1, <3>2
  <2> QED
    BY <1>1, <2>1, <2>2, <2>3 DEF Settled, Completed
<1>4. CASE q = r /\ Reads(r)
  <2>1. /\ row' = row
        /\ \/ pc'[r] \in {"done", "create", "refind", "wait"}
           \/ pc'[r] = "run" /\ ~ holds'[r]
           \/ /\ pc'[r] = "replay" /\ outcome'[r].kind = "replayed"
              /\ Completed(outcome'[r].entity)
           \/ pc[r] \in {"run", "save"} /\ holds[r] /\ pc'[r] \in {"save", "delete"}
    BY <1>4 DEF Reads
  <2>2. pc[r] \in {"run", "save"} /\ holds[r] => row[r] # NoRow
    BY <1>1 DEF IInv, HolderInv
  <2> QED
    BY <1>1, <1>4, <2>1, <2>2 DEF Settled, Completed
<1>5. CASE q = r /\ Writes(r)
  <2>1. NewRow(r).status = "processing"
    BY DEF NewRow
  <2> QED
    BY <1>5, <2>1, WritesAre DEF Settled
<1>6. CASE q = r /\ Serves(r)
  BY <1>6 DEF Serves, Settled
<1> QED
  BY <1>2, <1>3, <1>4, <1>5, <1>6

LEMMA LInvKept == NoAmbiguity /\ LInv /\ [Next]_vars => LInv'
<1> SUFFICES ASSUME NoAmbiguity, LInv, [Next]_vars PROVE LInv'
  OBVIOUS
<1>1. IInv'
  BY NextPreserves DEF LInv
<1>2. ASSUME NEW r \in Request, RequestStep(r) PROVE LInv'
  BY <1>1, <1>2, SettledKept DEF LInv
<1>3. ASSUME NEW e \in Request, Expire(e) PROVE LInv'
  <2>1. \A r \in Request : pc[r] = "replay" => outcome[r].entity \in Request
    BY EntityIs DEF LInv, Settled
  <2>2. \A r \in Request : Settled(r)'
    <3> TAKE r \in Request
    <3>1. Settled(r)
      BY DEF LInv
    <3>2. pc[r] \in {"run", "save"} /\ holds[r] => row[r] # NoRow
      BY DEF LInv, IInv, HolderInv
    <3> QED
      BY <1>3, <2>1, <3>1, <3>2, ExpireIs DEF Settled, Completed
  <2> QED
    BY <1>1, <2>2 DEF LInv
<1>4. CASE UNCHANGED vars \/ \E x \in Resource : Remove(x)
  BY <1>1, <1>4 DEF LInv, Remove, vars, Settled, Completed
<1>5. CASE Crash
  <2>1. \A r \in Request : pc'[r] \in {"idle", "done"}
    BY <1>5 DEF LInv, IInv, TypeOK, Crash, InFlight
  <2> QED
    BY <1>1, <2>1 DEF LInv, Settled
<1> QED
  BY <1>2, <1>3, <1>4, <1>5 DEF Next, RequestStep

LEMMA InitLInv == Init => LInv
  BY InitEstablishes DEF Init, LInv, Settled

(***************************************************************************)
(* Pages and replies                                                       *)
(***************************************************************************)
PageOf(w) ==
  IF w.status = "processing" THEN Ledger!Claimed(w.hash) ELSE Ledger!Closed(w.hash, w.body)

LEMMA PageIs ==
  ASSUME KeyInv, NEW k \in Key, NEW o \in Request, row[o] # NoRow, row[o].key = k
  PROVE  Page(k) = PageOf(row[o])
<1>1. RowsOf(k) = {o}
  BY DEF RowsOf, KeyInv
<1>2. (CHOOSE a \in RowsOf(k) : TRUE) = o
  BY <1>1
<1> QED
  BY <1>1, <1>2 DEF Page, PageOf, Ledger!Claimed, Ledger!Closed

LEMMA PageIsNext ==
  ASSUME KeyInv', NEW k \in Key, NEW o \in Request, row'[o] # NoRow, row'[o].key = k
  PROVE  Page(k)' = PageOf(row'[o])
<1>1. RowsOf(k)' = {o}
  BY DEF RowsOf, KeyInv
<1>2. (CHOOSE a \in RowsOf(k)' : TRUE) = o
  BY <1>1
<1> QED
  BY <1>1, <1>2 DEF Page, PageOf, Ledger!Claimed, Ledger!Closed

LEMMA PageIsFree ==
  ASSUME NEW k \in Key
  PROVE  /\ (\A o \in Request : row[o] # NoRow => row[o].key # k) => Page(k) = Ledger!Free
         /\ (\A o \in Request : row'[o] # NoRow => row'[o].key # k) => Page(k)' = Ledger!Free
BY DEF Page, RowsOf, Ledger!Free

(* A page changes only with the row of its key.                            *)
LEMMA OtherPagesStay ==
  ASSUME KeyInv, KeyInv', NEW k \in Key,
         \A o \in Request : /\ (row'[o] # NoRow /\ row'[o].key = k) = (row[o] # NoRow /\ row[o].key = k)
                            /\ row[o] # NoRow /\ row[o].key = k => PageOf(row'[o]) = PageOf(row[o])
  PROVE  Page(k)' = Page(k)
<1>1. CASE \E o \in Request : row[o] # NoRow /\ row[o].key = k
  <2>1. PICK o \in Request : row[o] # NoRow /\ row[o].key = k
    BY <1>1
  <2>2. Page(k) = PageOf(row[o])
    BY <2>1, PageIs
  <2>3. row'[o] # NoRow /\ row'[o].key = k
    BY <2>1
  <2>4. Page(k)' = PageOf(row'[o])
    BY <2>3, PageIsNext
  <2> QED
    BY <2>1, <2>2, <2>4
<1>2. CASE ~ \E o \in Request : row[o] # NoRow /\ row[o].key = k
  BY <1>2, PageIsFree
<1> QED
  BY <1>1, <1>2

LEMMA RepliesStay ==
  ASSUME TypeOK, NoAmbiguity, NEW r \in Request, RequestStep(r), pc[r] # "done",
         pc'[r] = "done" => outcome'[r].kind # "replayed"
  PROVE  \A q \in Request : Reply(q)' = Reply(q)
<1>1. Alone(r)
  BY StepIsAlone
<1> TAKE q \in Request
<1>2. CASE q = r
  BY <1>2 DEF Reply, Answered
<1>3. CASE q # r
  BY <1>1, <1>3 DEF Alone, Reply, Answered
<1> QED
  BY <1>2, <1>3

(***************************************************************************)
(* Steps                                                                   *)
(***************************************************************************)
Stutters ==
  /\ \A k \in Key : Page(k)' = Page(k)
  /\ \A q \in Request : Reply(q)' = Reply(q)

LEMMA StuttersStutter == Stutters => UNCHANGED Ledger!ledgerVars
  BY DEF Stutters, Ledger!ledgerVars

(* A page turns from one entry to the next.                                *)
Turns(k, old, new) ==
  /\ Page(k) = old /\ Page(k)' = new
  /\ \A j \in Key \ {k} : Page(j)' = Page(j)
  /\ \A q \in Request : Reply(q)' = Reply(q)

LEMMA TurnsAreNext ==
  ASSUME NEW k \in Key, NEW p \in Payload, NEW x \in Request,
         \/ Turns(k, Ledger!Free, Ledger!Claimed(p))
         \/ Turns(k, Ledger!Claimed(p), Ledger!Closed(p, x))
         \/ Turns(k, Ledger!Claimed(p), Ledger!Free)
  PROVE  Ledger!Next
<1> DEFINE new == Page(k)'
<1>1. /\ [q \in Request |-> Reply(q)]' = [q \in Request |-> Reply(q)]
      /\ [j \in Key |-> Page(j)][k] = Page(k)
  BY DEF Turns
<1>2. [j \in Key |-> Page(j)]' = [[j \in Key |-> Page(j)] EXCEPT ![k] = new]
  BY DEF Turns
<1>3. CASE Turns(k, Ledger!Free, Ledger!Claimed(p))
  <2>1. Ledger!Claim(k, p)
    BY <1>1, <1>2, <1>3 DEF Ledger!Claim, Turns
  <2> QED
    BY <1>1, <2>1 DEF Ledger!Next
<1>4. CASE Turns(k, Ledger!Claimed(p), Ledger!Closed(p, x))
  <2>1. Ledger!Close(k, p, x)
    BY <1>1, <1>2, <1>4 DEF Ledger!Close, Turns
  <2> QED
    BY <1>1, <2>1 DEF Ledger!Next
<1>5. CASE Turns(k, Ledger!Claimed(p), Ledger!Free)
  <2>1. Ledger!Release(k, p)
    BY <1>1, <1>2, <1>5 DEF Ledger!Release, Turns
  <2> QED
    BY <1>1, <2>1 DEF Ledger!Next
<1> QED
  BY <1>3, <1>4, <1>5

LEMMA WritesTurn ==
  ASSUME LInv, LInv', NoAmbiguity, NEW r \in Request, RequestStep(r), Writes(r)
  PROVE  Stutters \/ Ledger!Next
<1>1. /\ TypeOK /\ KeyInv /\ KeyInv' /\ row \in [Request -> Row \cup {NoRow}]
      /\ row' \in [Request -> Row \cup {NoRow}]
      /\ call[r].payload \in Payload
      /\ pc[r] = "create" => call[r].header \in Key
  BY DEF LInv, IInv, TypeOK, ReaderInv
<1>2. /\ \A o \in Request \ {r} : row'[o] = row[o]
      /\ pc[r] # "done"
  BY WritesAre
<1>3. pc'[r] = "done" => outcome'[r].kind # "replayed"
  <2>1. pc[r] = "delete" => outcome[r].kind # "replayed"
    BY DEF LInv, IInv, ReaderInv
  <2> QED
    BY <2>1, WritesAre
<1>4. \A q \in Request : Reply(q)' = Reply(q)
  BY <1>1, <1>2, <1>3, RepliesStay
<1>p. ASSUME NEW k \in Key, row[r] # NoRow => row[r].key # k, row'[r] # NoRow => row'[r].key # k
      PROVE  Page(k)' = Page(k)
  BY <1>1, <1>2, <1>p, OtherPagesStay
<1>5. CASE row' = row
  BY <1>1, <1>4, <1>5, OtherPagesStay DEF Stutters
<1>6. CASE row[r] = NoRow /\ row'[r] = NewRow(r) /\ RowsOf(call[r].header) = {} /\ pc[r] = "create"
  <2>0. PICK k \in Key, p \in Payload : k = call[r].header /\ p = call[r].payload
    BY <1>1, <1>6
  <2>1. Page(k) = Ledger!Free
    BY <1>6, <2>0 DEF Page, Ledger!Free
  <2>2. row'[r] # NoRow /\ row'[r].key = k /\ PageOf(row'[r]) = Ledger!Claimed(p)
    BY <1>1, <1>6, <2>0, NewRowType DEF NewRow, PageOf
  <2>3. Page(k)' = Ledger!Claimed(p)
    BY <1>1, <2>2, PageIsNext
  <2>4. \A j \in Key \ {k} : Page(j)' = Page(j)
    BY <1>p, <1>6, <2>2
  <2>5. Turns(k, Ledger!Free, Ledger!Claimed(p))
    BY <1>4, <2>1, <2>3, <2>4 DEF Turns
  <2> QED
    BY <1>1, <2>5, TurnsAreNext
<1>7. CASE /\ row[r] # NoRow /\ row[r].status = "processing" /\ row'[r] # NoRow
           /\ row'[r].status = "completed" /\ row'[r].body = r
           /\ row'[r].key = row[r].key /\ row'[r].hash = row[r].hash
  <2>1. PICK k \in Key, p \in Payload : k = row[r].key /\ p = row[r].hash
    BY <1>1, <1>7 DEF Row
  <2>2. Page(k) = Ledger!Claimed(p)
    BY <1>1, <1>7, <2>1, PageIs DEF PageOf
  <2>3. Page(k)' = Ledger!Closed(p, r)
    <3>1. PageOf(row'[r]) = Ledger!Closed(p, r)
      BY <1>7, <2>1 DEF PageOf
    <3> QED
      BY <1>1, <1>7, <2>1, <3>1, PageIsNext
  <2>4. \A j \in Key \ {k} : Page(j)' = Page(j)
    BY <1>p, <1>7, <2>1
  <2>5. Turns(k, Ledger!Claimed(p), Ledger!Closed(p, r))
    BY <1>4, <2>1, <2>2, <2>3, <2>4 DEF Turns
  <2> QED
    BY <2>1, <2>5, TurnsAreNext
<1>8. CASE row[r] # NoRow /\ row[r].status = "processing" /\ row'[r] = NoRow
  <2>1. PICK k \in Key, p \in Payload : k = row[r].key /\ p = row[r].hash
    BY <1>1, <1>8 DEF Row
  <2>2. Page(k) = Ledger!Claimed(p)
    BY <1>1, <1>8, <2>1, PageIs DEF PageOf
  <2>3. \A o \in Request : row'[o] # NoRow => row'[o].key # k
    BY <1>1, <1>2, <1>8, <2>1 DEF KeyInv
  <2>4. Page(k)' = Ledger!Free
    BY <2>3, PageIsFree
  <2>5. \A j \in Key \ {k} : Page(j)' = Page(j)
    BY <1>p, <1>8, <2>1
  <2>6. Turns(k, Ledger!Claimed(p), Ledger!Free)
    BY <1>4, <2>1, <2>2, <2>4, <2>5 DEF Turns
  <2> QED
    BY <2>1, <2>6, TurnsAreNext
<1>9. Create(r) \/ pc[r] \in {"save", "delete"}
  BY DEF Writes, SaveCompleted, DeleteRow
<1>10. row[r] = NoRow => pc[r] = "create"
  BY <1>9 DEF Create, LInv, Settled, IInv, HolderInv
<1> QED
  BY <1>5, <1>6, <1>7, <1>8, <1>10, WritesAre

LEMMA ServesServe ==
  ASSUME LInv, NoAmbiguity, NEW r \in Request, RequestStep(r), Serves(r)
  PROVE  Ledger!Next
<1> DEFINE x == outcome[r].entity
           k == call[r].header
           p == call[r].payload
<1>1. /\ TypeOK /\ KeyInv /\ IInv /\ row \in [Request -> Row \cup {NoRow}] /\ pc[r] = "replay"
      /\ row' = row /\ pc'[r] = "done" /\ outcome' = outcome /\ call' = call
      /\ outcome[r].kind = "replayed" /\ Completed(x)
  BY DEF LInv, IInv, TypeOK, Serves, Replay, Settled
<1>2. /\ x \in Request /\ row[x] # NoRow /\ row[x].status = "completed" /\ row[x].body = x
      /\ row[x].key = k /\ row[x].hash = p
  BY <1>1, EntityIs DEF IInv, RowInv, ReaderInv, Completed
<1>3. k \in Key /\ p \in Payload
  BY <1>1, <1>2 DEF Row
<1>4. Page(k) = Ledger!Closed(p, x)
  <2>1. PageOf(row[x]) = Ledger!Closed(p, x)
    BY <1>2 DEF PageOf
  <2> HIDE DEF x, k, p
  <2> QED
    BY <1>1, <1>2, <1>3, <2>1, PageIs
<1>5. \A j \in Key : Page(j)' = Page(j)
  BY <1>1 DEF Page, RowsOf
<1>6. Reply(r) = Nobody /\ Reply(r)' = <<k, p, x>>
  BY <1>1 DEF Reply, Answered
<1>7. \A q \in Request \ {r} : Reply(q)' = Reply(q)
  BY <1>1, StepIsAlone DEF Alone, Reply, Answered
<1> HIDE DEF x, k, p
<1>8. [q \in Request |-> Reply(q)]' = [[q \in Request |-> Reply(q)] EXCEPT ![r] = <<k, p, x>>]
  BY <1>6, <1>7
<1>9. [j \in Key |-> Page(j)]' = [j \in Key |-> Page(j)]
  BY <1>5
<1>10. Ledger!Serve(r, k, p, x)
  BY <1>3, <1>4, <1>6, <1>8, <1>9 DEF Ledger!Serve
<1> QED
  BY <1>2, <1>3, <1>10 DEF Ledger!Next

LEMMA StepIsLedgers ==
  NoAmbiguity /\ LInv /\ LInv' /\ [Next]_vars => [Ledger!Next]_(Ledger!ledgerVars)
<1> SUFFICES ASSUME NoAmbiguity, LInv, LInv', [Next]_vars PROVE Stutters \/ Ledger!Next
  BY StuttersStutter
<1>1. TypeOK /\ KeyInv /\ KeyInv'
  BY DEF LInv, IInv
<1>2. ASSUME NEW r \in Request, RequestStep(r) PROVE Stutters \/ Ledger!Next
  <2>1. CASE Reads(r)
    <3>1. \A q \in Request : Reply(q)' = Reply(q)
      BY <1>1, <1>2, <2>1, RepliesStay DEF Reads
    <3>2. \A k \in Key : Page(k)' = Page(k)
      BY <2>1 DEF Reads, Page, RowsOf
    <3> QED
      BY <3>1, <3>2 DEF Stutters
  <2> QED
    BY <1>2, <2>1, StepReads, WritesTurn, ServesServe
<1>3. ASSUME NEW e \in Request, Expire(e) PROVE Stutters
  <2>1. \A o \in Request : row[o] # NoRow => PageOf(row'[o]) = PageOf(row[o])
    BY <1>3, ExpireIs DEF PageOf
  <2>2. ASSUME NEW k \in Key PROVE Page(k)' = Page(k)
    BY <1>1, <1>3, <2>1, ExpireIs, OtherPagesStay
  <2>3. \A q \in Request : Reply(q)' = Reply(q)
    BY <1>3, ExpireIs DEF Reply, Answered
  <2> QED
    BY <2>2, <2>3 DEF Stutters
<1>4. CASE UNCHANGED vars \/ \E x \in Resource : Remove(x)
  BY <1>4 DEF Remove, vars, Stutters, Page, RowsOf, Reply, Answered
<1>5. CASE Crash
  <2>1. \A q \in Request : Reply(q)' = Reply(q)
    <3> TAKE q \in Request
    <3>1. CASE q \in InFlight
      BY <1>5, <3>1 DEF Crash, InFlight, Reply, Answered, Throw
    <3>2. CASE q \notin InFlight
      BY <1>5, <3>2 DEF Crash, Reply, Answered
    <3> QED
      BY <3>1, <3>2
  <2>2. \A k \in Key : Page(k)' = Page(k)
    BY <1>5 DEF Crash, Page, RowsOf
  <2> QED
    BY <2>1, <2>2 DEF Stutters
<1> QED
  BY <1>2, <1>3, <1>4, <1>5 DEF Next, RequestStep

(***************************************************************************)
(* The theorems                                                            *)
(***************************************************************************)
(* A row stays in process until its holder completes or deletes it, and    *)
(* what a request is about to replay is in the table (lines 64-109).       *)
THEOREM LedgerInvariance == NoAmbiguity => (Spec => []LInv)
<1> SUFFICES ASSUME NoAmbiguity PROVE Spec => []LInv
  OBVIOUS
<1>1. Init => LInv
  BY InitLInv
<1>2. LInv /\ [Next]_vars => LInv'
  BY LInvKept
<1> QED
  BY <1>1, <1>2, PTL DEF Spec

(* The table of idempotency keys, read as a ledger, keeps its promise: a   *)
(* key is claimed, then closed or released; a closed key never opens       *)
(* again; and a replay serves what its own key was closed with, for its    *)
(* own payload (lines 40-170).                                             *)
THEOREM LedgerIsKept == NoAmbiguity => (Spec => ImplementsLedger)
<1> SUFFICES ASSUME NoAmbiguity PROVE Spec => ImplementsLedger
  OBVIOUS
<1>1. Init => Ledger!Init
  <2> SUFFICES ASSUME Init PROVE Ledger!Init
    OBVIOUS
  <2>1. \A k \in Key : Page(k) = Ledger!Free
    BY DEF Init, Page, RowsOf, Ledger!Free
  <2>2. \A r \in Request : Reply(r) = Nobody
    BY DEF Init, Reply, Answered
  <2> QED
    BY <2>1, <2>2 DEF Ledger!Init
<1>2. LInv /\ LInv' /\ [Next]_vars => [Ledger!Next]_(Ledger!ledgerVars)
  BY StepIsLedgers
<1>3. Spec => []LInv
  BY LedgerInvariance
<1> QED
  BY <1>1, <1>2, <1>3, PTL DEF Spec, Ledger!Spec, ImplementsLedger
=============================================================================
