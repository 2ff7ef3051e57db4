----------------------- MODULE IdempotencyRefinement -----------------------
(***************************************************************************)
(* How the table of idempotency keys and the answers of execute implement  *)
(* the ledger of keys.                                                     *)
(***************************************************************************)
EXTENDS Idempotency

(* The page of a key, read off the table.                                  *)
Page(k) ==
  LET o == CHOOSE o \in RowsOf(k) : TRUE IN
    IF RowsOf(k) = {} THEN [state |-> "free"]
    ELSE IF row[o].status = "processing"
         THEN [state |-> "claimed", payload |-> row[o].hash]
         ELSE [state |-> "closed", payload |-> row[o].hash, result |-> row[o].body]

(* What a request was served from the table.                               *)
Reply(r) ==
  IF Answered(r, {"replayed"})
    THEN <<call[r].header, call[r].payload, outcome[r].entity>>
    ELSE Nobody

Ledger == INSTANCE IdempotencyLedger WITH
  Caller <- Request, Result <- Request, NoReply <- Nobody,
  ledger <- [k \in Key |-> Page(k)],
  reply <- [r \in Request |-> Reply(r)]

(* The table of idempotency_keys, with its unique constraint, its polls    *)
(* and its expiry, keeps the promise of the ledger (lines 40-170).         *)
ImplementsLedger == Ledger!Spec
=============================================================================
