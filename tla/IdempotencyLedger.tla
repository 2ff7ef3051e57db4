------------------------- MODULE IdempotencyLedger -------------------------
(***************************************************************************)
(* What an idempotency key promises, without rows, polls or calls: a key   *)
(* is claimed for one payload and closed with one result, or released when *)
(* the work failed.  A closed key is never opened again, and a caller is   *)
(* served from the ledger only the result that its own key was closed      *)
(* with, for the payload the caller came with.                             *)
(***************************************************************************)
CONSTANTS Key, Payload, Result, NoReply, Caller

VARIABLES
  ledger,   \* the page of each key
  reply     \* key, payload and result of each caller served from the ledger

ledgerVars == <<ledger, reply>>

Free == [state |-> "free"]
Claimed(p) == [state |-> "claimed", payload |-> p]
Closed(p, x) == [state |-> "closed", payload |-> p, result |-> x]

Init ==
  /\ ledger = [k \in Key |-> Free]
  /\ reply = [c \in Caller |-> NoReply]

Claim(k, p) ==
  /\ ledger[k] = Free
  /\ ledger' = [ledger EXCEPT ![k] = Claimed(p)]
  /\ UNCHANGED reply

Close(k, p, x) ==
  /\ ledger[k] = Claimed(p)
  /\ ledger' = [ledger EXCEPT ![k] = Closed(p, x)]
  /\ UNCHANGED reply

Release(k, p) ==
  /\ ledger[k] = Claimed(p)
  /\ ledger' = [ledger EXCEPT ![k] = Free]
  /\ UNCHANGED reply

Serve(c, k, p, x) ==
  /\ ledger[k] = Closed(p, x)
  /\ reply[c] = NoReply
  /\ reply' = [reply EXCEPT ![c] = <<k, p, x>>]
  /\ UNCHANGED ledger

Next ==
  \E k \in Key, p \in Payload :
    \/ Claim(k, p)
    \/ Release(k, p)
    \/ \E x \in Result :
         \/ Close(k, p, x)
         \/ \E c \in Caller : Serve(c, k, p, x)

Spec == Init /\ [][Next]_ledgerVars
=============================================================================
