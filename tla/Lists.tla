-------------------------------- MODULE Lists --------------------------------
(***************************************************************************)
(* The paginated lists: findAndCount (or getManyAndCount) of one page,     *)
(* ORDER BY created_at DESC, and the client that reads page 1, 2, ... up   *)
(* to the totalPages of the last answer, while rows are added.             *)
(*                                                                         *)
(* findAndCount is two steps in no transaction: the rows of the page, then *)
(* their number in the whole table.  The second one is left out when the   *)
(* first shows the number already.  A join makes the first step two        *)
(* statements, which differ only when a row leaves, as a removal does here *)
(* at any moment.  Rows differ in created_at.                              *)
(***************************************************************************)
EXTENDS Naturals, Sequences

CONSTANTS
  Reader,   \* clients, each reads the list once
  Limit     \* query.limit, at least 1

VARIABLES
  table,    \* the rows that match the query, newest first
  at,       \* the statement at which a reader stands
  page,     \* query.page
  got,      \* the rows of the page, once they are read
  missing   \* history: rows there from the start of the walk, not listed yet

listVars == <<at, page, got, missing>>

Rows == {table[i] : i \in DOMAIN table}

ListTypeOK ==
  /\ at \in [Reader -> {"find", "count", "done", "failed"}]
  /\ page \in [Reader -> Nat \ {0}]
  /\ got \in [Reader -> 0 .. Limit]
  /\ DOMAIN missing = Reader

ListInit ==
  /\ at = [q \in Reader |-> "find"]
  /\ page = [q \in Reader |-> 1]
  /\ got = [q \in Reader |-> 0]
  /\ missing = [q \in Reader |-> {}]

LastOf(a, b) == IF a <= b THEN a ELSE b

(* Mutant: pages are counted from 0 in the query and from 1 in the code.   *)
PageOf_OffByOne(p) ==
  SubSeq(table, p * Limit + 1, LastOf((p + 1) * Limit, Len(table)))

(* Mutant: the rows are skipped, but not limited.                          *)
PageOf_NoTake(p) == SubSeq(table, (p - 1) * Limit + 1, Len(table))

(* skip (page - 1) * limit, take limit                                     *)
PageOf(p) == SubSeq(table, (p - 1) * Limit + 1, LastOf(p * Limit, Len(table)))

(* Math.ceil(total / limit)                                                *)
TotalPages(total) == (total + Limit - 1) \div Limit

Find(q) ==
  /\ at[q] = "find"
  /\ LET rows == PageOf(page[q])
         before == IF page[q] = 1 THEN Rows ELSE missing[q]
     IN  /\ got' = [got EXCEPT ![q] = Len(rows)]
         /\ missing' = [missing EXCEPT ![q] = before \ {rows[i] : i \in DOMAIN rows}]
  /\ at' = [at EXCEPT ![q] = "count"]
  /\ UNCHANGED page

(* What the driver may answer: a page that is not full and, unless it is   *)
(* the first one, not empty ends the table, so its rows tell the total.    *)
Totals(q) ==
  {Len(table)} \cup
  {(page[q] - 1) * Limit + n : n \in {got[q]} \cap
      (IF page[q] = 1 THEN 0 .. Limit - 1 ELSE 1 .. Limit - 1)}

(* The answer with its totalPages, and the client that goes on or ends.    *)
Count(q) ==
  /\ at[q] = "count"
  /\ \E total \in Totals(q) :
       IF page[q] < TotalPages(total)
         THEN /\ at' = [at EXCEPT ![q] = "find"]
              /\ page' = [page EXCEPT ![q] = @ + 1]
         ELSE /\ at' = [at EXCEPT ![q] = "done"]
              /\ UNCHANGED page
  /\ got' = [got EXCEPT ![q] = 0]
  /\ UNCHANGED missing

Reading == {q \in Reader : at[q] \in {"find", "count"} /\ <<at[q], page[q]>> # <<"find", 1>>}

(* A statement of some readers fails and their walks end.                  *)
Abandon(readers) ==
  /\ at' = [q \in Reader |-> IF q \in readers THEN "failed" ELSE at[q]]
  /\ got' = [q \in Reader |-> IF q \in readers THEN 0 ELSE got[q]]
  /\ UNCHANGED <<page, missing>>

(* Rows leave the table: the rows behind them move up, past a reader.      *)
RowsLeave ==
  /\ missing' = [q \in Reader |-> IF q \in Reading THEN {} ELSE missing[q]]
  /\ UNCHANGED <<at, page, got>>

(* A client that has read every page, while no row was removed, has seen   *)
(* all rows that were there when it began: rows inserted meanwhile push    *)
(* the others towards pages it has yet to read, and the total it stops at  *)
(* is counted after the page.  A total older than the page would not do.   *)
StableRowsAreListed == \A q \in Reader : at[q] = "done" => missing[q] = {}
==============================================================================
