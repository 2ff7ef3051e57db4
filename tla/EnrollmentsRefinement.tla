----------------------- MODULE EnrollmentsRefinement -----------------------
(***************************************************************************)
(* How the table enrollments, its loads, locks and saves implement the     *)
(* book of enrollments.                                                    *)
(***************************************************************************)
EXTENDS Enrollments

(* The rows of which anything is promised.                                 *)
Pages == [p \in {q \in Pair \ contested : Exists(q)} |-> row[p]]

(* What an answer says to the caller.                                      *)
Said(kind) ==
  CASE kind \in {"error", "lost"} -> "unknown"
    [] kind \in {"notFound", "selfEnrollment", "invalidReference"} -> "refused"
    [] OTHER -> kind

(* How far a request has come, as its caller may know it.  A callback that *)
(* is about to throw has decided.                                          *)
Reply(r) ==
  CASE pc[r] = "idle" -> "none"
    [] pc[r] \in {"check", "dropped", "insert", "reload", "update"} -> "enrolling"
    [] pc[r] \in {"lock", "save"} -> "reporting"
    [] pc[r] = "rollback" -> "declined"
    [] pc[r] = "done" -> Said(answer[r])

Book == INSTANCE EnrollmentBook WITH
  Caller <- Request, Ask <- Call,
  book <- Pages,
  gone <- {c \in Course : course[c] = "deleted"},
  disputed <- contested,
  ask <- call,
  reply <- [r \in Request |-> Reply(r)]

(* To its callers the table is a book that does one thing at a time: with  *)
(* its unique index, its row lock and the saves of loaded entities, next   *)
(* to the removal of courses, a request takes effect once, between call    *)
(* and answer, and ALREADY_ENROLLED, NOT_FOUND or NOT_ACTIVE is answered   *)
(* only for a reason that held then (lines 38-48, 88-121, 139-215).        *)
ImplementsBook == Book!Spec
=============================================================================
