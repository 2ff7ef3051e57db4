----------------------- MODULE SubmissionsRefinement -----------------------
(***************************************************************************)
(* How the collection submissions and the awaits of its handlers implement *)
(* the desk of submissions.                                                *)
(***************************************************************************)
EXTENDS Submissions

(* What the desk shows of a document.                                      *)
SheetOf(d) ==
  [text |-> d.content, feedback |-> d.feedback, score |-> d.score,
   isClosed |-> d.status = "reviewed",
   cover |-> IF d.isAdminHidden THEN d.adminHiddenReason ELSE Null]

Sheets == [p \in {q \in Pair : Exists(q)} |-> SheetOf(docs[p])]

(* What an answer says to the caller.                                      *)
Said(kind) ==
  CASE kind \in {"error", "lost"} -> "unknown"
    [] kind \in {"notFound", "badRequest", "forbidden"} -> "refused"
    [] OTHER -> kind

(* How far a request has come, as its caller may know it.                  *)
Reply(r) ==
  CASE pc[r] = "idle" -> "none"
    [] pc[r] \in {"enrolled", "duplicate", "create"} -> "submitting"
    [] pc[r] \in {"owner", "feedback"} -> "reviewing"
    [] pc[r] = "moderate" -> "moderating"
    [] pc[r] = "audit" -> "served"
    [] pc[r] = "done" -> Said(answer[r])

Desk == INSTANCE SubmissionDesk WITH
  Caller <- Request, Owner <- [p \in Pair |-> TutorOf[p[2]]], Ask <- Call,
  Unscored <- Absent, None <- Null,
  desk <- Sheets,
  ask <- call,
  reply <- [r \in Request |-> Reply(r)]

(* To its callers the collection is a desk that does one thing at a time:  *)
(* with its look-ups, its unique index and its filter, next to another     *)
(* database, a request takes effect once, between call and answer, and it  *)
(* is answered ALREADY_SUBMITTED, ALREADY_REVIEWED or 201 only for a       *)
(* reason that held then (lines 74-136, 172-231, 257-286).                 *)
ImplementsDesk == Desk!Spec
=============================================================================
