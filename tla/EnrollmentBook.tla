--------------------------- MODULE EnrollmentBook ---------------------------
(***************************************************************************)
(* What the callers of enrollments may rely on, without rows, locks, loads *)
(* or saves: a book with a page for each student who is enrolled in a      *)
(* course.  To enroll or to report progress takes effect in one step       *)
(* between question and answer, or not at all, and a refusal has a reason  *)
(* that was true in that interval.                                         *)
(*                                                                         *)
(* Two callers who wait to be enrolled on one dropped page may bring it    *)
(* into dispute.  Nothing is promised of a disputed page.                  *)
(***************************************************************************)
EXTENDS Naturals

CONSTANTS
  Caller, Course,
  Ask,    \* the questions: pair, progress
  Full    \* the progress that completes a page

VARIABLES
  book,      \* the pages, by pair: status, progress
  gone,      \* the courses that were removed, and their pages with them
  disputed,  \* the pairs whose page is no longer in the book
  ask,       \* what each caller asks for
  reply      \* how far each caller has come, and the answer

bookVars == <<book, gone, disputed, ask, reply>>

Begun == {"enrolling", "reporting", "refused"}

Waiting == {"enrolling", "reporting", "declined"}

NewPage == [status |-> "active", progress |-> 0]

(* Pairs are added to, or taken from, a book.                              *)
With(p, page) == [q \in DOMAIN book \cup {p} |-> IF q = p THEN page ELSE book[q]]
Without(pairs) == [q \in DOMAIN book \ pairs |-> book[q]]

Init ==
  /\ book = [p \in {} |-> NewPage]
  /\ gone = {}
  /\ disputed = {}
  /\ ask \in [Caller -> Ask]
  /\ reply = [c \in Caller |-> "none"]

(* Caller c, who stood at from, hears one of the answers.                  *)
Tell(c, from, answers) ==
  /\ reply[c] = from
  /\ \E x \in answers : reply' = [reply EXCEPT ![c] = x]

Begin(c) ==
  /\ Tell(c, "none", Begun)
  /\ \E q \in Ask : ask' = [ask EXCEPT ![c] = q]
  /\ UNCHANGED <<book, gone, disputed>>

Enroll(c, p) ==
  /\ p \notin DOMAIN book /\ p[2] \notin gone
  /\ Tell(c, "enrolling", {"enrolled", "unknown"})
  /\ book' = With(p, NewPage)

Reinstate(c, p) ==
  /\ p \in DOMAIN book /\ book[p].status = "dropped"
  /\ Tell(c, "enrolling", {"enrolled", "unknown"})
  /\ book' = With(p, NewPage)

Report(c, p) ==
  /\ p \in DOMAIN book /\ book[p].status = "active"
  /\ Tell(c, "reporting", {"updated", "unknown"})
  /\ LET v == ask[c].progress
         next == IF v > book[p].progress THEN v ELSE book[p].progress
     IN  book' = With(p, [status |-> IF next = Full THEN "completed" ELSE "active", progress |-> next])

(* Answers that change no page, with their reasons.  Who is enrolled again *)
(* while the course is removed may be told so.                             *)
Return(c, p) ==
  /\ \/ Tell(c, "enrolling", {"conflict"}) /\ p \in DOMAIN book
     \/ Tell(c, "enrolling", {"refused", "enrolled"}) /\ p[2] \in gone
     \/ Tell(c, "reporting", {"refused"}) /\ p \notin DOMAIN book
     \/ Tell(c, "reporting", {"declined"}) /\ p \in DOMAIN book /\ book[p].status # "active"
     \/ Tell(c, "declined", {"notActive"})
     \/ reply[c] \in Waiting /\ Tell(c, reply[c], {"unknown"})
  /\ UNCHANGED book

Serve(c, p) ==
  /\ p \notin disputed
  /\ Enroll(c, p) \/ Reinstate(c, p) \/ Report(c, p) \/ Return(c, p)
  /\ UNCHANGED <<gone, disputed, ask>>

(* Any answer, about a pair that is in dispute.                            *)
Muddle(c, p) ==
  /\ p \in disputed
  /\ reply[c] \in Waiting
  /\ Tell(c, reply[c], {"enrolled", "updated", "conflict", "refused", "declined", "notActive", "unknown"})
  /\ UNCHANGED <<book, gone, disputed, ask>>

Dispute(p) ==
  /\ p \in DOMAIN book /\ book[p].status = "dropped"
  /\ \E c, d \in Caller :
       c # d /\ \A w \in {c, d} : reply[w] = "enrolling" /\ ask[w].pair = p
  /\ disputed' = disputed \cup {p}
  /\ book' = Without({p})
  /\ UNCHANGED <<gone, ask, reply>>

(* A page is dropped by hand.                                              *)
Drop(p) ==
  /\ book[p].status = "active"
  /\ book' = [book EXCEPT ![p].status = "dropped"]
  /\ UNCHANGED <<gone, disputed, ask, reply>>

Remove(course) ==
  /\ gone' = gone \cup {course}
  /\ book' = Without({p \in DOMAIN book : p[2] = course})
  /\ UNCHANGED <<disputed, ask, reply>>

(* Everybody who waits loses the answer at once.                           *)
Blackout ==
  /\ reply' = [c \in Caller |-> IF reply[c] \in Waiting THEN "unknown" ELSE reply[c]]
  /\ UNCHANGED <<book, gone, disputed, ask>>

(* Whatever a caller does or hears shows in its reply.                     *)
Next ==
  \/ \E c \in Caller :
       /\ reply'[c] # reply[c]
       /\ \/ Begin(c)
          \/ LET p == ask[c].pair IN Serve(c, p) \/ Muddle(c, p)
  \/ \E p \in DOMAIN book : Dispute(p) \/ Drop(p)
  \/ \E course \in Course \ gone : Remove(course)
  \/ Blackout

Spec == Init /\ [][Next]_bookVars
=============================================================================
