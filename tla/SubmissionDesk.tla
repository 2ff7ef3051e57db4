--------------------------- MODULE SubmissionDesk ---------------------------
(***************************************************************************)
(* What the callers of submissions may rely on, without rows, documents,   *)
(* look-ups or awaits: a desk with a sheet for each pair of student and    *)
(* assignment that was handed in.                                          *)
(* Each caller asks for one thing; the whole effect takes place in one     *)
(* step between question and answer, or not at all, and an answer is only  *)
(* given for a reason that was true in that interval.  A caller whose      *)
(* answer is "unknown" may or may not have been served.                    *)
(***************************************************************************)
CONSTANTS
  Caller,
  Owner,      \* the tutor who may review the sheet of each pair
  Ask,        \* the questions: pair, user, score, isHidden
  Unscored,   \* the review gives no score and leaves the sheet open
  None        \* nobody; also no score

VARIABLES
  desk,   \* the sheets, by pair: text, feedback, score, isClosed, cover
  ask,    \* what each caller asks for
  reply   \* how far each caller has come, and the answer

deskVars == <<desk, ask, reply>>

Begun == {"submitting", "reviewing", "moderating", "refused"}

Waiting == {"submitting", "reviewing", "moderating", "served"}

Init ==
  /\ desk = [p \in {} |-> None]
  /\ ask \in [Caller -> Ask]
  /\ reply = [c \in Caller |-> "none"]

(* Caller c, who stood at from, hears one of the answers.                  *)
Tell(c, from, answers) ==
  /\ reply[c] = from
  /\ \E x \in answers : reply' = [reply EXCEPT ![c] = x]

Begin(c) ==
  /\ Tell(c, "none", Begun)
  /\ \E q \in Ask : ask' = [ask EXCEPT ![c] = q]
  /\ UNCHANGED desk

HandIn(c, p) ==
  /\ Tell(c, "submitting", {"submitted", "unknown"})
  /\ p \notin DOMAIN desk
  /\ desk' = [q \in DOMAIN desk \cup {p} |->
                IF q # p THEN desk[q]
                ELSE [text |-> c, feedback |-> None, score |-> None, isClosed |-> FALSE, cover |-> None]]
  /\ UNCHANGED ask

(* The sheet of p is replaced.                                             *)
Put(p, sheet) ==
  /\ desk' = [desk EXCEPT ![p] = sheet]
  /\ UNCHANGED ask

Review(c, p) ==
  /\ Tell(c, "reviewing", {"reviewed", "unknown"})
  /\ p \in DOMAIN desk /\ ~ desk[p].isClosed
  /\ ask[c].user = Owner[p]
  /\ LET isScored == ask[c].score # Unscored IN
       Put(p, [desk[p] EXCEPT !.feedback = c, !.isClosed = isScored,
                              !.score = IF isScored THEN ask[c].score ELSE None])

Moderate(c, p) ==
  /\ Tell(c, "moderating", {"served", "unknown"})
  /\ p \in DOMAIN desk
  /\ Put(p, [desk[p] EXCEPT !.cover = IF ask[c].isHidden THEN c ELSE None])

(* Answers that change nothing on the desk, with their reasons.            *)
Return(c, p) ==
  /\ \/ Tell(c, "submitting", {"refused", "unknown"})
     \/ Tell(c, "submitting", {"alreadySubmitted"}) /\ p \in DOMAIN desk
     \/ Tell(c, "reviewing", {"refused", "unknown"})
     \/ Tell(c, "reviewing", {"alreadyReviewed"}) /\ p \in DOMAIN desk /\ desk[p].isClosed
     \/ Tell(c, "moderating", {"unknown"})
     \/ Tell(c, "served", {"moderated", "unknown"})
  /\ UNCHANGED <<desk, ask>>

(* Everybody who waits loses the answer at once.                           *)
Blackout ==
  /\ reply' = [c \in Caller |-> IF reply[c] \in Waiting THEN "unknown" ELSE reply[c]]
  /\ UNCHANGED <<desk, ask>>

(* Whatever a caller does or hears shows in its reply.                     *)
Next ==
  \/ \E c \in Caller :
       /\ reply'[c] # reply[c]
       /\ \/ Begin(c)
          \/ LET p == ask[c].pair IN HandIn(c, p) \/ Review(c, p) \/ Moderate(c, p) \/ Return(c, p)
  \/ Blackout

Spec == Init /\ [][Next]_deskVars
=============================================================================
