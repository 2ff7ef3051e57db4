--------------------------- MODULE MCSubmissions ---------------------------
(***************************************************************************)
(* Instances of Submissions for TLC.                                       *)
(***************************************************************************)
EXTENDS SubmissionsRefinement, TLC

CONSTANTS t1, t2, a1, a2

(* Two courses with an assignment each, of two tutors.                     *)
TutorOfTwo == (a1 :> t1) @@ (a2 :> t2)

TutorOfOne == a1 :> t1

RequestSymmetry == Permutations(Request)
=============================================================================
