--------------------------- MODULE MCEnrollments ---------------------------
(***************************************************************************)
(* Instances of Enrollments for TLC.                                       *)
(***************************************************************************)
EXTENDS EnrollmentsRefinement, TLC

CONSTANTS s1, tutor, c1

TutorOfC1 == c1 :> tutor

RequestSymmetry == Permutations(Request)
=============================================================================
