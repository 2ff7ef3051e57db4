----------------------------- MODULE MCCourses -----------------------------
(***************************************************************************)
(* Instances of Courses for TLC.                                           *)
(***************************************************************************)
EXTENDS Courses, TLC

CONSTANTS t1, c1, a1

TutorOfC1 == c1 :> t1

CourseOfA1 == a1 :> c1

RequestSymmetry == Permutations(Request)
=============================================================================
