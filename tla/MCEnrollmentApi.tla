--------------------------- MODULE MCEnrollmentApi ---------------------------
(***************************************************************************)
(* Instances of EnrollmentApi for TLC.                                     *)
(***************************************************************************)
EXTENDS EnrollmentApi, TLC

CONSTANTS tutor, e1, e2, e3

TutorOfAll == [c \in Course |-> tutor]

EarlierRows == <<e1, e2, e3>>

RequestSymmetry == Permutations(Request)
==============================================================================
