--------------------------- MODULE MCIdempotency ---------------------------
(***************************************************************************)
(* Instances of Idempotency and of its refinement for TLC.                 *)
(***************************************************************************)
EXTENDS IdempotencyRefinement, TLC

CONSTANTS p1, p2, x1, x2

(* "enroll": the payload names the course, hence the resource.             *)
PayloadNames == (p1 :> x1) @@ (p2 :> x2)

(* "submit": the path names the resource, whatever the payload says.       *)
PathNames == (p1 :> x1) @@ (p2 :> x1)

RequestSymmetry == Permutations(Request)
=============================================================================
