----------------------------- MODULE MCAccounts -----------------------------
(***************************************************************************)
(* Instances of Accounts for TLC.                                          *)
(***************************************************************************)
EXTENDS Accounts, TLC

CONSTANTS u1, u2

ActiveUser(role) == [role |-> role, isActive |-> TRUE, token |-> OldToken]

(* One admin and one e-mail that nobody has registered yet.                *)
AdminAndNewcomer == (u1 :> ActiveUser("admin")) @@ (u2 :> NoUser)

(* Two admins.                                                             *)
TwoAdmins == u1 :> ActiveUser("admin") @@ u2 :> ActiveUser("admin")

(* An admin and a student.                                                 *)
AdminAndStudent == u1 :> ActiveUser("admin") @@ u2 :> ActiveUser("student")

RequestSymmetry == Permutations(Request)
=============================================================================
