----------------------------- MODULE Repository -----------------------------
(***************************************************************************)
(* What Repository.save(entity) of TypeORM does with an entity that has an *)
(* id.  The library is not part of the repository; every service calls it  *)
(* as "load, assign some properties, save", with no lock and no version    *)
(* column.  save reads the row again, compares it with the entity in       *)
(* memory, and then updates the columns that differ, and only those: the   *)
(* row may change between the two statements, and before them.             *)
(*                                                                         *)
(* Rows and entities are records with the same fields.                     *)
(***************************************************************************)

(* A row with some of its columns as the entity has them.                  *)
With(row, entity, columns) ==
  [column \in DOMAIN row |-> IF column \in columns THEN entity[column] ELSE row[column]]

(* The columns the UPDATE sets.                                            *)
Dirty(entity, reloaded) ==
  {column \in DOMAIN entity : entity[column] # reloaded[column]}

(* The row after the UPDATE of those columns.                              *)
Updated(row, entity, reloaded) ==
  [column \in DOMAIN row |->
     IF column \in Dirty(entity, reloaded) THEN entity[column] ELSE row[column]]
=============================================================================
