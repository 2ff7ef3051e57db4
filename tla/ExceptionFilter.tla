--------------------------- MODULE ExceptionFilter ---------------------------
(***************************************************************************)
(* HttpExceptionFilter: the status with which an exception that nobody has *)
(* caught is answered.  An exception is a record of what the filter reads: *)
(*   status      getStatus() of an HttpException, 0 for any other          *)
(*   driverCode  driverError.code, which TypeORM's QueryFailedError has    *)
(*   code, name  the code and the name of an error of MongoDB or Mongoose  *)
(* An empty string and 0 stand for what is missing, as in the code.        *)
(***************************************************************************)
EXTENDS Naturals

CREATED == 201
BAD_REQUEST == 400
NOT_FOUND == 404
CONFLICT == 409
INTERNAL_SERVER_ERROR == 500

Plain == [status |-> 0, driverCode |-> "", code |-> 0, name |-> ""]

HttpException(status) == [Plain EXCEPT !.status = status]
QueryFailedError(code) == [Plain EXCEPT !.driverCode = code]

UNIQUE_VIOLATION == "23505"
FOREIGN_KEY_VIOLATION == "23503"
INVALID_TEXT_REPRESENTATION == "22P02"

(* Mutant: every error of the driver is answered as a duplicate.           *)
PostgresStatus_AllConflicts(code) == CONFLICT

(* resolvePostgresError                                                    *)
PostgresStatus(code) ==
  CASE code \in {UNIQUE_VIOLATION, FOREIGN_KEY_VIOLATION} -> CONFLICT
    [] code = INVALID_TEXT_REPRESENTATION -> BAD_REQUEST
    [] OTHER -> INTERNAL_SERVER_ERROR

(* resolveException                                                        *)
StatusOf(e) ==
  CASE e.status # 0 -> e.status
    [] e.status = 0 /\ e.driverCode # "" -> PostgresStatus(e.driverCode)
    [] e.status = 0 /\ e.driverCode = "" /\ e.code = 11000 -> CONFLICT
    [] e.status = 0 /\ e.driverCode = "" /\ e.code # 11000
         /\ e.name \in {"ValidationError", "CastError"} -> BAD_REQUEST
    [] OTHER -> INTERNAL_SERVER_ERROR

(* The status says that the request was refused, not that it failed.       *)
Refused(status) == status \in 400 .. 499
==============================================================================
