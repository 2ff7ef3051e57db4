------------------------------ MODULE Accounts ------------------------------
(***************************************************************************)
(* The table users and everything that writes it: AuthService,             *)
(* UsersService, AdminUsersService and AdminBootstrapService, behind       *)
(* JwtStrategy and RolesGuard.                                             *)
(*                                                                         *)
(* Every write but a registration is "load the row, assign some columns,   *)
(* save": the section from the load to the UPDATE spans several awaits and *)
(* nothing excludes another section on the same row.  A Request is one     *)
(* HTTP call, or one run of the bootstrap script.                          *)
(***************************************************************************)
EXTENDS Naturals, FiniteSets, Repository

CONSTANTS
  Request,      \* calls, each made at most once
  User,         \* e-mail addresses: they are unique and never change
  FirstUsers,   \* the rows of users at the start
  Role,         \* the roles; "admin" is one of them
  Operation,    \* the operations of this instance
  NoUser,       \* no row
  NoToken,      \* refresh_token is null
  OldToken,     \* the hash of a refresh token issued before the start
  Faults        \* "crash", "dbLost"

AllOperations ==
  {"register", "registerAdmin", "bootstrap", "login", "loginAdmin", "refresh",
   "logout", "rename", "status", "role", "revoke"}

(* The hash of a refresh token is named by the request that issued the     *)
(* token: bcrypt salts it, so no two are equal.                            *)
Token == Request \cup {NoToken, OldToken}

Row == [role : Role, isActive : BOOLEAN, token : Token]
Column == {"role", "isActive", "token"}

ASSUME RoleAssumption == "admin" \in Role /\ Role \subseteq {"student", "tutor", "admin"}
ASSUME TokenAssumption == NoToken \notin Request \cup {OldToken} /\ OldToken \notin Request
ASSUME RowAssumption == NoUser \notin Row
ASSUME OperationAssumption == Operation \subseteq AllOperations
ASSUME FirstAssumption == FirstUsers \in [User -> Row \cup {NoUser}]
ASSUME FaultAssumption == Faults \subseteq {"crash", "dbLost"}

Step == {"idle", "create", "insert", "load", "count", "reload", "update",
         "audit", "done"}

Kind == {"pending", "ok", "conflict", "unauthorized", "forbidden", "badRequest",
         "notFound", "lastAdmin", "error", "lost"}

(* actor: who sends the request; user: whose row it is about; role and     *)
(* isActive: what the body asks for, where the operation takes it.         *)
Call == [op : AllOperations, actor : User, user : User, role : Role, isActive : BOOLEAN]

VARIABLES
  users,       \* the table
  pc,          \* the await at which a request stands
  call,        \* what each request asks for
  memory,      \* the entity it has loaded and changed
  reloaded,    \* the row as save() has read it again
  answer,      \* how it ended
  trail,       \* what the last records say of the role and the status of a user
  overlapped,  \* history: two sections have been open at a time
  barred,      \* history: the users whose last change of status is a deactivation
  untold,      \* history: the users whose trail has a gap or an overlap
  meant,       \* history: the rows, had every save set its own columns only
  overtaken,   \* history: the columns others have updated between a load and its SELECT
  stale        \* history: the columns an overtaken save may have written back

history == <<overlapped, barred, untold, meant, overtaken, stale>>
vars == <<users, pc, call, memory, reloaded, answer, trail, history>>

TypeOK ==
  /\ users \in [User -> Row \cup {NoUser}]
  /\ pc \in [Request -> Step]
  /\ call \in [Request -> Call]
  /\ memory \in [Request -> Row \cup {NoUser}]
  /\ reloaded \in [Request -> Row \cup {NoUser}]
  /\ answer \in [Request -> Kind]
  /\ trail \in [User -> [role : SUBSET Role, isActive : SUBSET BOOLEAN]]
  /\ overlapped \in BOOLEAN
  /\ barred \subseteq User
  /\ untold \subseteq User
  /\ meant \in [User -> Row \cup {NoUser}]
  /\ overtaken \in [Request -> SUBSET Column]
  /\ stale \in [User -> SUBSET Column]

Exists(u) == users[u] # NoUser
IsActiveAdmin(u) == Exists(u) /\ users[u].role = "admin" /\ users[u].isActive
ActiveAdmins == {u \in User : IsActiveAdmin(u)}

Init ==
  /\ users = FirstUsers
  /\ pc = [r \in Request |-> "idle"]
  /\ \E u \in User :
       call = [r \in Request |-> [op |-> "logout", actor |-> u, user |-> u,
                                  role |-> "admin", isActive |-> TRUE]]
  /\ memory = [r \in Request |-> NoUser]
  /\ reloaded = [r \in Request |-> NoUser]
  /\ answer = [r \in Request |-> "pending"]
  /\ trail = [u \in User |-> [role |-> {}, isActive |-> {}]]
  /\ overlapped = FALSE
  /\ barred = {}
  /\ untold = {}
  /\ meant = FirstUsers
  /\ overtaken = [r \in Request |-> {}]
  /\ stale = [u \in User |-> {}]

(***************************************************************************)
(* Helpers                                                                 *)
(***************************************************************************)
Go(r, step) ==
  /\ pc' = [pc EXCEPT ![r] = step]
  /\ UNCHANGED answer

Finish(r, kind) ==
  /\ pc' = [pc EXCEPT ![r] = "done"]
  /\ answer' = [answer EXCEPT ![r] = kind]

(* The entities of a request go out of scope when it ends.                 *)
Forget(r) ==
  /\ memory' = [memory EXCEPT ![r] = NoUser]
  /\ reloaded' = [reloaded EXCEPT ![r] = NoUser]

(* The requests between the load of a row and its UPDATE.                  *)
InSection == {r \in Request : pc[r] \in {"count", "reload", "update"}}

Issuing == {"register", "login", "loginAdmin", "refresh"}
Audited == {"loginAdmin", "status", "role", "revoke"}

(* The assignments of request r to the entity e between load and save.     *)
Assigned(r, e) ==
  CASE call[r].op \in Issuing            -> [e EXCEPT !.token = r]
    [] call[r].op \in {"logout", "revoke"} -> [e EXCEPT !.token = NoToken]
    [] call[r].op = "rename"             -> e
    [] call[r].op = "role"               -> [e EXCEPT !.role = call[r].role]
    [] call[r].op = "status"             ->
         [e EXCEPT !.isActive = call[r].isActive,
                   !.token = IF call[r].isActive THEN @ ELSE NoToken]

(* The columns among them.                                                 *)
Assigns(r) ==
  CASE call[r].op \in Issuing \cup {"logout", "revoke"} -> {"token"}
    [] call[r].op = "rename" -> {}
    [] call[r].op = "role"   -> {"role"}
    [] call[r].op = "status" -> {"isActive"} \cup (IF call[r].isActive THEN {} ELSE {"token"})

(* Mutant: only a change of the role is held against the last admin.       *)
RemovesActiveAdmin_RoleOnly(r, e) ==
  /\ call[r].op = "role"
  /\ e.role = "admin" /\ e.isActive
  /\ call[r].role # "admin"

(* The condition of assertLastActiveAdminRemains.                          *)
RemovesActiveAdmin(r, e) ==
  /\ call[r].op \in {"status", "role"}
  /\ e.role = "admin" /\ e.isActive
  /\ LET next == Assigned(r, e) IN next.role # "admin" \/ ~ next.isActive

(***************************************************************************)
(* Arrivals: the guard, or the first look-up of a public route             *)
(***************************************************************************)
Arrive(r, c) ==
  /\ pc[r] = "idle"
  /\ c.op \in Operation
  /\ call' = [call EXCEPT ![r] = c]
  /\ UNCHANGED <<users, memory, reloaded, trail, history>>

SelfCall(op, u) ==
  [op |-> op, actor |-> u, user |-> u, role |-> "admin", isActive |-> TRUE]

(* The first findByEmail of register, registerAdmin and ensureAdminUser.   *)
BeginRegister(r, op, u, role) ==
  /\ op \in {"register", "registerAdmin", "bootstrap"}
  /\ (op = "register") <=> (role # "admin")
  /\ Arrive(r, [SelfCall(op, u) EXCEPT !.role = role])
  /\ \/ ~ Exists(u) /\ Go(r, "create")
     \/ Exists(u) /\ op = "bootstrap" /\ users[u].role = "admin" /\ Finish(r, "ok")
     \/ /\ Exists(u)
        /\ ~ (op = "bootstrap" /\ users[u].role = "admin")
        /\ Finish(r, "conflict")

(* validateCredentials, and what loginAdmin asks besides.  login does not  *)
(* look at isActive.                                                       *)
BeginLogin(r, op, u) ==
  /\ op \in {"login", "loginAdmin"}
  /\ Arrive(r, SelfCall(op, u))
  /\ IF Exists(u) /\ (op = "loginAdmin" => IsActiveAdmin(u))
       THEN Go(r, "load")
       ELSE Finish(r, "unauthorized")

(* refresh up to generateAndPersistTokens.  bcrypt.compare reads 72 bytes, *)
(* which all refresh tokens of a user share: it holds for a stored hash.   *)
BeginRefresh(r, u) ==
  /\ Arrive(r, SelfCall("refresh", u))
  /\ IF ~ Exists(u) THEN Finish(r, "notFound")
     ELSE IF users[u].isActive /\ users[u].token # NoToken THEN Go(r, "load")
     ELSE Finish(r, "unauthorized")

(* JwtStrategy.validate: the user of the access token exists, is active.   *)
Authenticated(u) == Exists(u) /\ users[u].isActive

BeginOwn(r, op, u) ==
  /\ op \in {"logout", "rename"}
  /\ Arrive(r, SelfCall(op, u))
  /\ IF Authenticated(u) THEN Go(r, "load") ELSE Finish(r, "unauthorized")

(* Each admin route takes one field from the body, or none.                *)
AdminCalls(actor, u, role, b) ==
  {[SelfCall("role", u) EXCEPT !.actor = actor, !.role = role],
   [SelfCall("status", u) EXCEPT !.actor = actor, !.isActive = b],
   [SelfCall("revoke", u) EXCEPT !.actor = actor]}

(* JwtStrategy, RolesGuard and the checks before the first await.          *)
BeginAdmin(r, c) ==
  /\ Arrive(r, c)
  /\ \/ ~ Authenticated(c.actor) /\ Finish(r, "unauthorized")
     \/ /\ Authenticated(c.actor)
        /\ users[c.actor].role # "admin"
        /\ Finish(r, "forbidden")
     \/ /\ IsActiveAdmin(c.actor)
        /\ IF c.actor = c.user /\ (c.op = "role" \/ (c.op = "status" /\ ~ c.isActive))
             THEN Finish(r, "badRequest")
             ELSE Go(r, "load")

(***************************************************************************)
(* Registration                                                            *)
(***************************************************************************)
(* UsersService.create asks for the e-mail once more.                      *)
CreateUser(r) ==
  /\ pc[r] = "create"
  /\ IF Exists(call[r].user) THEN Finish(r, "conflict") ELSE Go(r, "insert")
  /\ UNCHANGED <<users, call, memory, reloaded, trail, history>>

(* Mutant: a column has no default.                                        *)
NewUser_NoDefault(role) == [role |-> role, isActive |-> TRUE]

(* The row of a new user, by the defaults of the entity.                   *)
NewUser(role) == [role |-> role, isActive |-> TRUE, token |-> NoToken]

(* Mutant: save() of a user without an id overwrites the row of the e-mail.*)
InsertUser_Upsert(r) ==
  /\ pc[r] = "insert"
  /\ users' = [users EXCEPT ![call[r].user] = NewUser(call[r].role)]
  /\ meant' = [meant EXCEPT ![call[r].user] = NewUser(call[r].role)]
  /\ IF call[r].op = "register" THEN Go(r, "load") ELSE Finish(r, "ok")
  /\ UNCHANGED <<call, memory, reloaded, trail, overlapped, barred, untold, overtaken, stale>>

(* saveUserSafely of a new user: the unique e-mail decides a race.         *)
InsertUser(r) ==
  LET u == call[r].user IN
    /\ pc[r] = "insert"
    /\ IF Exists(u)
         THEN /\ Finish(r, "conflict")
              /\ UNCHANGED <<users, meant>>
         ELSE /\ users' = [users EXCEPT ![u] = NewUser(call[r].role)]
              /\ meant' = [meant EXCEPT ![u] = NewUser(call[r].role)]
              /\ IF call[r].op = "register" THEN Go(r, "load") ELSE Finish(r, "ok")
    /\ UNCHANGED <<call, memory, reloaded, trail, overlapped, barred, untold, overtaken, stale>>

(***************************************************************************)
(* Load, assign, save, record                                              *)
(***************************************************************************)
(* The requests that hold u, or have saved it and not recorded it yet.     *)
Touching(u) ==
  {r \in Request : call[r].user = u /\ (r \in InSection \/ pc[r] = "audit")}

LoadUser(r) ==
  LET u == call[r].user IN
    /\ pc[r] = "load"
    /\ IF ~ Exists(u)
         THEN /\ Finish(r, "notFound")
              /\ UNCHANGED <<memory, overlapped, untold>>
         ELSE /\ memory' = [memory EXCEPT ![r] = Assigned(r, users[u])]
              /\ overlapped' = (overlapped \/ InSection # {})
              /\ untold' = IF Touching(u) # {} THEN untold \cup {u} ELSE untold
              /\ Go(r, IF RemovesActiveAdmin(r, users[u]) THEN "count" ELSE "reload")
    /\ UNCHANGED <<users, call, reloaded, trail, barred, meant, overtaken, stale>>

(* The rest of assertLastActiveAdminRemains.                               *)
CountAdmins(r) ==
  /\ pc[r] = "count"
  /\ IF Cardinality(ActiveAdmins) <= 1
       THEN Finish(r, "lastAdmin") /\ Forget(r)
       ELSE Go(r, "reload") /\ UNCHANGED <<memory, reloaded>>
  /\ UNCHANGED <<users, call, trail, history>>

StatusChangeOpen(r) ==
  \E other \in InSection \ {r} : call[other].op = "status" /\ call[other].user = call[r].user

(* save() returns: what the caller does next, and what has become true.    *)
Saved(r) ==
  LET u == call[r].user IN
    /\ IF call[r].op \in Audited THEN Go(r, "audit") ELSE Finish(r, "ok")
    /\ barred' = IF call[r].op # "status" THEN barred
                 ELSE IF call[r].isActive THEN barred \ {u}
                 ELSE IF StatusChangeOpen(r) THEN barred
                 ELSE barred \cup {u}
    /\ UNCHANGED <<overlapped, untold>>

(* The request has set these columns of its own.                           *)
Means(r, columns) == meant' = [meant EXCEPT ![call[r].user] = With(@, memory[r], columns)]

(* The SELECT of save().  Without a column to change there is no UPDATE; a *)
(* column that already is as assigned is not written and set from now on.  *)
ReloadUser(r) ==
  LET u == call[r].user
      dirty == Dirty(memory[r], users[u]) IN
    /\ pc[r] = "reload"
    /\ IF dirty = {}
         THEN Saved(r) /\ Forget(r)
         ELSE /\ reloaded' = [reloaded EXCEPT ![r] = users[u]]
              /\ Go(r, "update")
              /\ UNCHANGED <<memory, overlapped, barred, untold>>
    /\ Means(r, Assigns(r) \ dirty)
    /\ stale' = [stale EXCEPT ![u] = @ \ (Assigns(r) \ dirty)]
    /\ UNCHANGED <<users, call, trail, overtaken>>

(* The history of an UPDATE: whom it overtakes, and what it may undo if it *)
(* has been overtaken itself.                                              *)
Overtakes(r) ==
  LET u == call[r].user
      written == Dirty(memory[r], reloaded[r])
      waiting == {o \in Request : call[o].user = u /\ pc[o] \in {"count", "reload"}} IN
    /\ Means(r, Assigns(r) \cap written)
    /\ overtaken' = [o \in Request |->
                       IF o \in waiting THEN overtaken[o] \cup written ELSE overtaken[o]]
    /\ stale' = [stale EXCEPT ![u] = (@ \ (Assigns(r) \cap written))
                                       \cup (overtaken[r] \ Assigns(r))]

(* Mutant: the UPDATE sets every column, not those that differ.            *)
UpdateUser_WholeRow(r) ==
  /\ pc[r] = "update"
  /\ users' = [users EXCEPT ![call[r].user] = memory[r]]
  /\ Saved(r)
  /\ Overtakes(r)
  /\ Forget(r)
  /\ UNCHANGED <<call, trail>>

(* Mutant: is_active is a column that save() does not update.              *)
UpdateUser_KeepsStatus(r) ==
  LET u == call[r].user IN
    /\ pc[r] = "update"
    /\ users' = [users EXCEPT ![u] = [Updated(@, memory[r], reloaded[r])
                                        EXCEPT !.isActive = users[u].isActive]]
    /\ Saved(r)
    /\ Overtakes(r)
    /\ Forget(r)
    /\ UNCHANGED <<call, trail>>

UpdateUser(r) ==
  /\ pc[r] = "update"
  /\ users' = [users EXCEPT ![call[r].user] = Updated(@, memory[r], reloaded[r])]
  /\ Saved(r)
  /\ Overtakes(r)
  /\ Forget(r)
  /\ UNCHANGED <<call, trail>>

(* AdminAuditService.record, in no transaction with the change.  The rows  *)
(* of admin.login and users.revoke_sessions are not told apart.            *)
RecordAudit(r) ==
  LET u == call[r].user IN
    /\ pc[r] = "audit"
    /\ trail' = CASE call[r].op = "role"   -> [trail EXCEPT ![u].role = {call[r].role}]
                  [] call[r].op = "status" -> [trail EXCEPT ![u].isActive = {call[r].isActive}]
                  [] OTHER -> trail
    /\ Finish(r, "ok")
    /\ UNCHANGED <<users, call, memory, reloaded, history>>

(***************************************************************************)
(* Faults                                                                  *)
(***************************************************************************)
CallFails(r) ==
  /\ "dbLost" \in Faults
  /\ pc[r] \notin {"idle", "done"}
  /\ Finish(r, "error")
  /\ untold' = IF pc[r] = "audit" THEN untold \cup {call[r].user} ELSE untold
  /\ Forget(r)
  /\ UNCHANGED <<users, call, trail, overlapped, barred, meant, overtaken, stale>>

InFlight == {r \in Request : pc[r] \notin {"idle", "done"}}

Crash ==
  /\ "crash" \in Faults
  /\ InFlight # {}
  /\ pc' = [r \in Request |-> IF r \in InFlight THEN "done" ELSE pc[r]]
  /\ answer' = [r \in Request |-> IF r \in InFlight THEN "lost" ELSE answer[r]]
  /\ memory' = [r \in Request |-> NoUser]
  /\ reloaded' = [r \in Request |-> NoUser]
  /\ untold' = untold \cup {u \in User : \E r \in Touching(u) : pc[r] = "audit"}
  /\ UNCHANGED <<users, call, trail, overlapped, barred, meant, overtaken, stale>>

(***************************************************************************)
(* The specification                                                       *)
(***************************************************************************)
Arrival(r) ==
  \E u \in User, op \in Operation :
    \/ \E role \in Role : BeginRegister(r, op, u, role)
    \/ BeginLogin(r, op, u)
    \/ op = "refresh" /\ BeginRefresh(r, u)
    \/ BeginOwn(r, op, u)
    \/ \E actor \in User, role \in Role, b \in BOOLEAN :
         \E c \in AdminCalls(actor, u, role, b) : c.op = op /\ BeginAdmin(r, c)

Handle(r) ==
  \/ CreateUser(r) \/ InsertUser(r) \/ LoadUser(r) \/ CountAdmins(r)
  \/ ReloadUser(r) \/ UpdateUser(r) \/ RecordAudit(r)

Next ==
  \/ \E r \in Request : Arrival(r) \/ Handle(r) \/ CallFails(r)
  \/ Crash

Spec == Init /\ [][Next]_vars

(***************************************************************************)
(* Properties                                                              *)
(***************************************************************************)
(* Of the registrations with one e-mail at most one is answered with       *)
(* success (users.service.ts:33-45, 71-84).                                *)
OneRegistrationWins ==
  \A a, b \in Request :
    /\ answer[a] = "ok" /\ call[a].op \in {"register", "registerAdmin"}
    /\ answer[b] = "ok" /\ call[b].op \in {"register", "registerAdmin"}
    /\ call[a].user = call[b].user
    => a = b

(* As long as no two sections have overlapped, an active admin remains:    *)
(* the count is right in every sequential history.                         *)
SerialKeepsAnAdmin == ~ overlapped => ActiveAdmins # {}

(* The only change a save can undo is one whose UPDATE fell between the    *)
(* load and the SELECT of that save, in a column it does not assign: every *)
(* other column of a row is as the last request that assigned it, or the   *)
(* registration, left it.  So a demotion, a deactivation or a revocation   *)
(* holds against a login or a rename that loaded the row after it, or that *)
(* had read it again before (users.service.ts:47-73,                       *)
(* admin-users.service.ts:62-138).                                         *)
ChangesStick ==
  \A u \in User : Exists(u) =>
    \A column \in Column \ stale[u] : users[u][column] = meant[u][column]

(* The audit trail tells the role and the status of a user: what its last  *)
(* records say is so, through registrations, logins and edits of the own   *)
(* profile, which save the same row.  A user loaded while another request  *)
(* held or was recording it, or whose record is missing after a crash or a *)
(* failure, is excepted (admin-users.service.ts:62-121).                   *)
TrailTellsState ==
  \A u \in User \ untold :
    Touching(u) = {} /\ Exists(u) =>
      /\ trail[u].role \subseteq {users[u].role}
      /\ trail[u].isActive \subseteq {users[u].isActive}

(* "At least one active admin must remain" (error-messages.constant.ts:13).*)
ActiveAdminRemains == ActiveAdmins # {}

(* "An admin can deactivate a user and invalidate the session"             *)
(* (test/admin-users.e2e-spec.ts:76): a user whose last change of status   *)
(* was a deactivation is inactive.                                         *)
DeactivationSticks == \A u \in barred : ~ users[u].isActive
=============================================================================
