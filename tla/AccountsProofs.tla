---------------------------- MODULE AccountsProofs ----------------------------
(***************************************************************************)
(* What the table users and its audit trail keep, for every number of      *)
(* requests and users.                                                     *)
(*                                                                         *)
(* Between the load and the save of a row nothing excludes another request *)
(* and so little can be relied on: Good says what always can.  A column    *)
(* that no other UPDATE has touched since the load is as it was read       *)
(* (Seen): which changes hold rests on that.  A section that is alone, on  *)
(* its row or on the table, saves what it means to save (Exact): the trail *)
(* and the last admin rest on that.                                        *)
(***************************************************************************)
EXTENDS Accounts, FiniteSetTheorems, TLAPS

USE DEF Step, Kind

TrailRow == [role : SUBSET Role, isActive : SUBSET BOOLEAN]

Registering == {"register", "registerAdmin", "bootstrap"}
Saving == AllOperations \ {"registerAdmin", "bootstrap"}

(***************************************************************************)
(* The columns                                                             *)
(***************************************************************************)
LEMMA AssignedIs ==
  ASSUME NEW r \in Request, NEW e \in Row, call[r] \in Call, call[r].op \in Saving
  PROVE  LET a == Assigned(r, e) IN
           /\ a \in Row
           /\ a.role = IF call[r].op = "role" THEN call[r].role ELSE e.role
           /\ a.isActive = IF call[r].op = "status" THEN call[r].isActive ELSE e.isActive
           /\ \A c \in Column \ Assigns(r) : a[c] = e[c]
<1>1. r \in Token /\ NoToken \in Token
  BY DEF Token
<1>2. CASE call[r].op \in Issuing
  <2>1. Assigned(r, e) = [e EXCEPT !.token = r]
    BY <1>2 DEF Assigned, Issuing
  <2> QED
    BY <1>1, <1>2, <2>1 DEF Row, Column, Issuing, Assigns
<1>3. CASE call[r].op \in {"logout", "revoke"}
  <2>1. Assigned(r, e) = [e EXCEPT !.token = NoToken]
    BY <1>3 DEF Assigned, Issuing
  <2> QED
    BY <1>1, <1>3, <2>1 DEF Row, Column, Issuing, Assigns
<1>4. CASE call[r].op = "rename"
  <2>1. Assigned(r, e) = e
    BY <1>4 DEF Assigned, Issuing
  <2> QED
    BY <1>4, <2>1 DEF Row
<1>5. CASE call[r].op = "role"
  <2>1. Assigned(r, e) = [e EXCEPT !.role = call[r].role]
    BY <1>5 DEF Assigned, Issuing
  <2> QED
    BY <1>5, <2>1 DEF Row, Column, Call, Issuing, Assigns
<1>6. CASE call[r].op = "status"
  <2>1. Assigned(r, e) = [e EXCEPT !.isActive = call[r].isActive,
                                   !.token = IF call[r].isActive THEN @ ELSE NoToken]
    BY <1>6 DEF Assigned, Issuing
  <2> QED
    BY <1>1, <1>6, <2>1 DEF Row, Column, Call, Issuing, Assigns
<1> QED
  BY <1>2, <1>3, <1>4, <1>5, <1>6 DEF Saving, AllOperations, Issuing

LEMMA UpdatedIs ==
  ASSUME NEW e \in Row, NEW m \in Row, NEW x
  PROVE  /\ Updated(e, m, x) \in Row
         /\ Dirty(m, x) = {c \in Column : m[c] # x[c]}
         /\ \A c \in Column : Updated(e, m, x)[c] = IF c \in Dirty(m, x) THEN m[c] ELSE e[c]
<1>1. DOMAIN e = Column /\ DOMAIN m = Column
  BY DEF Row, Column
<1>2. /\ Dirty(m, x) = {c \in Column : m[c] # x[c]}
      /\ \A c \in Column : Updated(e, m, x)[c] = IF c \in Dirty(m, x) THEN m[c] ELSE e[c]
  BY <1>1 DEF Updated, Dirty
<1>3. Updated(e, m, x) \in Row
  <2> DEFINE u == Updated(e, m, x)
  <2>1. u = [role |-> u.role, isActive |-> u.isActive, token |-> u.token]
    BY <1>1 DEF Updated, Column
  <2>2. /\ u.role \in {e.role, m.role} /\ u.isActive \in {e.isActive, m.isActive}
        /\ u.token \in {e.token, m.token}
    BY <1>1 DEF Updated, Column
  <2> HIDE DEF u
  <2>3. u \in Row
    BY <2>1, <2>2 DEF Row
  <2> QED
    BY <2>3 DEF u
<1> QED
  BY <1>2, <1>3

(* Nobody has changed the row since it was loaded.                         *)
LEMMA UpdatedAlone ==
  ASSUME NEW e \in Row, NEW m \in Row
  PROVE  /\ Updated(e, m, e) = m
         /\ Dirty(m, e) = {} => m = e
<1>1. DOMAIN e = Column /\ DOMAIN m = Column
  BY DEF Row, Column
<1>2. Updated(e, m, e) = m
  <2>1. Updated(e, m, e) = [column \in {"role", "isActive", "token"} |-> m[column]]
    BY <1>1 DEF Updated, Dirty, Column
  <2> QED
    BY <1>1, <2>1 DEF Row, Column
<1>3. Dirty(m, e) = {} => m = e
  BY <1>1 DEF Dirty, Row, Column
<1> QED
  BY <1>2, <1>3

LEMMA WithIs ==
  ASSUME NEW e \in Row, NEW m \in Row, NEW columns
  PROVE  /\ With(e, m, columns) \in Row
         /\ \A c \in Column : With(e, m, columns)[c] = IF c \in columns THEN m[c] ELSE e[c]
<1>1. DOMAIN e = Column
  BY DEF Row, Column
<1>2. \A c \in Column : With(e, m, columns)[c] = IF c \in columns THEN m[c] ELSE e[c]
  BY <1>1 DEF With
<1>3. With(e, m, columns) \in Row
  <2> DEFINE u == With(e, m, columns)
  <2>1. u = [role |-> u.role, isActive |-> u.isActive, token |-> u.token]
    BY <1>1 DEF With, Column
  <2>2. /\ u.role \in {e.role, m.role} /\ u.isActive \in {e.isActive, m.isActive}
        /\ u.token \in {e.token, m.token}
    BY <1>1 DEF With, Column
  <2> HIDE DEF u
  <2>3. u \in Row
    BY <2>1, <2>2 DEF Row
  <2> QED
    BY <2>3 DEF u
<1> QED
  BY <1>2, <1>3

LEMMA NewUserIsRow == \A role \in Role : NewUser(role) \in Row
  BY DEF NewUser, Row, Token

(***************************************************************************)
(* The invariant                                                           *)
(***************************************************************************)
(* The registrations that have inserted their row.                         *)
Registered(r) ==
  /\ call[r].op \in {"register", "registerAdmin"}
  /\ pc[r] \notin {"idle", "create", "insert"}
  /\ answer[r] \in {"pending", "ok"}

(* What always holds of a request: rows are not removed.                   *)
Good(r) ==
  /\ pc[r] # "done" => answer[r] = "pending"
  /\ pc[r] \in {"create", "insert"} => call[r].op \in Registering
  /\ pc[r] \in {"load", "count", "reload", "update", "audit"} => call[r].op \in Saving
  /\ pc[r] \in {"count", "reload", "update", "audit"} => Exists(call[r].user)
  /\ Registered(r) => Exists(call[r].user)

(* What a request holds in its section.                                    *)
Loaded(r) ==
  /\ pc[r] \in {"count", "reload", "update"} => memory[r] \in Row
  /\ pc[r] = "update" => reloaded[r] \in Row

(* A column that nobody else has updated since the load is as it was read. *)
Seen(r) ==
  \A c \in Column \ (Assigns(r) \cup overtaken[r]) :
    /\ pc[r] \in {"count", "reload"} => memory[r][c] = users[call[r].user][c]
    /\ pc[r] = "update" => memory[r][c] = reloaded[r][c]

(* A section that is alone saves what it means to save.                    *)
Exact(r) ==
  pc[r] \in {"count", "reload", "update"} /\ (call[r].user \notin untold \/ ~ overlapped) =>
    /\ memory[r] = Assigned(r, users[call[r].user])
    /\ pc[r] = "update" => reloaded[r] = users[call[r].user]

Alone ==
  /\ ~ overlapped => \A a, b \in InSection : a = b
  /\ \A u \in User \ untold : \A a, b \in Touching(u) : a = b

OneRegistered ==
  \A a, b \in Request :
    Registered(a) /\ Registered(b) /\ call[a].user = call[b].user => a = b

(* A row is as its users meant it, but for the columns that are stale.     *)
Meaning(u) ==
  /\ Exists(u) <=> meant[u] # NoUser
  /\ Exists(u) => \A c \in Column \ stale[u] : users[u][c] = meant[u][c]

Recording(r, u, op) == pc[r] = "audit" /\ call[r].user = u /\ call[r].op = op

(* The trail is right, or a request that is about to record has the last   *)
(* word.                                                                   *)
Told(u) ==
  /\ ~ Exists(u) => trail[u].role = {} /\ trail[u].isActive = {}
  /\ u \notin untold /\ Exists(u) =>
       /\ \/ trail[u].role \subseteq {users[u].role}
          \/ \E r \in Request : Recording(r, u, "role")
       /\ \/ trail[u].isActive \subseteq {users[u].isActive}
          \/ \E r \in Request : Recording(r, u, "status")
       /\ \A r \in Request :
            /\ Recording(r, u, "role") => users[u].role = call[r].role
            /\ Recording(r, u, "status") => users[u].isActive = call[r].isActive

IInv ==
  /\ TypeOK
  /\ \A r \in Request : Good(r) /\ Loaded(r) /\ Seen(r) /\ Exact(r)
  /\ Alone
  /\ OneRegistered
  /\ \A u \in User : Meaning(u) /\ Told(u)

(***************************************************************************)
(* What a step does                                                        *)
(***************************************************************************)
RequestStep(r) == Arrival(r) \/ Handle(r) \/ CallFails(r)

(* A request that arrives.                                                 *)
Arrived(r) ==
  /\ pc[r] = "idle" /\ UNCHANGED <<users, memory, reloaded, trail, history>>
  /\ \E c \in Call :
       /\ call' = [call EXCEPT ![r] = c]
       /\ \/ c.op \in Registering /\ Go(r, "create")
          \/ c.op \in Saving \ {"register"} /\ Go(r, "load")
          \/ c.op = "bootstrap" /\ Finish(r, "ok")
          \/ \E k \in Kind \ {"pending", "ok"} : Finish(r, k)

LEMMA ArrivalIs ==
  ASSUME TypeOK, NEW r \in Request, Arrival(r)
  PROVE  Arrived(r)
<1> USE RoleAssumption, OperationAssumption
<1>0. \A u \in User, op \in Operation : SelfCall(op, u) \in Call /\ SelfCall(op, u).op = op
  BY DEF SelfCall, Call
<1>1. ASSUME NEW u \in User, NEW op \in Operation, NEW role \in Role, BeginRegister(r, op, u, role)
      PROVE Arrived(r)
  <2> DEFINE c == [SelfCall(op, u) EXCEPT !.role = role]
  <2>1. c \in Call /\ c.op = op
    BY DEF SelfCall, Call
  <2>2. /\ op \in Registering /\ Arrive(r, c)
        /\ \/ Go(r, "create") \/ (op = "bootstrap" /\ Finish(r, "ok")) \/ Finish(r, "conflict")
    BY <1>1 DEF BeginRegister, Registering
  <2> HIDE DEF c
  <2> QED
    BY <2>1, <2>2 DEF Arrive, Arrived
<1>2. ASSUME NEW u \in User, NEW op \in Operation,
             BeginLogin(r, op, u) \/ (op = "refresh" /\ BeginRefresh(r, u)) \/ BeginOwn(r, op, u)
      PROVE Arrived(r)
  <2>1. /\ op \in Saving \ {"register"} /\ Arrive(r, SelfCall(op, u))
        /\ \/ Go(r, "load") \/ Finish(r, "unauthorized") \/ Finish(r, "notFound")
    BY <1>2 DEF BeginLogin, BeginRefresh, BeginOwn, Saving, AllOperations
  <2> QED
    BY <1>0, <2>1 DEF Arrive, Arrived
<1>3. ASSUME NEW u \in User, NEW actor \in User, NEW role \in Role, NEW b \in BOOLEAN,
             NEW c \in AdminCalls(actor, u, role, b), BeginAdmin(r, c)
      PROVE Arrived(r)
  <2>1. c \in Call /\ c.op \in {"role", "status", "revoke"}
    BY DEF AdminCalls, SelfCall, Call, AllOperations
  <2>2. /\ Arrive(r, c)
        /\ \/ Go(r, "load") \/ Finish(r, "unauthorized") \/ Finish(r, "forbidden")
           \/ Finish(r, "badRequest")
    BY <1>3 DEF BeginAdmin
  <2> QED
    BY <2>1, <2>2 DEF Arrive, Arrived, Saving, AllOperations
<1> QED
  BY <1>1, <1>2, <1>3 DEF Arrival

(* r moves and is answered, and nobody else.                               *)
Moves(r) ==
  /\ pc[r] # "done"
  /\ \E s \in Step \ {"idle"} : pc' = [pc EXCEPT ![r] = s]
  /\ \/ answer' = answer /\ pc'[r] # "done"
     \/ pc'[r] = "done" /\ \E k \in Kind \ {"pending"} : answer' = [answer EXCEPT ![r] = k]

(* What others have asked for and loaded stays.                            *)
Keeps(r) ==
  /\ call' \in [Request -> Call]
  /\ memory' \in [Request -> Row \cup {NoUser}] /\ reloaded' \in [Request -> Row \cup {NoUser}]
  /\ pc[r] # "idle" => call' = call
  /\ \A o \in Request \ {r} :
       call'[o] = call[o] /\ memory'[o] = memory[o] /\ reloaded'[o] = reloaded[o]

LEMMA StepMoves ==
  ASSUME TypeOK, NEW r \in Request, RequestStep(r)
  PROVE  Moves(r)
<1> USE DEF TypeOK
<1>g. ASSUME NEW s \in Step \ {"idle", "done"}, Go(r, s)
      PROVE  /\ \E t \in Step \ {"idle"} : pc' = [pc EXCEPT ![r] = t]
             /\ answer' = answer /\ pc'[r] # "done"
  BY <1>g DEF Go
<1>f. ASSUME NEW k \in Kind \ {"pending"}, Finish(r, k)
      PROVE  /\ \E t \in Step \ {"idle"} : pc' = [pc EXCEPT ![r] = t]
             /\ pc'[r] = "done" /\ \E j \in Kind \ {"pending"} : answer' = [answer EXCEPT ![r] = j]
  BY <1>f DEF Finish
<1> HIDE DEF TypeOK
<1>1. /\ (\E s \in Step \ {"idle", "done"} : Go(r, s)) \/ (\E k \in Kind \ {"pending"} : Finish(r, k))
      /\ pc[r] # "done"
  <2>1. CASE Arrival(r)
    BY <2>1, ArrivalIs DEF Arrived
  <2>2. CASE Handle(r) \/ CallFails(r)
    BY <2>2 DEF Handle, CreateUser, InsertUser, LoadUser, CountAdmins, ReloadUser, UpdateUser, Saved,
         RecordAudit, CallFails
  <2> QED
    BY <2>1, <2>2 DEF RequestStep
<1> QED
  BY <1>1, <1>g, <1>f DEF Moves

LEMMA StepKeeps ==
  ASSUME TypeOK, NEW r \in Request, Good(r), RequestStep(r)
  PROVE  Keeps(r)
<1>1. /\ call \in [Request -> Call] /\ memory \in [Request -> Row \cup {NoUser}]
      /\ reloaded \in [Request -> Row \cup {NoUser}] /\ users \in [User -> Row \cup {NoUser}]
      /\ call[r] \in Call /\ call[r].user \in User
  BY DEF TypeOK, Call
<1>2. CASE Arrival(r)
  BY <1>1, <1>2, ArrivalIs DEF Arrived, Keeps
<1>3. CASE Handle(r) \/ CallFails(r)
  <2>1. pc[r] # "idle" /\ call' = call
    BY <1>3 DEF Handle, CreateUser, InsertUser, LoadUser, CountAdmins, ReloadUser, UpdateUser,
         RecordAudit, CallFails
  <2>2. memory' = memory \/ (\E m \in Row \cup {NoUser} : memory' = [memory EXCEPT ![r] = m])
    <3>1. pc[r] = "load" /\ Exists(call[r].user) => Assigned(r, users[call[r].user]) \in Row
      BY <1>1, AssignedIs DEF Good, Exists
    <3> QED
      BY <1>3, <3>1 DEF Handle, CreateUser, InsertUser, LoadUser, CountAdmins, ReloadUser,
         UpdateUser, RecordAudit, CallFails, Forget
  <2>3. reloaded' = reloaded \/ (\E m \in Row \cup {NoUser} : reloaded' = [reloaded EXCEPT ![r] = m])
    BY <1>1, <1>3 DEF Handle, CreateUser, InsertUser, LoadUser, CountAdmins, ReloadUser,
         UpdateUser, RecordAudit, CallFails, Forget
  <2> QED
    BY <1>1, <2>1, <2>2, <2>3 DEF Keeps
<1> QED
  BY <1>2, <1>3 DEF RequestStep

(* All that a step of r does to the table and the trail.                    *)
Looks(r) ==
  /\ UNCHANGED <<users, trail>>
  /\ pc'[r] # "audit"
  /\ pc'[r] # "done" \/ answer'[r] # "ok" \/ call'[r].op = "bootstrap"

Inserts(r) ==
  LET u == call[r].user IN
    /\ pc[r] = "insert" /\ ~ Exists(u)
    /\ users' = [users EXCEPT ![u] = NewUser(call[r].role)]
    /\ trail' = trail
    /\ pc'[r] \in {"load", "done"}

Saves(r) ==
  LET u == call[r].user IN
    /\ pc[r] \in {"reload", "update"}
    /\ users' = [users EXCEPT ![u] = Updated(@, memory[r], IF pc[r] = "reload" THEN @ ELSE reloaded[r])]
    /\ trail' = trail
    /\ pc'[r] = IF call[r].op \in Audited THEN "audit" ELSE "done"

LEMMA StepActs ==
  ASSUME TypeOK, NEW r \in Request, Good(r), Loaded(r), RequestStep(r)
  PROVE  Looks(r) \/ Inserts(r) \/ Saves(r) \/ RecordAudit(r)
<1>1. /\ pc \in [Request -> Step] /\ answer \in [Request -> Kind]
      /\ users \in [User -> Row \cup {NoUser}]
      /\ call[r] \in Call /\ call[r].user \in User /\ answer[r] = "pending"
  BY StepMoves DEF TypeOK, Call, Good, Moves
<1>g. ASSUME NEW s, Go(r, s) PROVE pc'[r] = s /\ answer'[r] = "pending"
  BY <1>1, <1>g DEF Go
<1>f. ASSUME NEW k, Finish(r, k) PROVE pc'[r] = "done" /\ answer'[r] = k
  BY <1>1, <1>f DEF Finish
<1>2. CASE Arrival(r)
  <2>1. Arrived(r)
    BY <1>2, ArrivalIs
  <2>2. call \in [Request -> Call]
    BY DEF TypeOK
  <2> QED
    BY <2>1, <2>2, <1>g, <1>f DEF Arrived, Looks, history
<1>3. CASE CreateUser(r) \/ LoadUser(r) \/ CountAdmins(r) \/ CallFails(r)
  <2>1. UNCHANGED <<users, trail>>
    BY <1>3 DEF CreateUser, LoadUser, CountAdmins, CallFails, history
  <2>2. pc'[r] # "audit" /\ answer'[r] # "ok"
    BY <1>3, <1>g, <1>f DEF CreateUser, LoadUser, CountAdmins, CallFails
  <2> QED
    BY <2>1, <2>2 DEF Looks
<1>4. CASE InsertUser(r)
  <2>1. CASE Exists(call[r].user)
    BY <1>4, <2>1, <1>f DEF InsertUser, Looks
  <2>2. CASE ~ Exists(call[r].user)
    BY <1>4, <2>2, <1>g, <1>f DEF InsertUser, Inserts
  <2> QED
    BY <2>1, <2>2
<1>5. CASE ReloadUser(r)
  <2>1. CASE Dirty(memory[r], users[call[r].user]) = {}
    <3> DEFINE u == call[r].user
    <3>1. memory[r] \in Row /\ users[u] \in Row
      BY <1>1, <1>5 DEF ReloadUser, Loaded, Good, Exists
    <3>2. Updated(users[u], memory[r], users[u]) = users[u]
      BY <2>1, <3>1, UpdatedAlone
    <3>3. pc[r] = "reload" /\ UNCHANGED <<users, trail>> /\ Saved(r)
      BY <1>5, <2>1 DEF ReloadUser
    <3>4. users' = [users EXCEPT ![u] = Updated(users[u], memory[r], users[u])]
      BY <1>1, <3>2, <3>3
    <3> QED
      BY <3>3, <3>4, <1>g, <1>f DEF Saves, Saved
  <2>2. CASE Dirty(memory[r], users[call[r].user]) # {}
    BY <1>5, <2>2, <1>g DEF ReloadUser, Looks, history
  <2> QED
    BY <2>1, <2>2
<1>6. CASE UpdateUser(r)
  BY <1>6, <1>g, <1>f DEF UpdateUser, Saves, Saved
<1> QED
  BY <1>2, <1>3, <1>4, <1>5, <1>6 DEF RequestStep, Handle

(* Who is in its section after a step of r, and how.                       *)
LEMMA StepEnters ==
  ASSUME TypeOK, NEW r \in Request, Good(r), RequestStep(r),
         pc'[r] \in {"count", "reload", "update"}
  PROVE  LET u == call[r].user IN
           /\ call' = call /\ users' = users /\ overtaken' = overtaken /\ Exists(u)
           /\ \/ /\ pc[r] = "load" /\ pc'[r] # "update"
                 /\ pc'[r] = "reload" => ~ RemovesActiveAdmin(r, users[u])
                 /\ memory'[r] = Assigned(r, users[u])
                 /\ overlapped' = (overlapped \/ InSection # {})
                 /\ untold' = IF Touching(u) # {} THEN untold \cup {u} ELSE untold
              \/ /\ memory' = memory /\ UNCHANGED <<overlapped, untold>>
                 /\ \/ /\ pc[r] = "count" /\ pc'[r] = "reload"
                       /\ ~ (Cardinality(ActiveAdmins) <= 1)
                    \/ pc[r] = "reload" /\ pc'[r] = "update" /\ reloaded'[r] = users[u]
<1>1. /\ pc \in [Request -> Step] /\ memory \in [Request -> Row \cup {NoUser}]
      /\ reloaded \in [Request -> Row \cup {NoUser}]
  BY DEF TypeOK
<1>g. ASSUME NEW s, Go(r, s) PROVE pc'[r] = s
  BY <1>1, <1>g DEF Go
<1>f. ASSUME NEW k, Finish(r, k) PROVE pc'[r] = "done"
  BY <1>1, <1>f DEF Finish
<1>2. LoadUser(r) \/ CountAdmins(r) \/ ReloadUser(r)
  <2>1. ~ Arrival(r)
    BY ArrivalIs, <1>g, <1>f DEF Arrived
  <2>2. ~ (CreateUser(r) \/ InsertUser(r) \/ UpdateUser(r) \/ RecordAudit(r) \/ CallFails(r))
    BY <1>g, <1>f DEF CreateUser, InsertUser, UpdateUser, Saved, RecordAudit, CallFails
  <2> QED
    BY <2>1, <2>2 DEF RequestStep, Handle
<1>3. CASE LoadUser(r)
  BY <1>1, <1>3, <1>g, <1>f DEF LoadUser
<1>4. CASE CountAdmins(r)
  BY <1>1, <1>4, <1>g, <1>f DEF CountAdmins, history, Good
<1>5. CASE ReloadUser(r)
  BY <1>1, <1>5, <1>g, <1>f DEF ReloadUser, Saved, history, Good
<1> QED
  BY <1>2, <1>3, <1>4, <1>5

(* Overlaps and gaps in the trail are remembered.                          *)
LEMMA StepRemembers ==
  ASSUME TypeOK, NEW r \in Request, RequestStep(r)
  PROVE  /\ overlapped => overlapped'
         /\ untold \subseteq untold' /\ untold' \subseteq untold \cup {call[r].user}
         /\ overlapped' \in BOOLEAN
         /\ pc[r] = "audit" => RecordAudit(r) \/ call[r].user \in untold'
<1>1. CASE Arrival(r)
  BY <1>1, ArrivalIs DEF Arrived, history, TypeOK
<1>2. CASE LoadUser(r)
  BY <1>2 DEF LoadUser, TypeOK
<1>3. CASE CallFails(r)
  BY <1>3 DEF CallFails, TypeOK
<1>4. CASE CreateUser(r) \/ InsertUser(r) \/ CountAdmins(r) \/ ReloadUser(r) \/ UpdateUser(r)
           \/ RecordAudit(r)
  BY <1>4 DEF CreateUser, InsertUser, CountAdmins, ReloadUser, UpdateUser, RecordAudit, Saved,
       history, TypeOK
<1> QED
  BY <1>1, <1>2, <1>3, <1>4 DEF RequestStep, Handle

(***************************************************************************)
(* Type correctness                                                        *)
(***************************************************************************)
LEMMA UsersTyped ==
  ASSUME TypeOK, NEW r \in Request, Good(r), Loaded(r), RequestStep(r)
  PROVE  /\ users' \in [User -> Row \cup {NoUser}] /\ trail' \in [User -> TrailRow]
         /\ \A u \in User : Exists(u) => Exists(u)'
<1>1. /\ call[r] \in Call /\ call[r].user \in User /\ call[r].role \in Role
      /\ call[r].isActive \in BOOLEAN /\ users \in [User -> Row \cup {NoUser}]
      /\ trail \in [User -> TrailRow]
  BY DEF TypeOK, Call, TrailRow
<1> DEFINE u == call[r].user
<1>2. CASE Looks(r)
  BY <1>1, <1>2 DEF Looks, Exists
<1>3. CASE Inserts(r)
  <2>1. NewUser(call[r].role) \in Row
    BY <1>1, NewUserIsRow
  <2> QED
    BY <1>1, <1>3, <2>1, RowAssumption DEF Inserts, Exists
<1>4. CASE Saves(r)
  <2>1. users[u] \in Row /\ memory[r] \in Row
    BY <1>1, <1>4 DEF Saves, Good, Loaded, Exists
  <2>2. users'[u] \in Row /\ \A v \in User \ {u} : users'[v] = users[v]
    BY <1>1, <1>4, <2>1, UpdatedIs DEF Saves
  <2>3. users' \in [User -> Row \cup {NoUser}]
    BY <1>1, <1>4, <2>1, UpdatedIs DEF Saves
  <2>4. trail' = trail
    BY <1>4 DEF Saves
  <2> QED
    BY <1>1, <2>2, <2>3, <2>4, RowAssumption DEF Exists
<1>5. CASE RecordAudit(r)
  <2>1. /\ users' = users
        /\ trail' \in {trail, [trail EXCEPT ![u].role = {call[r].role}],
                       [trail EXCEPT ![u].isActive = {call[r].isActive}]}
    BY <1>5 DEF RecordAudit, history
  <2>2. /\ [trail[u] EXCEPT !.role = {call[r].role}] \in TrailRow
        /\ [trail[u] EXCEPT !.isActive = {call[r].isActive}] \in TrailRow
    BY <1>1 DEF TrailRow
  <2> QED
    BY <1>1, <2>1, <2>2 DEF Exists
<1> QED
  BY <1>2, <1>3, <1>4, <1>5, StepActs

(***************************************************************************)
(* What always holds of a request                                          *)
(***************************************************************************)
LEMMA ActorGood ==
  ASSUME TypeOK, NEW r \in Request, Good(r), Loaded(r), RequestStep(r)
  PROVE  Good(r)'
<1>1. /\ pc \in [Request -> Step] /\ answer \in [Request -> Kind]
      /\ users \in [User -> Row \cup {NoUser}] /\ call \in [Request -> Call]
      /\ call[r].user \in User /\ answer[r] = "pending" /\ pc[r] # "done"
      /\ \A u \in User : Exists(u) => Exists(u)'
  <2>1. /\ pc \in [Request -> Step] /\ answer \in [Request -> Kind]
        /\ users \in [User -> Row \cup {NoUser}] /\ call \in [Request -> Call]
        /\ call[r].user \in User
    BY DEF TypeOK, Call
  <2>2. answer[r] = "pending" /\ pc[r] # "done"
    BY StepMoves DEF Moves, Good
  <2> QED
    BY <2>1, <2>2, UsersTyped
<1>g. ASSUME NEW s, Go(r, s) PROVE pc'[r] = s /\ answer'[r] = "pending"
  BY <1>1, <1>g DEF Go
<1>f. ASSUME NEW k, Finish(r, k) PROVE pc'[r] = "done" /\ answer'[r] = k
  BY <1>1, <1>f DEF Finish
<1>2. CASE Arrival(r)
  <2>1. PICK c \in Call :
          /\ call' = [call EXCEPT ![r] = c]
          /\ \/ c.op \in Registering /\ Go(r, "create")
             \/ c.op \in Saving \ {"register"} /\ Go(r, "load")
             \/ c.op = "bootstrap" /\ Finish(r, "ok")
             \/ \E k \in Kind \ {"pending", "ok"} : Finish(r, k)
    BY <1>2, ArrivalIs DEF Arrived
  <2>2. call'[r] = c
    BY <1>1, <2>1
  <2> QED
    BY <2>1, <2>2, <1>g, <1>f DEF Good, Registered, Saving
<1>3. CASE CreateUser(r)
  BY <1>3, <1>g, <1>f DEF CreateUser, Good, Registered
<1>4. CASE InsertUser(r)
  <2>1. call' = call /\ pc[r] = "insert" /\ call[r].op \in Registering
    BY <1>4 DEF InsertUser, Good
  <2>2. CASE Exists(call[r].user)
    BY <1>1, <1>4, <2>1, <2>2, <1>f DEF InsertUser, Good, Registered
  <2>3. CASE ~ Exists(call[r].user)
    <3>1. Exists(call[r].user)'
      <4>1. users' = [users EXCEPT ![call[r].user] = NewUser(call[r].role)] /\ call[r].role \in Role
        BY <1>1, <1>4, <2>3 DEF InsertUser, Call
      <4> QED
        BY <1>1, <2>1, <4>1, NewUserIsRow, RowAssumption DEF Exists
    <3>2. (call[r].op = "register" /\ Go(r, "load")) \/ Finish(r, "ok")
      BY <1>4, <2>3 DEF InsertUser
    <3> QED
      BY <2>1, <3>1, <3>2, <1>g, <1>f DEF Good, Registered, Saving, AllOperations
  <2> QED
    BY <2>2, <2>3
<1>5. CASE LoadUser(r) \/ CountAdmins(r) \/ ReloadUser(r) \/ UpdateUser(r) \/ RecordAudit(r)
  <2>1. /\ call' = call /\ pc[r] \in {"load", "count", "reload", "update", "audit"}
        /\ pc[r] = "load" /\ ~ Exists(call[r].user) => Finish(r, "notFound")
    BY <1>5 DEF LoadUser, CountAdmins, ReloadUser, UpdateUser, RecordAudit
  <2>2. \/ pc'[r] \in {"count", "reload", "update", "audit"} /\ answer'[r] = "pending"
        \/ pc'[r] = "done"
    BY <1>5, <1>g, <1>f DEF LoadUser, CountAdmins, ReloadUser, UpdateUser, RecordAudit, Saved
  <2>3. CASE Exists(call[r].user)
    <3>1. Exists(call[r].user)'
      BY <1>1, <2>1, <2>3 DEF Exists
    <3> QED
      BY <2>1, <2>2, <3>1 DEF Good, Registered
  <2>4. CASE ~ Exists(call[r].user)
    <3>1. pc'[r] = "done" /\ answer'[r] = "notFound"
      BY <2>1, <2>4, <1>f DEF Good
    <3> QED
      BY <3>1 DEF Good, Registered
  <2> QED
    BY <2>3, <2>4
<1>6. CASE CallFails(r)
  BY <1>6, <1>f DEF CallFails, Good, Registered
<1> QED
  BY <1>2, <1>3, <1>4, <1>5, <1>6 DEF RequestStep, Handle

LEMMA OthersGood ==
  ASSUME TypeOK, NEW r \in Request, Good(r), Loaded(r), RequestStep(r),
         NEW o \in Request \ {r}, Good(o)
  PROVE  Good(o)'
<1>1. pc'[o] = pc[o] /\ answer'[o] = answer[o]
  BY StepMoves DEF Moves, TypeOK
<1>2. call'[o] = call[o]
  BY StepKeeps DEF Keeps
<1>3. Exists(call[o].user) => Exists(call[o].user)'
  BY <1>2, UsersTyped DEF TypeOK, Call, Exists
<1> QED
  BY <1>1, <1>2, <1>3 DEF Good, Registered

(***************************************************************************)
(* What a section has read                                                 *)
(***************************************************************************)
LEMMA LoadedKept ==
  ASSUME TypeOK, NEW r \in Request, Good(r), Loaded(r), RequestStep(r),
         NEW o \in Request, Loaded(o)
  PROVE  Loaded(o)'
<1>1. CASE o # r
  <2>1. pc'[o] = pc[o]
    BY <1>1, StepMoves DEF Moves, TypeOK
  <2>2. memory'[o] = memory[o] /\ reloaded'[o] = reloaded[o]
    BY <1>1, StepKeeps DEF Keeps
  <2> QED
    BY <2>1, <2>2 DEF Loaded
<1>2. CASE o = r
  <2> SUFFICES ASSUME pc'[r] \in {"count", "reload", "update"} PROVE Loaded(r)'
    BY <1>2 DEF Loaded
  <2> DEFINE u == call[r].user
  <2>1. u \in User /\ call[r] \in Call /\ Exists(u) /\ users[u] \in Row
    BY StepEnters DEF TypeOK, Call, Exists
  <2>2. CASE memory' = memory /\ pc[r] \in {"count", "reload"}
    BY <2>1, <2>2, StepEnters DEF Loaded
  <2>3. CASE pc[r] = "load" /\ memory'[r] = Assigned(r, users[u]) /\ pc'[r] # "update"
    BY <2>1, <2>3, AssignedIs DEF Loaded, Good
  <2> QED
    BY <2>2, <2>3, StepEnters
<1> QED
  BY <1>1, <1>2

(* What a step does to what is meant, overtaken and stale.                 *)
LEMMA StepMeans ==
  ASSUME TypeOK, NEW r \in Request, RequestStep(r)
  PROVE  \/ UNCHANGED <<users, meant, overtaken, stale>>
         \/ /\ Inserts(r) /\ meant' = [meant EXCEPT ![call[r].user] = NewUser(call[r].role)]
            /\ UNCHANGED <<overtaken, stale>>
         \/ ReloadUser(r)
         \/ UpdateUser(r)
<1>1. CASE Arrival(r)
  BY <1>1, ArrivalIs DEF Arrived, history
<1>2. CASE CreateUser(r) \/ LoadUser(r) \/ CountAdmins(r) \/ RecordAudit(r) \/ CallFails(r)
  BY <1>2 DEF CreateUser, LoadUser, CountAdmins, RecordAudit, CallFails, history
<1>3. CASE InsertUser(r)
  BY <1>3 DEF InsertUser, Inserts, Go, Finish, TypeOK
<1> QED
  BY <1>1, <1>2, <1>3 DEF RequestStep, Handle

LEMMA AssignsColumns ==
  ASSUME NEW r \in Request, call[r].op \in Saving
  PROVE  Assigns(r) \subseteq Column
  BY DEF Assigns, Column, Saving, AllOperations, Issuing

(* What another UPDATE leaves of the columns that a section has seen.      *)
LEMMA OthersSeen ==
  ASSUME TypeOK, NEW r \in Request, Good(r), Loaded(r), RequestStep(r),
         NEW o \in Request \ {r}, Good(o), Seen(o)
  PROVE  Seen(o)'
<1>1. /\ pc'[o] = pc[o] /\ call'[o] = call[o] /\ memory'[o] = memory[o]
      /\ reloaded'[o] = reloaded[o]
  BY StepMoves, StepKeeps DEF Moves, Keeps, TypeOK
<1>2. Assigns(o)' = Assigns(o)
  BY <1>1 DEF Assigns
<1>3. /\ call[o].user \in User /\ call[r].user \in User /\ users \in [User -> Row \cup {NoUser}]
      /\ overtaken \in [Request -> SUBSET Column]
  BY DEF TypeOK, Call
<1>4. CASE UNCHANGED <<users, overtaken>>
  BY <1>1, <1>2, <1>4 DEF Seen
<1>5. CASE Inserts(r) /\ overtaken' = overtaken
  <2>1. pc[o] \in {"count", "reload"} => users'[call[o].user] = users[call[o].user]
    BY <1>3, <1>5 DEF Inserts, Good
  <2> QED
    BY <1>1, <1>2, <1>5, <2>1 DEF Seen
<1>6. CASE UpdateUser(r)
  <2> DEFINE u == call[r].user
             written == Dirty(memory[r], reloaded[r])
  <2>1. overtaken[o] \subseteq overtaken'[o]
    BY <1>3, <1>6 DEF UpdateUser, Overtakes
  <2>2. CASE call[o].user = u /\ pc[o] \in {"count", "reload"}
    <3>1. overtaken'[o] = overtaken[o] \cup written
      BY <1>3, <1>6, <2>2 DEF UpdateUser, Overtakes
    <3>2. users[u] \in Row /\ memory[r] \in Row
      BY <1>3, <1>6 DEF UpdateUser, Good, Loaded, Exists
    <3>3. users'[u] = Updated(users[u], memory[r], reloaded[r])
      BY <1>3, <1>6 DEF UpdateUser
    <3>4. \A c \in Column : c \notin written => users'[u][c] = users[u][c]
      BY <3>2, <3>3, UpdatedIs
    <3> HIDE DEF written
    <3> QED
      BY <1>1, <1>2, <2>2, <3>1, <3>4 DEF Seen
  <2>3. CASE ~ (call[o].user = u /\ pc[o] \in {"count", "reload"})
    <3>1. pc[o] \in {"count", "reload"} => users'[call[o].user] = users[call[o].user]
      BY <1>3, <1>6, <2>3 DEF UpdateUser
    <3> QED
      BY <1>1, <1>2, <2>1, <3>1 DEF Seen
  <2> QED
    BY <2>2, <2>3
<1>7. CASE ReloadUser(r)
  BY <1>4, <1>7 DEF ReloadUser
<1> QED
  BY <1>4, <1>5, <1>6, <1>7, StepMeans

LEMMA SeenKept ==
  ASSUME TypeOK, NEW r \in Request, Good(r), Loaded(r), RequestStep(r),
         NEW o \in Request, Good(o), Seen(o)
  PROVE  Seen(o)'
<1>1. CASE o = r
  <2> SUFFICES ASSUME pc'[r] \in {"count", "reload", "update"} PROVE Seen(r)'
    BY <1>1 DEF Seen
  <2> DEFINE u == call[r].user
  <2>1. /\ call' = call /\ users' = users /\ overtaken' = overtaken /\ Exists(u)
        /\ u \in User /\ call[r] \in Call /\ users[u] \in Row
    BY StepEnters DEF TypeOK, Call, Exists
  <2>2. Assigns(r)' = Assigns(r)
    BY <2>1 DEF Assigns
  <2>3. CASE pc[r] = "load" /\ memory'[r] = Assigned(r, users[u]) /\ pc'[r] # "update"
    <3>1. \A c \in Column \ Assigns(r) : memory'[r][c] = users[u][c]
      BY <2>1, <2>3, AssignedIs DEF Good
    <3> QED
      BY <2>1, <2>2, <2>3, <3>1 DEF Seen
  <2>4. CASE memory' = memory /\ pc[r] = "count" /\ pc'[r] = "reload"
    BY <1>1, <2>1, <2>2, <2>4 DEF Seen
  <2>5. CASE memory' = memory /\ pc[r] = "reload" /\ pc'[r] = "update" /\ reloaded'[r] = users[u]
    BY <1>1, <2>1, <2>2, <2>5 DEF Seen
  <2> QED
    BY <2>3, <2>4, <2>5, StepEnters
<1> QED
  BY <1>1, OthersSeen

(***************************************************************************)
(* Changes that stick                                                      *)
(***************************************************************************)
LEMMA MeaningKept ==
  ASSUME TypeOK, NEW r \in Request, Good(r), Loaded(r), Seen(r), RequestStep(r),
         NEW v \in User, Meaning(v)
  PROVE  /\ Meaning(v)' /\ meant'[v] \in Row \cup {NoUser} /\ stale'[v] \in SUBSET Column
         /\ meant' = [w \in User |-> meant'[w]] /\ stale' = [w \in User |-> stale'[w]]
<1> DEFINE u == call[r].user
<1>1. /\ call[r] \in Call /\ u \in User /\ call[r].role \in Role
      /\ users \in [User -> Row \cup {NoUser}] /\ meant \in [User -> Row \cup {NoUser}]
      /\ stale \in [User -> SUBSET Column] /\ overtaken \in [Request -> SUBSET Column]
      /\ users' \in [User -> Row \cup {NoUser}]
  BY UsersTyped DEF TypeOK, Call
<1>2. CASE UNCHANGED <<users, meant, stale>>
  BY <1>1, <1>2 DEF Meaning, Exists
<1>3. CASE Inserts(r) /\ meant' = [meant EXCEPT ![u] = NewUser(call[r].role)] /\ stale' = stale
  <2>1. NewUser(call[r].role) \in Row
    BY <1>1, NewUserIsRow
  <2>2. CASE v = u
    <3>1. users'[v] = meant'[v] /\ meant'[v] \in Row
      BY <1>1, <1>3, <2>1, <2>2 DEF Inserts
    <3> QED
      BY <1>1, <1>3, <3>1, RowAssumption DEF Meaning, Exists
  <2>3. CASE v # u
    BY <1>1, <1>3, <2>3 DEF Inserts, Meaning, Exists
  <2> QED
    BY <2>2, <2>3
<1>4. CASE (ReloadUser(r) \/ UpdateUser(r)) /\ v # u
  BY <1>1, <1>4 DEF ReloadUser, UpdateUser, Overtakes, Means, Meaning, Exists
<1>5. CASE ReloadUser(r) /\ v = u
  <2> DEFINE set == Assigns(r) \ Dirty(memory[r], users[u])
  <2>1. users[u] \in Row /\ memory[r] \in Row /\ meant[u] \in Row
    BY <1>1, <1>5 DEF ReloadUser, Good, Loaded, Exists, Meaning
  <2>2. /\ users' = users /\ meant' = [meant EXCEPT ![u] = With(meant[u], memory[r], set)]
        /\ stale' = [stale EXCEPT ![u] = stale[u] \ set]
    BY <1>1, <1>5 DEF ReloadUser, Means
  <2>3. \A c \in Column : c \in set => memory[r][c] = users[u][c]
    BY <2>1, UpdatedIs
  <2> HIDE DEF set
  <2>4. /\ With(meant[u], memory[r], set) \in Row
        /\ \A c \in Column :
             With(meant[u], memory[r], set)[c] = IF c \in set THEN memory[r][c] ELSE meant[u][c]
    BY <2>1, WithIs
  <2>5. /\ meant'[u] \in Row /\ stale'[u] = stale[u] \ set
        /\ \A c \in Column : meant'[u][c] = IF c \in set THEN memory[r][c] ELSE meant[u][c]
    BY <1>1, <2>2, <2>4
  <2>6. \A c \in Column \ stale'[u] : users'[u][c] = meant'[u][c]
    BY <1>5, <2>1, <2>2, <2>3, <2>5, RowAssumption DEF Meaning, Exists
  <2> QED
    BY <1>1, <1>5, <2>1, <2>2, <2>5, <2>6, RowAssumption DEF Meaning, Exists
<1>6. CASE UpdateUser(r) /\ v = u
  <2> DEFINE written == Dirty(memory[r], reloaded[r])
             set == Assigns(r) \cap written
  <2>1. /\ users[u] \in Row /\ memory[r] \in Row /\ meant[u] \in Row /\ pc[r] = "update"
        /\ call[r].op \in Saving
    BY <1>1, <1>6 DEF UpdateUser, Good, Loaded, Exists, Meaning
  <2>2. /\ meant' = [meant EXCEPT ![u] = With(meant[u], memory[r], set)]
        /\ users'[u] = Updated(users[u], memory[r], reloaded[r])
        /\ stale' = [stale EXCEPT ![u] = (stale[u] \ set) \cup (overtaken[r] \ Assigns(r))]
    BY <1>1, <1>6 DEF UpdateUser, Overtakes, Means
  <2>3. /\ users'[u] \in Row
        /\ \A c \in Column : users'[u][c] = IF c \in written THEN memory[r][c] ELSE users[u][c]
        /\ written = {c \in Column : memory[r][c] # reloaded[r][c]}
    BY <2>1, <2>2, UpdatedIs
  <2> HIDE DEF written
  <2>4. /\ With(meant[u], memory[r], set) \in Row
        /\ \A c \in Column :
             With(meant[u], memory[r], set)[c] = IF c \in set THEN memory[r][c] ELSE meant[u][c]
    BY <2>1, WithIs
  <2>5. /\ meant'[u] \in Row
        /\ \A c \in Column : meant'[u][c] = IF c \in set THEN memory[r][c] ELSE meant[u][c]
        /\ stale'[u] = (stale[u] \ set) \cup (overtaken[r] \ Assigns(r))
    BY <1>1, <2>2, <2>4
  <2>6. ASSUME NEW c \in Column \ stale'[u] PROVE users'[u][c] = meant'[u][c]
    <3>1. CASE c \in set
      BY <2>3, <2>5, <3>1
    <3>2. CASE c \notin set
      <4>1. c \notin stale[u] /\ (c \in overtaken[r] => c \in Assigns(r))
        BY <2>5, <2>6, <3>2
      <4>2. c \notin written
        BY <2>1, <2>3, <3>2, <4>1 DEF Seen
      <4>3. users[u][c] = meant[u][c]
        BY <1>6, <2>1, <4>1, RowAssumption DEF Meaning, Exists
      <4> QED
        BY <2>3, <2>5, <3>2, <4>2, <4>3
    <3> QED
      BY <3>1, <3>2
  <2>7. stale'[u] \in SUBSET Column
    BY <1>1, <2>5
  <2> QED
    BY <1>1, <1>6, <2>2, <2>3, <2>5, <2>6, <2>7, RowAssumption DEF Meaning, Exists
<1> QED
  BY <1>2, <1>3, <1>4, <1>5, <1>6, StepMeans

LEMMA HistoryTyped ==
  ASSUME TypeOK, NEW r \in Request, Good(r), Loaded(r), Seen(r), RequestStep(r),
         \A v \in User : Meaning(v)
  PROVE  /\ meant' \in [User -> Row \cup {NoUser}] /\ stale' \in [User -> SUBSET Column]
         /\ overtaken' \in [Request -> SUBSET Column] /\ barred' \subseteq User
<1>1. call[r] \in Call /\ call[r].user \in User
  BY DEF TypeOK, Call
<1>2. meant' \in [User -> Row \cup {NoUser}] /\ stale' \in [User -> SUBSET Column]
  <2>1. \A v \in User : meant'[v] \in Row \cup {NoUser} /\ stale'[v] \in SUBSET Column
    BY MeaningKept
  <2>2. meant' = [w \in User |-> meant'[w]] /\ stale' = [w \in User |-> stale'[w]]
    BY <1>1, MeaningKept
  <2> QED
    BY <2>1, <2>2
<1>3. overtaken' \in [Request -> SUBSET Column]
  <2>1. CASE UpdateUser(r)
    <3>1. memory[r] \in Row
      BY <2>1 DEF UpdateUser, Loaded
    <3>2. Dirty(memory[r], reloaded[r]) \subseteq Column
      BY <3>1, UpdatedIs
    <3> QED
      BY <2>1, <3>2 DEF UpdateUser, Overtakes, TypeOK
  <2>2. CASE overtaken' = overtaken
    BY <2>2 DEF TypeOK
  <2> QED
    BY <2>1, <2>2, StepMeans DEF ReloadUser
<1>4. barred' \subseteq User
  <2>1. CASE Saved(r)
    BY <1>1, <2>1 DEF Saved, TypeOK
  <2>2. CASE barred' = barred
    BY <2>2 DEF TypeOK
  <2>3. CASE Arrival(r)
    BY <2>2, <2>3, ArrivalIs DEF Arrived, history
  <2>4. CASE Handle(r) \/ CallFails(r)
    BY <2>1, <2>2, <2>4 DEF Handle, CreateUser, InsertUser, LoadUser, CountAdmins, ReloadUser,
       UpdateUser, RecordAudit, CallFails, history
  <2> QED
    BY <2>3, <2>4 DEF RequestStep
<1> QED
  BY <1>2, <1>3, <1>4

LEMMA TypesKept ==
  ASSUME IInv, [Next]_vars
  PROVE  TypeOK'
<1>0. TypeOK /\ (\A r \in Request : Good(r) /\ Loaded(r) /\ Seen(r)) /\ (\A v \in User : Meaning(v))
  BY DEF IInv
<1>1. ASSUME NEW r \in Request, RequestStep(r) PROVE TypeOK'
  <2>1. /\ users' \in [User -> Row \cup {NoUser}] /\ trail' \in [User -> TrailRow]
        /\ meant' \in [User -> Row \cup {NoUser}] /\ stale' \in [User -> SUBSET Column]
        /\ overtaken' \in [Request -> SUBSET Column] /\ barred' \subseteq User
    BY <1>0, <1>1, UsersTyped, HistoryTyped
  <2>2. pc' \in [Request -> Step] /\ answer' \in [Request -> Kind]
    <3>1. Moves(r) /\ pc \in [Request -> Step] /\ answer \in [Request -> Kind]
      BY <1>0, <1>1, StepMoves DEF TypeOK
    <3>2. pc' \in [Request -> Step]
      BY <3>1 DEF Moves
    <3>3. answer' \in [Request -> Kind]
      <4> HIDE DEF Kind
      <4> QED
        BY <3>1 DEF Moves
    <3> QED
      BY <3>2, <3>3
  <2>3. Keeps(r) /\ untold' \subseteq User /\ overlapped' \in BOOLEAN
    BY <1>0, <1>1, StepKeeps, StepRemembers DEF TypeOK, Call
  <2> QED
    BY <2>1, <2>2, <2>3 DEF Keeps, TypeOK, TrailRow
<1>2. ASSUME Crash PROVE TypeOK'
  BY <1>0, <1>2 DEF Crash, TypeOK
<1>3. ASSUME UNCHANGED vars PROVE TypeOK'
  BY <1>0, <1>3 DEF TypeOK, vars, history
<1> QED
  BY <1>1, <1>2, <1>3 DEF Next, RequestStep

(***************************************************************************)
(* Sections that are alone                                                 *)
(***************************************************************************)
LEMMA AloneKept ==
  ASSUME TypeOK, Alone, NEW r \in Request, Good(r), Loaded(r), RequestStep(r)
  PROVE  Alone'
<1>1. /\ \A o \in Request \ {r} : pc'[o] = pc[o] /\ call'[o] = call[o]
      /\ overlapped => overlapped'
      /\ untold \subseteq untold'
  BY StepMoves, StepKeeps, StepRemembers DEF Moves, Keeps, TypeOK
<1>2. InSection' \ {r} = InSection \ {r} /\ \A u : Touching(u)' \ {r} = Touching(u) \ {r}
  BY <1>1 DEF InSection, Touching
<1>3. r \in InSection' => r \in InSection \/ (overlapped' = (overlapped \/ InSection # {}))
  BY StepEnters DEF InSection
<1>4. \A u \in User : r \in Touching(u)' =>
        \/ r \in Touching(u)
        \/ u = call[r].user /\ untold' = IF Touching(u) # {} THEN untold \cup {u} ELSE untold
  <2> SUFFICES ASSUME NEW u \in User, r \in Touching(u)'
               PROVE  \/ r \in Touching(u)
                      \/ u = call[r].user
                           /\ untold' = IF Touching(u) # {} THEN untold \cup {u} ELSE untold
    OBVIOUS
  <2>1. CASE pc'[r] \in {"count", "reload", "update"}
    BY <2>1, StepEnters DEF Touching, InSection
  <2>2. CASE pc'[r] = "audit"
    <3>1. Saves(r)
      BY <2>2, StepActs DEF Looks, Inserts, RecordAudit, Finish, TypeOK
    <3> QED
      BY <3>1, StepKeeps DEF Saves, Keeps, Touching, InSection
  <2> QED
    BY <2>1, <2>2 DEF Touching, InSection
<1>5. ASSUME ~ overlapped', NEW a \in InSection', NEW b \in InSection' PROVE a = b
  <2>1. \A c, d \in InSection : c = d
    BY <1>1, <1>5 DEF Alone
  <2>2. CASE r \in InSection' /\ r \notin InSection
    <3>1. InSection = {}
      BY <1>3, <1>5, <2>2 DEF TypeOK
    <3> QED
      BY <1>2, <3>1
  <2>3. CASE r \in InSection' => r \in InSection
    BY <1>2, <2>1, <2>3
  <2> QED
    BY <2>2, <2>3
<1>6. ASSUME NEW u \in User, u \notin untold', NEW a \in Touching(u)', NEW b \in Touching(u)'
      PROVE  a = b
  BY <1>1, <1>2, <1>4, <1>6 DEF Alone
<1> QED
  BY <1>5, <1>6 DEF Alone

(* A section that is alone stays exact.                                    *)
LEMMA ExactKept ==
  ASSUME TypeOK, Alone, NEW r \in Request, Good(r), Loaded(r), RequestStep(r),
         NEW o \in Request, Good(o), Exact(o)
  PROVE  Exact(o)'
<1>1. CASE o # r
  <2>1. /\ pc'[o] = pc[o] /\ call'[o] = call[o] /\ memory'[o] = memory[o]
        /\ reloaded'[o] = reloaded[o]
    BY <1>1, StepMoves, StepKeeps DEF Moves, Keeps, TypeOK
  <2> SUFFICES ASSUME pc[o] \in {"count", "reload", "update"},
                      call[o].user \notin untold' \/ ~ overlapped'
               PROVE  Exact(o)'
    BY <2>1 DEF Exact
  <2>2. call[o].user \notin untold \/ ~ overlapped
    BY StepRemembers
  <2>3. users'[call[o].user] = users[call[o].user]
    <3>1. call[o].user \in User /\ call[r].user \in User /\ users \in [User -> Row \cup {NoUser}]
      BY DEF TypeOK, Call
    <3>2. CASE Inserts(r)
      BY <3>1, <3>2 DEF Inserts, Good
    <3>3. CASE Saves(r)
      <4>1. o \in InSection /\ r \in InSection
        BY <3>3 DEF Saves, InSection
      <4>2. call[o].user # call[r].user
        BY <1>1, <2>2, <3>1, <4>1 DEF Alone, Touching
      <4> QED
        BY <3>1, <3>3, <4>2 DEF Saves
    <3> QED
      BY <3>2, <3>3, StepActs DEF Looks, RecordAudit
  <2>4. Assigned(o, users[call[o].user])' = Assigned(o, users[call[o].user])
    BY <2>1, <2>3 DEF Assigned
  <2> QED
    BY <2>1, <2>2, <2>3, <2>4 DEF Exact
<1>2. CASE o = r
  <2> SUFFICES ASSUME pc'[r] \in {"count", "reload", "update"},
                      call'[r].user \notin untold' \/ ~ overlapped'
               PROVE  Exact(r)'
    BY <1>2 DEF Exact
  <2> DEFINE u == call[r].user
  <2>1. call' = call /\ users' = users
    BY StepEnters
  <2>2. Assigned(r, users[u])' = Assigned(r, users[u])
    BY <2>1 DEF Assigned
  <2>3. CASE pc[r] = "load"
    BY <2>1, <2>2, <2>3, StepEnters DEF Exact
  <2>4. CASE pc[r] # "load"
    <3>1. memory' = memory /\ pc[r] \in {"count", "reload"}
          /\ UNCHANGED <<overlapped, untold>>
          /\ (pc'[r] = "update" => reloaded'[r] = users[u])
      BY <2>4, StepEnters
    <3> QED
      BY <1>2, <2>1, <2>2, <3>1 DEF Exact
  <2> QED
    BY <2>3, <2>4
<1> QED
  BY <1>1, <1>2

(* What the save of a section that is alone leaves in the row.             *)
LEMMA ExactSave ==
  ASSUME TypeOK, NEW r \in Request, Good(r), Exact(r), Saves(r),
         call[r].user \notin untold \/ ~ overlapped
  PROVE  LET u == call[r].user IN
           users[u] \in Row /\ users' = [users EXCEPT ![u] = Assigned(r, users[u])]
<1> DEFINE u == call[r].user
<1>1. /\ call[r] \in Call /\ u \in User /\ users \in [User -> Row \cup {NoUser}]
      /\ call[r].op \in Saving /\ Exists(u)
  BY DEF TypeOK, Call, Good, Saves
<1>2. users[u] \in Row /\ Assigned(r, users[u]) \in Row
  BY <1>1, AssignedIs DEF Exists
<1>3. memory[r] = Assigned(r, users[u]) /\ (pc[r] = "update" => reloaded[r] = users[u])
  BY DEF Exact, Saves
<1>4. Updated(users[u], memory[r], users[u]) = Assigned(r, users[u])
  BY <1>2, <1>3, UpdatedAlone
<1> QED
  BY <1>1, <1>2, <1>3, <1>4 DEF Saves

(***************************************************************************)
(* Registrations                                                           *)
(***************************************************************************)
LEMMA OneRegisteredKept ==
  ASSUME TypeOK, OneRegistered, \A o \in Request : Good(o), NEW r \in Request, Loaded(r),
         RequestStep(r)
  PROVE  OneRegistered'
<1>1. \A o \in Request \ {r} : (Registered(o)' <=> Registered(o)) /\ call'[o] = call[o]
  <2>1. \A o \in Request \ {r} : pc'[o] = pc[o] /\ answer'[o] = answer[o]
    BY StepMoves DEF Moves, TypeOK
  <2>2. \A o \in Request \ {r} : call'[o] = call[o]
    BY StepKeeps DEF Keeps
  <2> QED
    BY <2>1, <2>2 DEF Registered
<1>2. ASSUME Registered(r)'
      PROVE  call' = call /\ (Registered(r) \/ ~ Exists(call[r].user))
  <2>1. answer[r] = "pending" /\ pc[r] # "done"
    BY StepMoves DEF Moves, Good
  <2>2. CASE pc[r] \notin {"idle", "create", "insert"}
    BY <1>2, <2>1, <2>2, StepKeeps DEF Keeps, Registered
  <2>3. CASE pc[r] = "insert"
    <3>1. pc'[r] # "done" \/ answer'[r] = "ok"
      BY <1>2, StepMoves DEF Moves, Registered, TypeOK
    <3>2. InsertUser(r)
      <4>1. ~ CallFails(r)
        BY <3>1 DEF CallFails, Finish, TypeOK
      <4> QED
        BY <2>3, <4>1, ArrivalIs DEF RequestStep, Handle, Arrived, CreateUser, LoadUser, CountAdmins,
             ReloadUser, UpdateUser, RecordAudit
    <3>3. ~ Exists(call[r].user)
      BY <3>1, <3>2 DEF InsertUser, Finish, TypeOK
    <3> QED
      BY <3>2, <3>3 DEF InsertUser
  <2>4. pc[r] # "create"
    <3> SUFFICES ASSUME pc[r] = "create" PROVE FALSE
      OBVIOUS
    <3>1. CreateUser(r) \/ CallFails(r)
      BY ArrivalIs DEF RequestStep, Handle, Arrived, InsertUser, LoadUser, CountAdmins, ReloadUser,
         UpdateUser, RecordAudit
    <3> QED
      BY <1>2, <3>1 DEF CreateUser, CallFails, Go, Finish, Registered, TypeOK
  <2>5. pc[r] # "idle"
    <3> SUFFICES ASSUME pc[r] = "idle" PROVE FALSE
      OBVIOUS
    <3>1. Arrived(r)
      BY ArrivalIs DEF RequestStep, Handle, CreateUser, InsertUser, LoadUser, CountAdmins, ReloadUser,
         UpdateUser, RecordAudit, CallFails
    <3>2. PICK c \in Call :
            /\ call' = [call EXCEPT ![r] = c]
            /\ \/ c.op \in Registering /\ Go(r, "create")
               \/ c.op \in Saving \ {"register"} /\ Go(r, "load")
               \/ c.op = "bootstrap" /\ Finish(r, "ok")
               \/ \E k \in Kind \ {"pending", "ok"} : Finish(r, k)
      BY <3>1 DEF Arrived
    <3>3. /\ call'[r] = c
          /\ (pc'[r] = "create") \/ c.op \notin {"register", "registerAdmin"}
             \/ answer'[r] \notin {"pending", "ok"}
      BY <3>2 DEF Go, Finish, Saving, AllOperations, TypeOK
    <3> QED
      BY <1>2, <3>3 DEF Registered
  <2> QED
    BY <2>2, <2>3, <2>4, <2>5
<1>3. ASSUME NEW o \in Request \ {r}, Registered(o), Registered(r)', call[o].user = call'[r].user
      PROVE  FALSE
  <2>1. Exists(call[o].user)
    BY <1>3 DEF Good
  <2> QED
    BY <1>2, <1>3, <2>1 DEF OneRegistered
<1> QED
  BY <1>1, <1>3 DEF OneRegistered

(***************************************************************************)
(* The audit trail                                                         *)
(***************************************************************************)
(* A step of r records nothing about others and has others record nothing. *)
LEMMA RecordingKept ==
  ASSUME TypeOK, NEW r \in Request, Good(r), Loaded(r), RequestStep(r), NEW o \in Request,
         NEW v \in User, NEW op
  PROVE  /\ o # r => (Recording(o, v, op)' <=> Recording(o, v, op)) /\ call'[o] = call[o]
         /\ Recording(r, v, op)' =>
              Saves(r) /\ call' = call /\ call[r].user = v /\ call[r].op = op
<1>1. o # r => pc'[o] = pc[o] /\ call'[o] = call[o]
  BY StepMoves, StepKeeps DEF Moves, Keeps, TypeOK
<1>2. pc'[r] = "audit" => Saves(r) /\ call' = call
  <2>1. pc'[r] = "audit" => Saves(r)
    BY StepActs DEF Looks, Inserts, RecordAudit, Finish, TypeOK
  <2>2. Saves(r) => call' = call
    BY StepKeeps DEF Saves, Keeps
  <2> QED
    BY <2>1, <2>2
<1> QED
  BY <1>1, <1>2 DEF Recording

(* Steps that change neither the row nor the trail of v.                   *)
LEMMA ToldUnchanged ==
  ASSUME TypeOK, NEW r \in Request, Good(r), Loaded(r), RequestStep(r), NEW v \in User, Told(v),
         users'[v] = users[v], trail'[v] = trail[v],
         \A op : ~ Recording(r, v, op)',
         v \notin untold' => \A op : ~ Recording(r, v, op)
  PROVE  Told(v)'
<1>1. untold \subseteq untold'
  BY StepRemembers
<1>2. v \notin untold' =>
        \A o \in Request : \A op :
          (Recording(o, v, op)' <=> Recording(o, v, op))
            /\ (Recording(o, v, op) => call'[o] = call[o])
  <2> SUFFICES ASSUME v \notin untold', NEW o \in Request, NEW op
               PROVE  (Recording(o, v, op)' <=> Recording(o, v, op))
                        /\ (Recording(o, v, op) => call'[o] = call[o])
    OBVIOUS
  <2>1. CASE o = r
    BY <2>1
  <2>2. CASE o # r
    BY <2>2, RecordingKept
  <2> QED
    BY <2>1, <2>2
<1> QED
  BY <1>1, <1>2 DEF Told, Exists

LEMMA ToldKept ==
  ASSUME TypeOK, Alone, \A o \in Request : Good(o), NEW r \in Request, Loaded(r), Exact(r),
         RequestStep(r), NEW v \in User, Told(v)
  PROVE  Told(v)'
<1> DEFINE u == call[r].user
<1>1. /\ call[r] \in Call /\ u \in User /\ call[r].role \in Role /\ call[r].isActive \in BOOLEAN
      /\ users \in [User -> Row \cup {NoUser}] /\ trail \in [User -> TrailRow]
      /\ untold \subseteq untold'
  BY StepRemembers DEF TypeOK, Call, TrailRow
<1>2. pc[r] = "audit" => Exists(u)
  BY DEF Good
<1>3. CASE v # u
  <2>1. users'[v] = users[v] /\ trail'[v] = trail[v]
    BY <1>1, <1>3, StepActs DEF Looks, Inserts, Saves, RecordAudit
  <2>2. \A op : ~ Recording(r, v, op)' /\ ~ Recording(r, v, op)
    BY <1>3, RecordingKept DEF Recording
  <2> QED
    BY <2>1, <2>2, ToldUnchanged
<1>4. CASE Looks(r) /\ v = u
  <2>1. \A op : ~ Recording(r, v, op)'
    BY <1>4 DEF Looks, Recording
  <2>2. ASSUME v \notin untold', NEW op, Recording(r, v, op) PROVE FALSE
    <3>1. RecordAudit(r)
      BY <1>4, <2>2, StepRemembers DEF Recording
    <3>2. answer'[r] = "ok" /\ pc'[r] = "done" /\ call' = call
      BY <3>1 DEF RecordAudit, Finish, TypeOK
    <3>3. call[r].op # "bootstrap"
      BY <2>2 DEF Recording, Good, Saving
    <3> QED
      BY <1>4, <3>2, <3>3 DEF Looks
  <2> QED
    BY <1>4, <2>1, <2>2, ToldUnchanged DEF Looks
<1>5. CASE Inserts(r) /\ v = u
  <2>1. /\ trail'[u].role = {} /\ trail'[u].isActive = {} /\ users'[u] = NewUser(call[r].role)
    BY <1>1, <1>5 DEF Inserts, Told
  <2>2. Exists(u)'
    <3>1. users'[u] # NoUser
      BY <1>1, <2>1, NewUserIsRow, RowAssumption
    <3> QED
      BY <1>5, <3>1, StepKeeps DEF Inserts, Keeps, Exists
  <2>3. \A o \in Request : \A op : ~ Recording(o, u, op)'
    <3> SUFFICES ASSUME NEW o \in Request, NEW op PROVE ~ Recording(o, u, op)'
      OBVIOUS
    <3>1. CASE o = r
      BY <1>5, <3>1 DEF Inserts, Recording
    <3>2. CASE o # r
      <4>1. ~ Recording(o, u, op)
        BY <1>5 DEF Inserts, Recording, Good
      <4>2. call' = call
        BY <1>5, StepKeeps DEF Inserts, Keeps
      <4> QED
        BY <3>2, <4>1, <4>2, StepMoves DEF Recording, Moves, TypeOK
    <3> QED
      BY <3>1, <3>2
  <2>4. call' = call
    BY <1>5, StepKeeps DEF Inserts, Keeps
  <2> QED
    BY <1>5, <2>1, <2>2, <2>3, <2>4 DEF Told, Recording
<1>6. CASE Saves(r) /\ v = u
  <2>1. Exists(u) /\ call[r].op \in Saving /\ call' = call /\ trail' = trail
    BY <1>6, StepKeeps DEF Saves, Good, Keeps
  <2>2. Exists(u)'
    BY <2>1, <1>1, UsersTyped DEF Exists
  <2> SUFFICES ASSUME u \notin untold'
               PROVE  /\ trail[u].role \subseteq {users'[u].role}
                           \/ \E o \in Request : Recording(o, u, "role")'
                      /\ trail[u].isActive \subseteq {users'[u].isActive}
                           \/ \E o \in Request : Recording(o, u, "status")'
                      /\ \A o \in Request :
                           /\ Recording(o, u, "role")' => users'[u].role = call[o].role
                           /\ Recording(o, u, "status")' => users'[u].isActive = call[o].isActive
    BY <1>6, <2>1, <2>2 DEF Told, Exists
  <2>3. u \notin untold /\ r \in Touching(u)
    BY <1>1, <1>6 DEF Saves, Touching, InSection
  <2>4. \A o \in Request \ {r} : \A op : ~ Recording(o, u, op) /\ ~ Recording(o, u, op)'
    <3>1. \A o \in Request \ {r} : \A op : ~ Recording(o, u, op)
      BY <1>1, <2>3 DEF Alone, Recording, Touching
    <3>2. ASSUME NEW o \in Request \ {r}, NEW op PROVE ~ Recording(o, v, op)'
      BY <1>6, <3>1, RecordingKept
    <3> QED
      BY <1>6, <2>1, <3>1, <3>2 DEF Recording
  <2>5. \A op : ~ Recording(r, u, op)
    BY <1>6 DEF Saves, Recording
  <2>6. /\ trail[u].role \subseteq {users[u].role}
        /\ trail[u].isActive \subseteq {users[u].isActive}
    BY <1>6, <2>1, <2>3, <2>4, <2>5 DEF Told
  <2>7. /\ call[r].op # "role" => users'[u].role = users[u].role
        /\ call[r].op = "role" => users'[u].role = call[r].role
        /\ call[r].op # "status" => users'[u].isActive = users[u].isActive
        /\ call[r].op = "status" => users'[u].isActive = call[r].isActive
    <3>1. users[u] \in Row /\ users' = [users EXCEPT ![u] = Assigned(r, users[u])]
      BY <1>6, <2>3, ExactSave
    <3>2. users'[u] = Assigned(r, users[u])
      BY <1>1, <3>1
    <3> QED
      BY <1>1, <2>1, <3>1, <3>2, AssignedIs
  <2>8. \A op : call[r].op = op /\ op \in {"role", "status"} => Recording(r, u, op)'
    BY <1>6, <2>1 DEF Saves, Recording, Audited
  <2>9. \A op : Recording(r, u, op)' => call[r].op = op
    BY <2>1 DEF Recording
  <2> QED
    BY <2>4, <2>6, <2>7, <2>8, <2>9
<1>7. CASE RecordAudit(r) /\ v = u
  <2>1. /\ pc[r] = "audit" /\ UNCHANGED <<users, call, untold>>
        /\ trail' = CASE call[r].op = "role"   -> [trail EXCEPT ![u].role = {call[r].role}]
                      [] call[r].op = "status" -> [trail EXCEPT ![u].isActive = {call[r].isActive}]
                      [] OTHER -> trail
    BY <1>7 DEF RecordAudit, history
  <2> SUFFICES ASSUME u \notin untold
               PROVE  /\ trail'[u].role \subseteq {users[u].role}
                      /\ trail'[u].isActive \subseteq {users[u].isActive}
                      /\ \A o \in Request : \A op : ~ Recording(o, u, op)'
    BY <1>2, <1>7, <2>1 DEF Told, Exists
  <2>2. \A o \in Request \ {r} : \A op : ~ Recording(o, u, op)
    BY <1>1, <2>1 DEF Alone, Recording, Touching
  <2>3. \A o \in Request : \A op : ~ Recording(o, u, op)'
    <3>1. pc'[r] = "done"
      BY <1>7 DEF RecordAudit, Finish, TypeOK
    <3>2. \A op : ~ Recording(r, u, op)'
      BY <3>1 DEF Recording
    <3>3. ASSUME NEW o \in Request \ {r}, NEW op PROVE ~ Recording(o, v, op)'
      BY <1>7, <2>2, RecordingKept
    <3> QED
      BY <1>7, <2>1, <3>2, <3>3 DEF Recording
  <2>4. \A op : Recording(r, u, op) <=> call[r].op = op
    BY <2>1 DEF Recording
  <2>5. /\ call[r].op = "role" => users[u].role = call[r].role
        /\ call[r].op = "status" => users[u].isActive = call[r].isActive
        /\ call[r].op # "role" => trail[u].role \subseteq {users[u].role}
        /\ call[r].op # "status" => trail[u].isActive \subseteq {users[u].isActive}
    BY <1>2, <1>7, <2>1, <2>2, <2>4 DEF Told
  <2>6. /\ trail'[u].role = IF call[r].op = "role" THEN {call[r].role} ELSE trail[u].role
        /\ trail'[u].isActive = IF call[r].op = "status" THEN {call[r].isActive} ELSE trail[u].isActive
    <3>1. trail[u] \in TrailRow
      BY <1>1
    <3>2. CASE call[r].op = "role"
      <4>1. trail' = [trail EXCEPT ![u].role = {call[r].role}]
        BY <2>1, <3>2
      <4> QED
        BY <1>1, <3>1, <3>2, <4>1 DEF TrailRow
    <3>3. CASE call[r].op = "status"
      <4>1. trail' = [trail EXCEPT ![u].isActive = {call[r].isActive}]
        BY <2>1, <3>3
      <4> QED
        BY <1>1, <3>1, <3>3, <4>1 DEF TrailRow
    <3>4. CASE call[r].op \notin {"role", "status"}
      BY <2>1, <3>4
    <3> QED
      BY <3>2, <3>3, <3>4
  <2> QED
    BY <2>3, <2>5, <2>6
<1> QED
  BY <1>3, <1>4, <1>5, <1>6, <1>7, StepActs

(***************************************************************************)
(* The theorems                                                            *)
(***************************************************************************)
LEMMA InitIInv == Init => IInv
<1> SUFFICES ASSUME Init PROVE IInv
  OBVIOUS
<1>1. TypeOK
  <2>1. PICK u \in User :
          call = [r \in Request |-> [op |-> "logout", actor |-> u, user |-> u,
                                     role |-> "admin", isActive |-> TRUE]]
    BY DEF Init
  <2>2. call \in [Request -> Call]
    BY <2>1, RoleAssumption DEF Call, AllOperations
  <2> QED
    BY <2>2, FirstAssumption DEF Init, TypeOK
<1>2. \A r \in Request : pc[r] = "idle" /\ answer[r] = "pending"
  BY DEF Init
<1>3. \A r \in Request : Good(r) /\ Loaded(r) /\ Seen(r) /\ Exact(r) /\ ~ Registered(r)
  BY <1>2 DEF Good, Loaded, Seen, Exact, Registered
<1>4. Alone
  BY <1>2 DEF Alone, InSection, Touching
<1>5. \A u \in User : Meaning(u) /\ Told(u)
  BY <1>2 DEF Init, Meaning, Exists, Told, Recording
<1> QED
  BY <1>1, <1>3, <1>4, <1>5 DEF IInv, OneRegistered

LEMMA CrashKeeps ==
  ASSUME IInv, Crash
  PROVE  /\ \A r \in Request : Good(r)' /\ Loaded(r)' /\ Seen(r)' /\ Exact(r)'
         /\ Alone' /\ OneRegistered'
         /\ \A u \in User : Meaning(u)' /\ Told(u)'
<1>1. /\ UNCHANGED <<users, call, trail, overlapped, meant, stale>>
      /\ \A r \in Request : pc'[r] \in {"idle", "done"} /\ (pc'[r] = "idle" => pc[r] = "idle")
      /\ \A r \in Request : IF pc[r] \in {"idle", "done"} THEN pc'[r] = pc[r] /\ answer'[r] = answer[r]
                                                          ELSE answer'[r] = "lost"
      /\ untold' = untold \cup {u \in User : \E r \in Touching(u) : pc[r] = "audit"}
  BY DEF Crash, InFlight, IInv, TypeOK
<1>2. \A r \in Request : Registered(r)' => Registered(r)
  BY <1>1 DEF Registered
<1>3. \A r \in Request : Good(r)' /\ Loaded(r)' /\ Seen(r)' /\ Exact(r)'
  BY <1>1, <1>2 DEF IInv, Good, Loaded, Seen, Exact, Exists
<1>4. Alone' /\ \A u \in User : Meaning(u)'
  BY <1>1 DEF IInv, Alone, InSection, Touching, Meaning, Exists
<1>5. OneRegistered'
  BY <1>1, <1>2 DEF IInv, OneRegistered
<1>6. ASSUME NEW u \in User PROVE Told(u)'
  <2>1. \A r \in Request : \A op : ~ Recording(r, u, op)'
    BY <1>1 DEF Recording
  <2>2. u \notin untold' => u \notin untold /\ \A r \in Request : \A op : ~ Recording(r, u, op)
    BY <1>1 DEF Recording, Touching
  <2> QED
    BY <1>1, <2>1, <2>2 DEF IInv, Told, Exists
<1> QED
  BY <1>3, <1>4, <1>5, <1>6

LEMMA NextIInv == IInv /\ [Next]_vars => IInv'
<1> SUFFICES ASSUME IInv, [Next]_vars PROVE IInv'
  OBVIOUS
<1>1. TypeOK'
  BY TypesKept DEF IInv
<1>2. ASSUME NEW r \in Request, RequestStep(r) PROVE IInv'
  <2>1. \A o \in Request : Good(o)'
    BY <1>2, ActorGood, OthersGood DEF IInv
  <2>2. \A o \in Request : Loaded(o)' /\ Seen(o)' /\ Exact(o)'
    BY <1>2, LoadedKept, SeenKept, ExactKept DEF IInv
  <2>3. Alone' /\ OneRegistered'
    BY <1>2, AloneKept, OneRegisteredKept DEF IInv
  <2>4. \A u \in User : Meaning(u)' /\ Told(u)'
    BY <1>2, MeaningKept, ToldKept DEF IInv
  <2> QED
    BY <1>1, <2>1, <2>2, <2>3, <2>4 DEF IInv
<1>3. ASSUME UNCHANGED vars PROVE IInv'
  <2>1. \A r \in Request : Good(r)' /\ Loaded(r)' /\ (Registered(r)' <=> Registered(r))
    BY <1>3 DEF IInv, Good, Loaded, Registered, Exists, vars, history
  <2>2. \A r \in Request : Seen(r)' /\ Exact(r)'
    BY <1>3 DEF IInv, Seen, Assigns, Exact, Assigned, vars, history
  <2>3. Alone' /\ \A u \in User : Meaning(u)'
    BY <1>3 DEF IInv, Alone, InSection, Touching, Meaning, Exists, vars, history
  <2>4. OneRegistered'
    BY <1>3, <2>1 DEF IInv, OneRegistered, vars
  <2>5. \A u \in User : Told(u)'
    BY <1>3 DEF IInv, Told, Recording, Exists, vars, history
  <2> QED
    BY <1>1, <2>1, <2>2, <2>3, <2>4, <2>5 DEF IInv
<1> QED
  BY <1>1, <1>2, <1>3, CrashKeeps DEF IInv, Next, RequestStep

(* The inductive invariant holds in every state.                           *)
THEOREM Invariance == Spec => []IInv
  BY InitIInv, NextIInv, PTL DEF Spec

(* Every variable has its type in every state.                             *)
THEOREM TypeCorrect == Spec => []TypeOK
<1>1. IInv => TypeOK
  BY DEF IInv
<1> QED
  BY <1>1, Invariance, PTL

(* At most one registration with an e-mail is answered with success        *)
(* (users.service.ts:33-45, 71-84).                                        *)
THEOREM OneRegisters == Spec => []OneRegistrationWins
<1>1. IInv => OneRegistrationWins
  BY DEF IInv, OneRegistered, Registered, Good, OneRegistrationWins
<1> QED
  BY <1>1, Invariance, PTL

(* A change is undone only by a save whose load it follows and whose       *)
(* SELECT it precedes, in a column that save does not assign               *)
(* (users.service.ts:47-73, admin-users.service.ts:62-138).                *)
THEOREM ChangesHold == Spec => []ChangesStick
<1>1. IInv => ChangesStick
  BY DEF IInv, Meaning, ChangesStick
<1> QED
  BY <1>1, Invariance, PTL

(* The trail tells the role and the status of a user whose requests have   *)
(* not overlapped (admin-users.service.ts:62-121).                         *)
THEOREM TrailIsTrue == Spec => []TrailTellsState
<1>1. IInv => TrailTellsState
  <2> SUFFICES ASSUME IInv, NEW u \in User \ untold, Touching(u) = {}, Exists(u)
               PROVE  /\ trail[u].role \subseteq {users[u].role}
                      /\ trail[u].isActive \subseteq {users[u].isActive}
    BY DEF TrailTellsState
  <2>1. \A r \in Request : \A op : ~ Recording(r, u, op)
    BY DEF Recording, Touching
  <2> QED
    BY <2>1 DEF IInv, Told
<1> QED
  BY <1>1, Invariance, PTL

(***************************************************************************)
(* The last admin                                                          *)
(***************************************************************************)
FirstAdmin ==
  \E u \in User : FirstUsers[u] # NoUser /\ FirstUsers[u].role = "admin" /\ FirstUsers[u].isActive

(* The count of a section that is alone is still right when it saves.      *)
Spare ==
  ~ overlapped =>
    \A r \in Request :
      pc[r] \in {"reload", "update"} /\ RemovesActiveAdmin(r, users[call[r].user]) =>
        \E v \in User \ {call[r].user} : IsActiveAdmin(v)

LEMMA SpareKept ==
  ASSUME IInv, Spare, SerialKeepsAnAdmin, NEW r \in Request, RequestStep(r)
  PROVE  Spare' /\ SerialKeepsAnAdmin'
<1> DEFINE u == call[r].user
<1>1. /\ TypeOK /\ Good(r) /\ Loaded(r) /\ Exact(r)
      /\ call[r] \in Call /\ u \in User /\ users \in [User -> Row \cup {NoUser}]
  BY DEF IInv, TypeOK, Call
<1>2. SUFFICES ASSUME ~ overlapped, ~ overlapped' PROVE Spare' /\ SerialKeepsAnAdmin'
  BY <1>1, StepRemembers DEF Spare, SerialKeepsAnAdmin
<1>3. \A o \in Request \ {r} : pc'[o] = pc[o] /\ call'[o] = call[o]
  BY <1>1, StepMoves, StepKeeps DEF Moves, Keeps, TypeOK
<1>4. CASE ~ Saves(r)
  <2>1. users' = users \/ (Inserts(r) /\ users' = [users EXCEPT ![u] = NewUser(call[r].role)])
    BY <1>1, <1>4, StepActs DEF Looks, RecordAudit, Inserts
  <2>2. \A v \in User : Exists(v) => users'[v] = users[v]
    BY <1>1, <2>1 DEF Inserts, Exists
  <2>3. \A v \in User : IsActiveAdmin(v) => IsActiveAdmin(v)'
    BY <2>2 DEF IsActiveAdmin, Exists
  <2>4. ActiveAdmins' # {}
    BY <1>2, <2>3 DEF SerialKeepsAnAdmin, ActiveAdmins
  <2>5. ASSUME NEW o \in Request, pc'[o] \in {"reload", "update"},
               RemovesActiveAdmin(o, users[call[o].user])'
        PROVE  \E v \in User \ {call'[o].user} : IsActiveAdmin(v)'
    <3>1. call'[o] = call[o] /\ Exists(call[o].user) /\ call[o].user \in User
      <4>1. call[o].user \in User
        BY DEF IInv, TypeOK, Call
      <4>2. CASE o = r
        BY <1>1, <2>5, <4>1, <4>2, StepEnters
      <4>3. CASE o # r
        BY <1>3, <2>5, <4>1, <4>3 DEF IInv, Good
      <4> QED
        BY <4>2, <4>3
    <3>2. RemovesActiveAdmin(o, users[call[o].user])
      BY <2>2, <2>5, <3>1 DEF RemovesActiveAdmin, Assigned
    <3>3. \E v \in User \ {call[o].user} : IsActiveAdmin(v)
      <4>1. CASE o # r \/ pc[r] = "reload"
        BY <1>2, <1>3, <2>5, <3>2, <4>1 DEF Spare
      <4>2. CASE o = r /\ pc[r] # "reload"
        <5>1. ~ (Cardinality(ActiveAdmins) <= 1)
          BY <1>1, <2>5, <3>2, <4>2, StepEnters
        <5>2. ~ (ActiveAdmins \subseteq {u})
          <6> SUFFICES ASSUME ActiveAdmins \subseteq {u} PROVE Cardinality(ActiveAdmins) <= 1
            BY <5>1
          <6>1. CASE ActiveAdmins = {}
            <7>1. Cardinality(ActiveAdmins) = 0
              BY <6>1, FS_EmptySet
            <7> QED
              BY <7>1
          <6>2. CASE ActiveAdmins = {u}
            <7>1. Cardinality(ActiveAdmins) = 1
              BY <6>2, FS_Singleton
            <7> QED
              BY <7>1
          <6> QED
            BY <6>1, <6>2
        <5> QED
          BY <4>2, <5>2 DEF ActiveAdmins
      <4> QED
        BY <4>1, <4>2
    <3> QED
      BY <2>3, <3>1, <3>3
  <2> QED
    BY <2>4, <2>5 DEF Spare, SerialKeepsAnAdmin
<1>5. CASE Saves(r)
  <2>1. /\ Exists(u) /\ call[r].op \in Saving
        /\ users[u] \in Row /\ users' = [users EXCEPT ![u] = Assigned(r, users[u])]
    BY <1>1, <1>2, <1>5, ExactSave DEF Good, Saves
  <2>2. \A v \in User \ {u} : IsActiveAdmin(v) => IsActiveAdmin(v)'
    BY <1>1, <2>1 DEF IsActiveAdmin, Exists
  <2>3. ASSUME RemovesActiveAdmin(r, users[u]) PROVE ActiveAdmins' # {}
    <3>1. PICK v \in User \ {u} : IsActiveAdmin(v)
      BY <1>2, <1>5, <2>3 DEF Spare, Saves
    <3> QED
      BY <2>2, <3>1 DEF ActiveAdmins
  <2>4. ASSUME ~ RemovesActiveAdmin(r, users[u]) PROVE ActiveAdmins' # {}
    <3>1. IsActiveAdmin(u) => users'[u].role = "admin" /\ users'[u].isActive
      <4>1. users'[u] = Assigned(r, users[u])
        BY <1>1, <2>1
      <4> QED
        BY <1>1, <2>1, <2>4, <4>1, AssignedIs DEF RemovesActiveAdmin, IsActiveAdmin, Call
    <3>2. users'[u] # NoUser
      BY <1>1, <2>1, AssignedIs, RowAssumption
    <3>3. \A v \in User : IsActiveAdmin(v) =>
            users'[v] # NoUser /\ users'[v].role = "admin" /\ users'[v].isActive
      BY <2>2, <3>1, <3>2 DEF IsActiveAdmin, Exists
    <3> QED
      BY <1>2, <3>3 DEF SerialKeepsAnAdmin, ActiveAdmins, IsActiveAdmin, Exists
  <2>5. ActiveAdmins' # {}
    BY <2>3, <2>4
  <2>6. \A o \in Request : pc'[o] \notin {"reload", "update"}
    <3>1. \A o \in Request \ {r} : o \notin InSection
      BY <1>2, <1>5 DEF IInv, Alone, InSection, Saves
    <3> QED
      BY <1>3, <1>5, <3>1 DEF InSection, Saves
  <2> QED
    BY <2>5, <2>6 DEF Spare, SerialKeepsAnAdmin
<1> QED
  BY <1>4, <1>5

(* Starting with an active admin, one remains as long as no two sections   *)
(* overlap (admin-users.service.ts:140-161).                               *)
THEOREM AnAdminRemains ==
  ASSUME FirstAdmin
  PROVE  Spec => []SerialKeepsAnAdmin
<1>1. Init => Spare /\ SerialKeepsAnAdmin
  BY DEF Init, FirstAdmin, Spare, SerialKeepsAnAdmin, ActiveAdmins, IsActiveAdmin, Exists
<1>2. IInv /\ Spare /\ SerialKeepsAnAdmin /\ [Next]_vars => (Spare /\ SerialKeepsAnAdmin)'
  <2> SUFFICES ASSUME IInv, Spare, SerialKeepsAnAdmin, [Next]_vars
               PROVE  Spare' /\ SerialKeepsAnAdmin'
    OBVIOUS
  <2>1. CASE \E r \in Request : RequestStep(r)
    BY <2>1, SpareKept
  <2>2. CASE Crash
    BY <2>2 DEF Crash, InFlight, Spare, SerialKeepsAnAdmin, ActiveAdmins, IsActiveAdmin, Exists,
         RemovesActiveAdmin
  <2>3. CASE UNCHANGED vars
    BY <2>3 DEF vars, history, Spare, SerialKeepsAnAdmin, ActiveAdmins, IsActiveAdmin, Exists,
         RemovesActiveAdmin, Assigned
  <2> QED
    BY <2>1, <2>2, <2>3 DEF Next, RequestStep
<1> QED
  BY <1>1, <1>2, Invariance, PTL DEF Spec

=============================================================================
