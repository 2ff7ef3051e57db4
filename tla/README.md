# Learniverse in TLA+

Learniverse is a NestJS API for courses: tutors publish courses, lectures and
assignments, students enroll, report progress and submit, tutors review, admins
manage users and moderate content. PostgreSQL (TypeORM) holds everything but
the submissions, which are in MongoDB (Mongoose). One Node.js process serves
the API.

This directory holds TLA+ modules of the parts that write state, the TLC
configurations that check them, and the TLAPS proofs about them.

## The system

| component | state | operations | talks to |
|---|---|---|---|
| `IdempotencyService` | table `idempotency_keys` | `execute` around "enroll" and "submit" | calls `run` and `replay` of its caller |
| `EnrollmentsService` | table `enrollments` | `enroll`, `updateProgress` (a transaction with a row lock), reactivation | reads `courses`; cascades with them |
| `UsersService`, `AuthService`, `JwtStrategy`, `RolesGuard` | table `users`: role, active, hash of the refresh token | register, login, refresh, logout, change of the name | every request passes the guards |
| `AdminUsersService`, `AdminBootstrapService` | `users` | status, role, sessions, first admin | `AdminAuditService` |
| `SubmissionsService` | collection `submissions` | submit, feedback | reads assignments and enrollments in PostgreSQL |
| `CoursesService` | tables `courses`, `lectures` | create, update, remove | cascades to enrollments, assignments |
| `AssignmentsService` | table `assignments` | create, publish | reads `courses` |
| `AdminContentService` | the moderation columns of courses, assignments and submissions | hide, show | `AdminAuditService` |
| `AdminAuditService` | table `admin_audit_logs` | record | after the change, in no transaction with it |
| `HttpExceptionFilter` | none | the status of whatever was thrown | every handler |
| paginated lists, `AdminOperationsService` | none of their own | one page and the total, in two statements | the tables |
| DTOs, guards, interceptors, configuration, migrations, scripts | none of their own | stateless, or run once | |

What is hard: every handler is a sequence of awaits, and between two of them
any other request may run. But for `updateProgress` no handler uses a
transaction or a lock of its own. So everything rests on unique constraints,
foreign keys, atomic updates of MongoDB, and on `Repository.save`, which
reads the row again and writes the columns that differ from what was loaded
some awaits before. Besides: the process may die between two statements, a
statement may fail, and its answer may be lost after it took effect.

What makes each component correct:

* Idempotency: a replay is the result of the same call; a result is recorded
  before it is answered; a key creates at most once; every request ends.
* Enrollments: one enrollment per student and course; progress never goes
  back and is never lost; COMPLETED means 100; locks are released.
* Accounts: one user per e-mail; an admin remains; a demotion, a deactivation
  and a revocation hold against the saves of other requests.
* Submissions: what was answered 201 stands; one review; only by the owner.
* Courses: one lecture per order; children have a course; what was hidden or
  removed stays so.
* Audit log: the last record about something tells the state it is in.
* The whole of `POST /enrollments`: a request that was refused has changed
  nothing; all that are answered 201 for one course name one enrollment.
* Lists: a client that walks the pages misses no row that is there all the time.

## The modules

| module | models | checked by |
|---|---|---|
| `Idempotency` | `IdempotencyService.execute`, on one scope | `idem_safety`, `idem_live`, `idem_same_result` |
| `IdempotencyLedger` | what a key promises: the abstract specification | refined in `idem_live` |
| `IdempotencyRefinement` | the mapping from the table to the ledger | `idem_live`, `LedgerProofs` |
| `Repository` | `Repository.save` of TypeORM: an entity with columns assigned, the columns that differ, the row after | through its users |
| `Enrollments` | `enrollOnce`, `updateProgress`, reactivation | `enroll_live`, `EnrollmentsProofs` |
| `EnrollmentBook` | what a caller of enrollments may rely on: the abstract specification | refined in `enroll_live` |
| `EnrollmentsRefinement` | the mapping from rows and awaits to the book | `enroll_live`, `EnrollmentsProofs` |
| `Accounts` | users, sessions, admins and their audit trail | `acct_*`, `AccountsProofs` |
| `Submissions` | `submitOnce`, `addFeedback`, moderation of submissions and its audit trail | `sub_*`, `SubmissionsProofs` |
| `SubmissionDesk` | what a caller of submissions may rely on: the abstract specification | refined in `sub_safety` |
| `SubmissionsRefinement` | the mapping from documents and awaits to the desk | `sub_safety`, `SubmissionsProofs` |
| `Courses` | courses, lectures, assignments, their moderation and its audit trail | `content_*`, `CoursesProofs` |
| `ExceptionFilter` | `HttpExceptionFilter`: the status of an exception | in `EnrollmentApi` |
| `Lists` | a page and its total, and the client that walks the pages | in `EnrollmentApi` |
| `EnrollmentApi` | `POST /enrollments` as a whole, and the list of my enrollments | `enroll_api`, `EnrollmentApiProofs`, `EnrollmentListProofs` |
| `MC...` | the instances for TLC | |
| `...Proofs` | theorems | TLAPS |

`EnrollmentApi` composes the parts. It instantiates `Idempotency` as the wrapper
(`W`), with the enrollments as its entities; `Enrollments` as the service (`E`),
without progress and without dropped enrollments; `Lists` over the enrollments of
the student; and extends `ExceptionFilter`. A step of `run()` is a statement of `E`,
joined with what it means to `W`: nothing yet, an entity, a result for the save
of the record, or an exception for the catch block. A removal of a course takes
its enrollments from the wrapper and from the list, and a crash ends all of it.

### How code becomes actions

A `Request` is one HTTP call. `pc[r]` is the await at which it stands, `call[r]`
what it asks for, `answer[r]` (in `Idempotency`: `outcome[r]`) how it ended: a
retry of a client is another request. An action is what the code does from one
await to the next: the database call and what is computed from its answer. So
every interleaving of awaits is a behaviour. `Arrival` of each module is the
controller with its guards up to the first await of the service; `Handle`
(`Progress` in `Idempotency`) is everything after it; faults and other actors
are actions of their own.

`save(entity)` of an entity that was loaded is two steps: a SELECT
(`Reload...`) and an UPDATE of the columns in `Dirty(entity, reloaded)`
(`Update...`). If the SELECT finds no row, the entity is inserted
(`Reinsert...`); if no column differs there is no UPDATE. `memory[r]` is the
entity, `reloaded[r]` the row the SELECT has seen. The module `Repository` is
external: TypeORM is not part of the repository. `save` of a new entity is one
INSERT, and its constraints decide.

* `Idempotency`: `row` is the table, each row named by the request that inserted
  it; `holds[r]` is "processing is not null" in `execute`. `Find`, `Create` and
  `Refind` are lines 54-70, `Poll` is `waitForCompletion`, `RunCreates`,
  `RunConflicts` and `RunRejects` are the three ways `run()` ends,
  `SaveCompleted` and `DeleteRow` lines 78-86. `entity[x]` is what `run()`
  creates, `made` remembers who did. `Replay` is `replayEnrollment` and
  `replaySubmission`. A payload is what the hash distinguishes: canonical JSON,
  with the hash taken as injective.
* `Enrollments`: a pair of student and course names a row, which the unique
  constraint allows. `LockRow` waits for the holder of the row, as
  `SELECT ... FOR UPDATE` does; the save inside the transaction and its COMMIT
  are one step, because nobody can write the row in between. `OperatorDrops`
  stands for a statement run by hand: no code sets DROPPED, yet
  `tryReactivateDroppedEnrollment` handles it.
* `Accounts`: a user is an e-mail. A refresh token is the request that issued
  it. `bcrypt.compare` reads 72 bytes, and these are the header and the first
  claims of the token, which do not change from one refresh token of a user to
  the next: any of them matches a stored hash, which `BeginRefresh` says.
* `ExceptionFilter`: an exception is the record of the fields the filter reads, in
  the order in which it reads them. What each step of `execute` and `enrollOnce`
  throws is `Thrown` of `EnrollmentApi`.
* `Lists`: `findAndCount` reads the rows, then counts; TypeORM leaves the count out
  when the rows tell it. `missing` remembers the rows that were there when the
  walk began and were not listed yet.
* The audit record of `Accounts`, `Submissions` and `Courses` is a step after the save,
  as `AdminAuditService.record` is a statement of its own. `trail` keeps the state
  after the change in the last record; `before` of `Submissions` is the state before the
  change, until the record is written; who acted is left out.
* `Submissions`: documents are never removed, so a pair of student and
  assignment names one. Assignments and enrollments live in the other database
  and change at any time. The row of an assignment that is removed has no other
  columns left to tell apart.
* `Courses`: `issued` are the ids in use or used before; a new row takes a
  fresh one. Lectures have no cascade, so a course with lectures cannot be
  removed (409). A moderation loads the course with its lectures
  (`relations: ['tutor', 'lectures']`), and a save of an outdated list tries to
  set `course_id` of the others to NULL, which the column refuses (500).

## The runs

All bounds are in the configurations; no guard bounds a counter. Deadlock is
not checked (`CHECK_DEADLOCK FALSE`) because every instance stops when its
requests are answered.

| run | question | bounds | states |
|---|---|---|---|
| `idem_safety` | are replays, records and creations right under every fault? | 3 requests, 1 key, 2 payloads, 2 polls | 121 thousand |
| `idem_live` | does every request end? is the ledger implemented? | the same; payloads of one path; no ambiguous calls | 273 thousand |
| `idem_same_result` | do equal calls get the same result? No | 3 requests, no faults | |
| `enroll_live` | enrollments and progress; is the book implemented? | 3 requests, 1 course, a student and the tutor, progress 40, 70 and 100, all faults | 163 thousand |
| `enroll_api` | wrapper, service, filter and list together | 2 requests, 1 key, 2 courses, 2 polls, 3 earlier enrollments, a reader of pages of two rows, all faults | 643 thousand |
| `acct_safety` | everything that writes a user | 3 requests, an admin and a newcomer, 2 roles, lost calls and crashes | 528 thousand |
| `acct_last_admin` | does an admin remain? No | 2 requests, 2 admins | |
| `acct_deactivation` | does a deactivation hold? No | 2 requests | |
| `sub_safety` | submissions, reviews and moderations; is the desk implemented? | 3 requests, 2 tutors, 2 assignments, 1 student, all faults | 526 thousand |
| `sub_unscored` | REVIEWED iff there is a score? No | 2 requests | |
| `content_safety` | courses, lectures, assignments | 3 requests, 1 course, 1 assignment, 2 lectures, 2 orders, 2 tutors | 276 thousand |
| `content_ghost` | does a removed course stay away? No | 2 requests | |

Why the bounds are enough: a race in this code is between two requests that
write one row, and a third one has to be there to see, replay or complicate the
result. One row per constraint suffices, since no invariant relates two rows of
a table but the two lectures of one course and the two users of which one is
the last admin, which are there. `enroll_api` has two requests only, because its
statements multiply; three are there in the runs of its parts, and the theorems
about it hold for any number. Three earlier enrollments and
two new ones on pages of two make a walk of two or three pages, during which an
insertion pushes a row that was there from the page being read to the next. Two polls tell a first from a last one. The
symmetry among requests is sound in the runs that use it, because they check
no liveness and no choice depends on the name of a request.

### The properties

* `ReplayFaithful`, `RecordedBeforeAnswered`, `OneProtectedCreation`: see the
  proofs. They hold under crashes, expiry, and calls that fail before or after
  they took effect.
* `ImplementsLedger`: reading a page of the ledger off the row of the key, and a
  reply off the answer of a replayed request, each step is a step of the ledger
  or leaves it unchanged. It holds without ambiguous calls only: a save that took
  effect but is reported as failed is undone by the catch block, and a closed
  key opens again.
* `ImplementsBook`, `ImplementsDesk`: to its callers the component does one thing at a
  time. The abstract specification has no rows, locks, look-ups or awaits: a book with
  a page per enrollment, a desk with a sheet per submission. A caller asks, waits, and
  hears an answer; the whole effect of a request happens in one step in between, or
  not at all. A refusal that names a state has a reason that was true in that interval:
  ALREADY_ENROLLED means there was a page, NOT_ACTIVE that the page was not
  active, ALREADY_REVIEWED that the sheet was closed. An answer of 5xx, or none, is
  "unknown": the caller may or may not have been served. `Reply` maps the place of a
  request to what its caller may know, `Pages` and `Sheets` the rows and documents to
  what is promised of them. The one exception of the book are its disputed pairs, the
  `contested` ones below: their pages are taken out.
* `ProgressNeverDecreases`, `AckedProgressKept`, `CompletedIffFull`,
  `OneEnrollmentWins` hold through drops and reactivations too. Excepted are the
  `contested` enrollments: two requests that load one dropped enrollment at the
  same time both reactivate it, and progress that was made between their saves is
  undone.
* `SerialKeepsAnAdmin` holds as long as no two sections between load and UPDATE
  have overlapped: the count is right in a sequential program, whatever crashes or
  fails between its steps. What overlap does is shown by `acct_last_admin`.
* `ChangesStick` of `Accounts` bounds the damage of a stale save column by column.
  `meant` is each row as it would be if every save set only the columns its
  operation assigns. `overtaken[r]` are the columns others have updated between
  the load of r and the SELECT of its `save()`; those its UPDATE writes though it
  does not assign them become `stale`. All other columns are as meant: so a
  demotion is safe from a login that loaded the user after it, and from one that
  had read the row again before it, since the UPDATE sets the columns that differ
  and no others. That the window between load and SELECT is really open
  is shown by `acct_deactivation`.
* `ChangesStick` of `Courses` is the same for the moderation of a course or an
  assignment and for the removal of a course. `meant` is what the moderations
  alone would have made of the columns, `overtaken` the requests whose row was
  moderated or removed between their load and the SELECT, `stale` the rows they
  wrote back; `content_ghost` shows one of those.
* `AckedSubmissionStands`, `AckedReviewStands`, `ReviewIsFinal`,
  `FeedbackIsByOwner`, `HiddenUntilShown`: these hold without restriction,
  since MongoDB updates a document atomically and each update names its columns.
* `TrailTellsState`, in each of the three modules: when no record is under way, the
  last record tells the state. It cannot hold without exceptions, since save and
  record are two statements: `untold` is what a crash or a failure left without a
  record, or what two changes saved and recorded in different orders; in `Courses`
  also what an overtaken save wrote back, in `Accounts` what another request held
  or was recording when it was loaded.
* `ImplementsIdempotency`: the service inside the wrapper is one of the `run()` the
  wrapper was written for, so what is proved of `Idempotency` holds of the API.
* `RefusedChangedNothing`, `ConflictHasAWinner`, `DoubleClickIsOneEnrollment`: what a
  client may conclude from a status. A save of the record that fails, or an
  answer that is lost, is a 5xx; a 4xx means that this request did nothing.
* `StableRowsAreListed`: rows that come in at the head push those that were there to
  later pages, which the walk still reaches; `RowsLeave` excepts a walk during which a row was removed.
* `LectureOrderUnique` and `ChildrenHaveCourse` rest on the constraints.
* `HiddenUntilShown`: a review sets its own columns of the document. One that
  replaced the document it had loaded would uncover what was hidden meanwhile.

### Fairness

`FairSpec` of `Idempotency` and of `Enrollments` makes each request weakly fair
once it has arrived: every statement and every timer calls back in the end, and
Node.js runs each callback that is ready. Nothing is assumed about arrivals,
faults or other actors. A row lock is granted in the end to a transaction that
waits for it, which PostgreSQL does in the order of waiting; with finitely many
requests weak fairness is enough. `EveryRequestAnswered` would fail if the loop of
`waitForCompletion` had no bound, or if a transaction stayed open on an error.

## What the runs found

1. `idem_same_result`: a request that loses the insert and then finds no row,
   because the winner failed and deleted it, calls `run()` without a record. A
   third equal request may insert one at the same time: one of them is answered
   201 and the other 409, although a retry with the same key shall return the
   same result (`test/enrollments.e2e-spec.ts:261`).
2. `acct_last_admin`: the count of active admins and the save are two
   statements. Two admins who remove each other leave none.
3. `acct_deactivation`: `PATCH /users/me`, a login or a refresh that loaded the
   user before a deactivation saves it after, and so activates the user again.
4. `sub_unscored`: `"score": null` passes the DTO and is not `undefined`: the
   submission is REVIEWED without a score, for good.
5. `content_ghost`: an update that loaded a course before it was removed inserts
   it again.

## What is proved

Every property of every passing run but the two of liveness is a theorem: the
invariants, the action properties, and the four refinements (`ImplementsLedger` under
`NoAmbiguity`). A theorem holds for any sets of
requests, keys, users, courses and so on, any bound on the polls and any faults,
from the assumptions that its module names: special values are distinct from the
others, the polls have a positive bound, a page has room for a row, each assignment has a course and each
course a tutor, and, so that a call exists at all, that there is a student, a
course, an assignment, a progress (`SomeAssumption`). Each module has one theorem
`Invariance` (`WrappedAndLinked`, `PollingAndListed`, `LedgerInvariance`), from which the others follow.

`IdempotencyProofs`: `TypeCorrect`, `ReplayIsFaithful`, `RecordComesFirst`,
`CreationIsUnique`. None of the four properties is inductive. `TypeOK` bounds
`polls[r]`, but a request that is still waiting with the counter at its bound
could poll once more: one needs "below the bound while waiting".
`ReplayFaithful` needs that what is in a row is the call of its inserter and what
it made (`RowInv`), and that a waiting request has compared the hash of the row it
watches (`ReaderInv`). `RecordedBeforeAnswered` needs that a holder's row is still
there when it saves (`HolderInv`): nobody else deletes it, for the delete is by id.
`OneProtectedCreation` follows from it with the unique constraint (`KeyInv`): both
rows would be there.

`LedgerProofs`: `LedgerIsKept`, the refinement of `IdempotencyLedger` by `Idempotency`,
under `NoAmbiguity` (no call fails after it took effect), without which it does not
hold. The invariant adds `Settled`: the row of a holder is in process until the holder
itself completes or deletes it, so a completed row stays, and so does what a
request is about to replay. Then an insert is a claim, the save closes, the delete
in the catch block releases, a replay serves, and every other step, the expiry
and the crash included, leaves all pages and replies alone.

`EnrollmentApiProofs`: `ApiImplementsIdempotency`, `RefusalChangedNothing`,
`ConflictNamesAWinner`, `OneEnrollmentForAll`. The invariant has two halves. `Wrapped`
is an invariant of the wrapper with any `run()`, and is kept by every step of
`W!Next`. `Linked` says how far the service is when the wrapper is in `run`, and whose
row an enrollment is. With `Linked`, each step of the API is one of `W!Next`; with
that, `Wrapped` is kept. (A theorem of `Idempotency` cannot be cited for the instance
`W`, so `Wrapped` is proved anew, as far as it is needed.)

`EnrollmentListProofs`: `NoStableRowIsMissed`, `ApiTypeCorrect`. For the walk through the
list the invariant is `WalkInv`: whatever the reader is still missing is behind the
pages it has read, and after a page that is not full nothing is. An insertion at the
head pushes rows back and never forward (`InsertPushes`), a page takes what it shows
off what is behind the pages before it (`PageTakes`), and the total that ends a walk
counts at least the rows that were there when its last page was read, so that
`Math.ceil` leaves none behind (`PagesSuffice`). No induction over the sequence is needed:
each step changes it in one place. `ApiTypeCorrect` needs `Polling`: who waits has not
polled up to the bound yet.

`SubmissionsProofs`: `SubmissionStands`, `ReviewStands`, `OnlyOwnersReview`, `TrailIsTrue`,
`ClosedStaysClosed`, `OnlyAdminsUncover`, `TypeCorrect`. All that a step does to the
collection is one of four effects (`DocEffect`), so a document evolves in few ways
(`Evolves`), none of which touches what was acknowledged. `DeskIsKept`, the refinement of
`SubmissionDesk`: the insert is the step of a submission, the filtered update that of a
review, the update of the columns that of a moderation; every check before it is
unseen, or ends the request with an answer whose reason holds at that moment. That a
review is by the owner of the sheet and that a document that fails the filter is a
closed one come from `Good`, the memory of the requests.

`EnrollmentsProofs`: `CompletionIsFull`, `ProgressIsKept`, `OneWins`, `ProgressGrows`,
`TypeCorrect`. `Good` says what a request may rely on at each await: the holder of a
row lock has read the row as it is, and one that reactivates holds a dropped row
unless it is contested. `Paid` bounds the winners by the drops: each enrollment
granted beyond the first is paid for by a drop that its reactivation used up.
`BookIsKept`, the refinement of `EnrollmentBook`: the insert is the step of an enrollment,
the UPDATE of the dropped entity that of a reinstatement, also when its
answer is lost, the COMMIT that of a report,
the cascade that of a removal, and the read that finds a second reactivation under
way opens a dispute. The invariant says why the saves are such steps: the row under
the lock is the one that was read, so the COMMIT writes the maximum of the progress that
is there and the one that is asked for; and the dropped row of an undisputed pair
is as it was loaded, so its UPDATE makes a new page. What a request does about a disputed
pair shows in no page.

`AccountsProofs`: `OneRegisters`, `ChangesHold`, `TrailIsTrue`, `TypeCorrect`, and
`AnAdminRemains` under `FirstAdmin` (there is an active admin at the start).
`ChangesHold` rests on two facts: a column of an entity that no other UPDATE has
touched since the load is as the row was then (`Seen`), so an UPDATE that is not
overtaken writes the columns it assigns and no others; and each column that is
not stale is as meant (`Meaning`). A section that is alone saves what it
means to (`Exact`): the trail rests on that, and so does the last admin, where the count a
lone section has taken is still right when it saves (`Spare`).

`CoursesProofs`: `OrdersAreUnique`, `ChildrenKeepCourse`, `ChangesHold`, `TrailIsTrue`,
`TypeCorrect`. `Fresh`: an entity that is not overtaken has the moderation of its row,
or the one its request sets, and its row exists, so its save changes what it
should and never re-inserts. `Settled`: a column a moderation leaves out of its
UPDATE is in the row as it wants it. `Traces`: an id that was never issued has left
no trace, so a new row starts clean. `OneCourse`: all who hold an entity of a lecture
agree on its course, so that not even a re-insertion moves it to another one.

Only model-checked: liveness (both `EveryRequestAnswered`), which needs fairness and
ENABLED and is out of reach of the prover. No property needs induction over data, and
no module has a recursive definition.

## What is not modelled

* The other lists: `Lists` is composed with the enrollments of a student only. The
  filters of the others choose the rows, and their pages and totals are read the
  same way. Rows are taken to differ in `created_at`. `AdminOperationsService` only reads:
  of its lists that of the enrollments of one user is the one in `EnrollmentApi`, that
  of the idempotency keys is not composed.
* The return of a removed course in `Enrollments` and `EnrollmentApi`: there, a
  course that is removed stays so. `content_ghost` shows that a stale save can insert
  it again, under its old id and without its enrollments, which the cascade took
  with it; a student may then enroll in it as in a new one.
* What the audit trail says after changes that overlap, or after a record that
  was lost, and what two simultaneous reactivations of one dropped enrollment do
  to its progress: these windows are in the models, and nothing is claimed of them.
* Updates of progress and dropped enrollments in the composition: they are in
  `Enrollments`, and the wrapper never sees them.
* "submit" as a composition: it has the wrapper of "enroll", and what runs inside is
  in `Submissions`.
* In the audit log: the actor, the metadata, and the records of logins, sessions
  and removals, which change no state the trail tells.
* Hashing of passwords and payloads, tokens and their expiry, validation of
  bodies, the envelope of answers: their results are the inputs of the models.
* The order of a course's text columns, categories, file URLs: no property
  tells them apart. A body of an update of a course carries its text or
  `isPublished`.
* Removal of users: no code does it.
* Two server processes: deployment runs one. The models of the database-bound
  parts do not depend on it; `Crash` does.
* Migrations, configuration, and the deployment scripts, which are sequential.

## Plan

Done: all components that write state, the composition of `POST /enrollments`, the
audit trail, the ledger, the book and the desk, and the proofs of all safety
properties and refinements.

Left, should the code grow:

1. "submit" composed as "enroll" is, when its `run()` comes to differ from a check
   and an insert.
2. The deployment and rollback scripts as one small module: which image runs
   after a health check that fails.
3. A second server process: `Crash` then takes the requests of one of them.
