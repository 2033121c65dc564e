# TLA+ models of avto-school-api

avto-school-api is the NestJS back end of a driving school: users sign in, sit
exams drawn from a bank of questions, and a queue processes multi-step jobs in
the background. It keeps its state in PostgreSQL (through Prisma), Redis and
MinIO, and most of what is hard about it comes from handlers that `await`
several queries while other requests run between them. These modules model
those handlers one query at a time, and the scripts beside the application
(scraper, photo download, import, seed) one call at a time.

Paths below are relative to the application's `src/` unless they say otherwise.

## Inventory

| Part | State | Operations | What is hard | What makes it correct | Module |
|---|---|---|---|---|---|
| Exams (`modules/exams`) | `exams` rows; reads questions, answers, subjects, tickets and the clock | start (resume, expire or create), finish, statistics | check-then-create and check-then-update over separate queries; updates by id alone; the bank changes between validation and use; expiry only on demand | a user's exam ends once, expires only when its time is over, is changed by its owner only; an exam is well formed | `Exams` |
| Sessions (`modules/auth/services/auth.service.ts`) | `user_sessions`, `refresh_tokens`, the password | login, refresh, logout, reset, `generateTokens` | transactions at READ COMMITTED that read, then prune, then insert; row locks; a check outside the transaction | ended sessions stay ended; a bounded number is active; a reset ends what it saw | `Sessions` |
| Step queue (`modules/queue`) | `processing_steps`, `jobs`, Bull's list | create a sequence, process a Bull job, retry, process-next, status | worker, retries and process-next overlap, the last with any list of ids; each of some ten awaits can fail; crashes; Bull hands a job out again | a list's steps are started in order; COMPLETED means a handler succeeded; nothing gets stuck | `StepQueue` |
| Redis cache (`common/redis`) | keys in Redis and in the process's memory | get, set, del, cache | falls back to memory while Redis is down; one store counts in seconds | what is read was set within its time to live | `RedisCache` |
| One-time codes (`auth/services`, `mail`, `one-time-code`) | `users`, `one_time_codes`, the copy in the cache | register, forgotPassword, verifyOtp, resendOtp, resetPassword | one fact in two stores; writes to Redis inside a transaction; a second connection asked for while one is held | a code is good once and for a limited time; every request ends | `OneTimeCodes` |
| Accounts (`users`, `google.service.ts`) | `users` and its unique keys | register, create, googleLogin, delete | look and write apart; deleted rows keep keys | one account per address | `Accounts` |
| Access period (`users`, `guards/auth.guard.ts`, `jwt.strategy.ts`) | the two dates of a user | create, set, update, remove; login, guard, `checkUserAccess`, list | four copies of one rule; dates checked against a stale row | the copies agree; start before end | `AccessPeriod` |
| Roles | roles, permissions, assignments | create, assign, remove, the lookups | reads before writes; soft-deleted rows keep the name | an assigned permission is held | `Roles` |
| Answers, questions, subjects, tickets | the bank | create, createMultiple, update, remove | "one correct answer" is checked in one query and relied on in another; row locks in two orders | one correct answer per question | `AnswerBank`, `Exams` |
| Saved questions | rows under a unique key | toggle, update, remove | toggles overlap; soft-deleted rows keep the key | a toggle toggles | `SavedQuestions` |
| Paged lists (seven `findAll`) | - | a page and its count | rows come and go between queries and pages | a walk through the pages misses and repeats nothing without cause | `Listing` |
| Files (`modules/files`, `common/minio`) | `files` rows, objects, the bucket | upload, download | row, object and path are written one by one | what was answered as stored can be downloaded | `Files` |
| WebSocket gateway (`common/gateway`) | rooms | connect, disconnect, emit | the socket may leave, or its user be deleted, while it is being verified | a welcomed client misses nothing and hears its own events only | `Gateway`, `StepFeed` |
| Photo download (`scripts/download_photos.js`) | files, counters | run | batches, cut connections, stops, runs again | the report is true; a rerun gets the rest | `PhotoDownload` |
| Question import (`scripts/scraper.js`, `migrate_questions.js`) | JSON files, five tables | scrape, migrate | failing requests, stops, both at a time | all or nothing is imported, and it fits | `QuestionImport` |
| Seed (`prisma/seed.ts`) | thirteen tables | run | no transaction; stops; users register meanwhile | what is printed as completed is there | `Seeding` |
| Mail transport, translation, logger, shell | none that matters | | | | - |

How they interact: every HTTP request passes the JWT strategy and the access
guard, then one service. Services share PostgreSQL and nothing else, except that
one-time codes are also in Redis, and that steps go through Bull. Exams read
what the administrators' services write. `generateTokens` is called by login,
registration, refresh, verification and Google login. The step queue emits an
event to the gateway after each status change. The scripts leave JSON files and
photos to one another and write to the same database.

`PROJECT.json` lists the hazards, each at its line. Hazards of the same root
(for instance the places where a soft-deleted row keeps its unique key) are one
entry there.

## Modules

| Module | What it is |
|---|---|
| `Exams` | the exam service, one action per awaited query |
| `ExamLedger` | what users are promised of an exam: it starts active, ends once, expires only when its time is over |
| `ExamsProofs` | theorems about `Exams`, for any constants; the proof that it implements `ExamLedger` when every user has one client |
| `Sessions`, `SessionsProofs` | login, refresh, logout and reset, one action per SQL statement; theorems |
| `StepQueue` | the step queue, one action per awaited call |
| `StepSequence` | what a sequence of steps promises |
| `StepQueueProofs` | theorems about `StepQueue` and `StepFeed`; the proof that the queue implements `StepSequence` when nothing disturbs it |
| `Gateway`, `GatewayProofs` | the WebSocket gateway, one action per await of `handleConnection`; theorems |
| `StepFeed` | `StepQueue` and `Gateway` together |
| `RedisCache` | the cache over Redis and memory |
| `ExpiringMap` | what the cache promises |
| `OneTimeCodes` | registration, codes and reset; extends `RedisCache` |
| `OneTimeCodesProofs` | the proof that `RedisCache` implements `ExpiringMap`; theorems about the codes kept in it |
| `Accounts` | the rows of `users` and their keys |
| `AccessPeriod` | the dates and everything that reads them |
| `Roles` | roles and permissions |
| `UserProofs` | theorems about `AccessPeriod` and, as `A` and `R`, `Accounts` and `Roles` |
| `AnswerBank` | the answers, with row locks |
| `SavedQuestions` | a user's saved questions |
| `QuestionProofs` | theorems about `AnswerBank` and, as `SQ`, `SavedQuestions` |
| `Listing` | the paged lists |
| `Files` | uploads |
| `PhotoDownload`, `QuestionImport`, `Seeding` | the scripts |
| `ContentProofs` | theorems about `Files` and, as `P`, `I`, `S` and `L`, the scripts and `Listing` |
| `MCExams`, `MCSessions`, `MCStepQueue`, `MCStepOverlap` | instances for TLC |
| `MCUsers`, `MCContent`, `MCEvents` | instances of several modules each, for TLC |

The components of `MCUsers` and of `MCContent` share no state, so exploring them
side by side would multiply their states and show nothing. Each of these modules
is a sum: the variable `part` is chosen from `Parts` at the start and never
changes, only the component it names takes steps, and the variables of the
others stay as they begin. A property of a component is stated for the parts in
which it runs. One `part` is one instance: the same component appears
in several, with other constants and faults. `MCEvents` does the same with the
gateway alone and the gateway with the queue. What is composed for its shared
state is composed in modules of its own: `OneTimeCodes` over `RedisCache`,
`StepFeed` over `StepQueue` and `Gateway`.

Definitions marked `faulty` are the mutants of the definition below them; no
specification uses them.

### Exams

A client is a browser or device that sends one request at a time; `Owner` says
whose it is. `req[c]` is the request in flight: `pc` is the query it is about to
make, the other fields are the handler's local variables.

| `pc` | code | action |
|---|---|---|
| `idle` | `startExam` / `findActiveExam` | `StartExam` (the arrival and the first query are one step, for nothing happens before the query) |
| `resume` | `formatExamResponse` of the exam found | `ResumeExam`: expires it if its time is over |
| `validate` | `validateExamType` | `ValidateExamType` |
| `load` | `getQuestionsByType`, `validateQuestions` | `GetQuestionsByType`: chooses the questions |
| `create` | `createExamSession` | `CreateExamSession` |
| `idle` | the `findFirst` of `finish` | `FinishExam` |
| `submit` | the `update` of `finish` | `SubmitExam` |

`bank` is the questions table; `valid` stands for what `validateQuestions` looks
at (two answers at least, exactly one correct). `catalog` is the set of subjects
and tickets not deleted. `EditQuestion` and `RemoveTarget` are the
administrators. `now` counts ticks, `TicksPerMinute` to a minute, so that the
floor in `timeSpent` is seen; it is read in the action whose query uses it, so the
time a query is under way counts before the action. Times of creation are the order of the sequence.
`openedBy` is a history variable that the code does not have. A crash of the
server adds nothing: every handler writes once, so a crash is a request that
goes no further, which `Spec` allows.

A finish that finds no active exam throws and writes nothing; such a request is
not an action. The response's texts, the order of the questions (a shuffle) and
the flags of saved questions are left out: no property is about them.

### Sessions

Sessions are numbered in the order of their commits, which stands for
`createdAt` (the two may differ by the length of a transaction). A session and
the refresh token issued with it are one record: `isActive`, `isDeleted` and
`stored` (the token is in `refresh_tokens`). What a transaction wrote (`rows`,
`tokens`) stays with its request until the commit applies it. `updateMany` is
two actions: `IssueUpdate` takes the snapshot of the rows its condition selects,
`LockRows` waits for those others have locked and evaluates the condition again,
as PostgreSQL does at READ COMMITTED. `LockUser` is the update of the user row
with which login and reset begin and so wait for each other; refresh does not
touch the user row. `Rollback` is a transaction that a timeout, a lost
connection or a crash ends at any statement. Deadlocks between two updates that
lock rows in different orders are not modelled apart: PostgreSQL resolves them
by a rollback.

Two things in the code look like no-ops and are modelled as that: the
`updateMany` in `refreshTokens` (`auth.service.ts:271`) compares `userId` with a
session id, and the one in `logout` (`:290`) looks for the access token among
the refresh tokens.

### StepQueue

One sequence, its jobs and its Bull jobs: sequences share nothing but the
processor. `Worker` is the Bull processor (concurrency 1); `Request` are the HTTP
requests. `proc[x]` is where process `x` is; `executeStep` and
`createAndQueueNextJob` are the same actions for both. `ids` is the list an execution was called with
(`stepIds`), which travels with the Bull job; a process-next takes any list of `Lists` (the controller, lines
44 to 47, and `processNextStep`, lines 171 to 179, accept any), a creation or retry the whole sequence. `DatabaseFault` and
`BullFault` make any awaited call fail and go where the `catch` clauses send the
exception: out of `createAndQueueNextJob` into the catch of `executeStep`, from
there into that of `processStepJob`, which also catches the processor's own lookup of its step
(line 133). `Restart` is a crash of Node: what was in
flight is gone, and Bull hands the stalled job out again, once. `handled` FALSE
stands for a step type without a handler: the enum has one type today, and one
handler, so that branch (`step-queue.service.ts:216`) is reached only when a type
is added without one.

### RedisCache and OneTimeCodes

`redis` and `memory` map each key to a value and the time it expires. `Set`,
`Del`, `Get` go to Redis while `up` and to memory otherwise (the catch clauses
of `RedisService`); nothing moves a value from one to the other when Redis comes
back. `cache()` is two actions, for it awaits its callback between the miss and the
set. The environment is `GoDown`, `ComeBack` (with Redis's data or without) and `Restart`.
`ExpiringMap` says what callers may rely on: on one store, a key shows what was
set last; when the service changes stores, it shows nothing or a value set less than
`Ttl` ago and not removed while Redis answered.

`OneTimeCodes` extends the cache; a code's number is its key and its value. Each
request has one action per awaited statement, with its transaction's row lock of
the user and its connections: `Free` counts the pool, and `verifyOtp` asks for a
second connection while its transaction holds the first. Redis is written inside
transactions and does not roll back. Three facts of the code shape the
model: `resendOtp` looks for `user_id` in a cached row that has `userId`, so it
always fails; `verifyOtp` makes its tokens from the row it read before the
update; nothing that runs sets `blockedAt`, so no request is ever refused as blocked.

### Accounts, AccessPeriod and Roles

`Accounts`: a creation looks (`register`, `create`, `googleLogin`) and writes in
a later statement; `Clashes` is what the unique keys of the table refuse, deleted
rows included. An address written in upper case (`Forms`) is another string to
`create` and login, while `register` lower-cases it. Deletion renames the e-mail and
appends the clock's seconds.

`AccessPeriod`: an administrator's change is `Ask` (read and check) and `Write`
(by id, only the dates given). `LoginAdmits`, `GuardAdmits`, `HasAccess` and
`Status` are the four copies of the rule, each translated from its own comparisons.
The guard's exception for administrators tests a role that no token carries
(`RoleInRequest`). The routes of the four operations are commented out at
present; the service keeps them.

`Roles`: what a request keeps between its statements is in `req`: an assignment of permissions
keeps the user's roles as it read them and the permissions it found.
`assignRolesToUser` with a role in its list always fails (its rows name columns
the model does not have), and `create` reads a field the body does not carry;
both are modelled as that. `update` and the exchange of a role's permissions are
reached by no request (`ParseIntPipe` refuses the ids) and are left out.

### AnswerBank, SavedQuestions and Listing

`AnswerBank`: `create`, `createMultiple` and `remove` look and then write;
making an answer correct is a transaction whose `updateMany` takes the other
rows one after the other (`WriteOther`), waits for rows others hold, re-reads them
as PostgreSQL does, and is rolled back when two transactions wait for each
other (`Deadlocked`). The snapshot of the rows it will visit is the one it took at
its start.

`SavedQuestions`: one user, several devices; a row is `live`, `deleted` (soft,
keeping the unique key) or `gone`. `told` is what the last answer about a row
said.

`Listing`: one client walks through the pages of a list, whose `findMany` and
`count` are two queries in either order, while rows are added and removed. The
orders, the filters and what `findOne` refuses are those of each of the seven services.

### Files

An upload creates the row, asks for the bucket twice and makes it, stores the
object and writes the path; MinIO, the database and the process fail anywhere
(`Faults`), and the catch deletes the row, which may fail too.

### Gateway and StepFeed

`handler[s]` is the await `handleConnection` is at: `verify`, `find`, `join`,
`welcome`. Clients close and users are deleted at any of them. `sent` and `got`
are the events emitted to a room and received by a socket. `StepFeed` conjoins the
step queue: each action that returns from a status update leaves an event `due`,
emitted by the process's next step, and other processes may run in between.
It leaves out `Restart`, after which there are no sockets. Calls of the gateway
that nothing makes (`emitToOrganization`, `disconnectChatMembers`, the counters)
are left out.

### The scripts

`PhotoDownload`: batches of `BATCH_SIZE`, each download opening (and so
truncating) its file first; a cut connection may leave a promise that never
settles, which ends the script in silence. `QuestionImport`: one action per
request and file of the scraper, and of the migration a read of the files and a transaction
with an action per table; a lesson stands for its questions. `Seeding`: one action per call, in the
order of the script; `Restricted` and the cascades are those of the schema's foreign keys.

## Runs

| Run | Instance | What it shows |
|---|---|---|
| `exams_overlap` | one user, two clients, two exams of one minute, RANDOM | overlapping starts, resumes and finishes: no client has two active exams for one target; nothing expires early; an ended exam that no running request found active is final; a start that finds an overdue exam ends it |
| `exams_serial` | two users with a client each, the bank edited once, every type of exam | with one request per user the service implements `ExamLedger`; exams are well formed though the bank changes between validation and use; a user's requests change only that user's exams |
| `exams_highest_score` | violation | the "highest score" is not the highest percentage |
| `sessions` | one user, two devices, four sessions, one reset | the bound on active sessions; pruning leaves few of those it saw; what has ended stays ended; a reset ends every session it could see; every request ends |
| `sessions_refresh` | violation | a refresh leaves the other sessions active |
| `steps_overlap` | two steps, worker and two requests; process-next with the whole list or with the second step alone; a fault or a crash | a list's steps are started in order; COMPLETED means a handler succeeded; PROCESSING means somebody works on it while the database answers |
| `steps_serial` | three steps, one request at a time, failing handlers and a failing Bull | the sequence implements `StepSequence`, begins no step twice and never gets stuck (`SerialIsSound`), and ends by itself |
| `steps_manual` | violation | a step held by process-next is passed over: the one behind it runs before it has succeeded |
| `users` | seven parts: the cache; codes with one client, with two, with outages; accounts; the period with one administrator; roles | the cache implements `ExpiringMap`; codes of the table and of the cache agree (`CodesAreSound`); verifications that hold every connection and wait for another are ended by Prisma's timeout, so every request ends; one account per address and every failed creation explained; admission rules agree and dates are in order; nothing but the empty list of roles takes permissions from a user, and permissions answered as assigned are held |
| `content` | thirteen parts: files failing in one way and in three; answers with one editor and with two; saved questions exchanged and removed; lists; photos, import and seed, each with fewer faults and with more | an upload answered as stored is; no more than one correct answer, and no update passes through a state exams cannot use; saved questions are what was last answered; walks through pages are exact; imports are whole; reports are true |
| `progress` | six of these parts, smaller, under fairness | uploads, updates that deadlock, downloads run again, scrapes and seeds run again all come to their end |
| `events` | the gateway with two clients; the queue feeding it, one request at a time, and with two requests and process-next | a welcomed client receives every later event of its user in order and no other; a refused one is closed; an event COMPLETED is true; a quiet queue has told all; a client is told the end of a sequence |

Several properties conjoin named parts (`CodesAreSound`, `ToldIsTrue`,
`EverythingEnds`, ...): what each part states is in a comment beside its
definition in the component's module, and most of them have a mutant of their own.

Bounds and why they are enough:

- `exams_overlap`: the races are between two requests about one exam, and a
  duplicate needs two. `MaxTick` 2 with two ticks to a minute reaches the last
  tick before and the first tick after the end of a one-question exam. Expiry
  for longer exams, more clients and other minutes is proved.
- `exams_serial`: two exams and two questions let a start meet an exam of another
  user, of another target and of its own; one edit falls between any two queries.
- `sessions`: all but its liveness is proved for any bounds. `SessionsKept` is 1 there and 2 in the code; with four sessions, one
  kept leaves the same room above the limit that two kept would with five. Two
  requests interleave every statement of a login, refresh and reset.
- `steps_overlap`: a step that skips ahead needs two steps; two requests and
  the worker give three writers of one step. The two lists are the one that holds a
  step's predecessor and the one that does not. After a fault or a crash (`QuietInTrouble`) two of the three
  processes go on, with the whole list: everything beside everything is four times the states, and is proved. One fault or crash reaches every
  catch clause, since a second only ends the processing it is in. Order and
  completion are proved for any number of steps, requests and faults.
- `steps_serial`: three steps have a first, a middle and a last; five job rows
  allow two retries. What the run shows is proved for any number of both, but for the ending.
- `users`: the cache has one key (keys do not interact), two values and a clock
  of twice the time to live, so that a value can expire and be set again; two
  outages let one end and another begin. It is proved for any. Codes: three codes and a
  clock of twice a code's life let a code expire, be replaced and outlive
  another. Two clients share a pool of two connections, so that two verifications hold both and each
  waits for another; more clients and connections only repeat that. What `CodesAreSound`
  states is proved for any of them. Accounts: two
  requests and three rows meet every pair of creations and deletions; addresses
  are in lower case there, for otherwise `create` does make a second account. Access: five moments, a month of two; dates with
  an end alone are not given to `create`, since those are stored unordered. Roles: two
  permissions, one of them granted by the seed's role. The lists of roles assigned are the empty one, which is the only one the
  code accepts and clears the user's roles, and two that it refuses.
- `content`: three uploads meet one another at the making of the bucket. Answers: one
  administrator does everything to two questions; two update and remove the answers of one, whose
  three rows let two transactions lock each other out. Two administrators who create at the
  same time do leave two correct answers, so that is not part of it; the rest is proved for any. Lists: three
  or four rows in pages of two, in the order of creation. Photos:
  four in batches of two, so that a batch follows another and meets what it left. Import: two lessons and two
  scrapes, so that files of two runs can meet; the seed: two permissions, of which the admin role
  lacks one, and three troubles, so that it can be stopped, disturbed and stopped again.
- `progress`: as `content`, with one scrape; strong fairness over more states is what costs time.
- `events`: two clients of two users or of one (the gateway alone is proved for any); one event to each room is enough to
  be lost, doubled or sent to the wrong one. The queue's bounds are those of the step runs, smaller.

`CHECK_DEADLOCK FALSE` everywhere: the bounds stop the systems.

## Fairness

- `Exams`: weak fairness of each client's request step. A handler goes on when its
  query returns; nothing disables it. Clients are free to send nothing.
- `Sessions`: strong fairness of each request's step, for a request that waits for
  a lock is enabled and disabled as others come and go, and PostgreSQL grants
  locks in the order they were asked for. `Rollback` is never required.
- `StepQueue`: weak fairness of the worker and of each request. Bull hands out
  waiting jobs as long as the processor is idle. Retries are never required.
- `OneTimeCodes`: strong fairness of each request's step, as in `Sessions`; a
  connection of the pool is granted in the order of asking. Weak fairness of `TimeOut`: Prisma
  ends a transaction after five seconds unless it has ended by itself. Without it verifications that hold all
  connections and each ask for one more would wait for ever.
- `AnswerBank`: strong fairness of taking a row and of the commit, weak fairness of the
  rollback: PostgreSQL always ends a deadlock.
- `Files`: weak fairness of each upload's step; no fault is required.
- `PhotoDownload`: somebody runs the script again and again, what it awaits settles, and the
  server does not refuse a photo for ever (strong fairness of `Downloaded`). Only
  without cut connections: a promise that never settles has no fairness.
- `QuestionImport`: weak fairness of the scraper's step. `Seeding`: weak fairness of the
  script's step and of running it until it has completed.
- `Gateway`: weak fairness of each `handleConnection`: what it awaits returns. `StepFeed`:
  that, and the fairness of the queue, whose update that returned is followed by its emission.

## What is proved

`ExamsProofs` proves, for every finite set of questions and any users, clients, bodies,
minute and bounds (from the assumptions named in `Exams` alone):

- `TypeCorrect` (`TypeOK`): the shape of the tables; a request that updates an exam by
  id updates one that exists.
- `OneActiveEach` (`OneActivePerClient`). Not inductive as it stands: that a new exam
  duplicates none of its client's own follows from what `findActiveExam` saw three
  queries earlier. `NothingOfItsOwn` carries that along: while a client is between
  the search and the insert, no exam it opened matches its body, for only its own
  insert could create one and others can only end it.
- `NeverExpiredEarly` (`ExpiredNeverEarly`): inductive with `TypeOK`; the arithmetic
  of the floor is `NoMinuteLeft`. It does not need the exam to be active still.
- `SettledForGood` (`SettledIsFinal`): a search finds active exams only, so nobody
  comes to carry a settled one.
- `OwnersOnly` (`OnlyOwnerChanges`): `CarriesItsOwn`, a request carries exams of its
  user only, is established by the queries (`FoundExams`) and kept because an exam
  never changes hands (`FieldsStay`).
- `WellFormedPapers` (`PapersAreWellFormed`): `Validated` says what the request still
  has of the two validating queries; the bank may change under it.
- `SerialImplementsLedger` (`LedgerSpec`), assuming
  `OneClientPerUser`: then what a request found active is active when it updates it
  (`CarriesActive`), for every request that could have ended it belongs to the same
  user, hence to the same client. Each step of the table is one step of the ledger
  or none. Without the assumption the theorem is false: two tabs complete an exam
  twice.

`NextExams` says what one step can do to the table: nothing, expire or complete
the row of the request that runs, or add an active row. The proofs about the
table go through it.

`SessionsProofs` proves, for any users, clients and bounds and whatever transaction is rolled back
at whatever statement:

- `TypeCorrect` (`TypeOK`).
- `ResetIsComplete` (`ResetEndsSessions`). The update of a reset waits for locks between choosing its
  rows and writing them. `EndsAllSeen` says what it relies on: a row that its snapshot held and that it spares has
  ended and, since nothing revives a session, stays so.
- `EndedSessionsStayEnded` (`OverIsFinal`): what has ended stays ended, and a refresh whose
  session ended while it waited issues no token for it.
- `PruningIsThorough` (`PruningLeavesFew`): the rows to keep are read in one statement and the others ended
  in a later one, which names those to keep and so ends what was committed in between. `SparesFew` says
  that what the update saw and spares is what was read, at most `SessionsKept`, while it waits for
  its locks and until the commit.
- `ActiveSessionsBounded` (`ActiveBound`): the bound is `SessionsKept` and one for each client. Not
  inductive: a transaction commits its own session beside those it spared, while others have
  done the same. `BoundInv` names for each client one session, its last, such that an active
  session that is nobody's last has at most `SessionsKept` active ones up to it; `SparesFew` gives the count at each
  commit. That a client's last may be replaced only by its own commit is what makes the bound hold
  for any number of overlapping logins.

`StepQueueProofs` proves, for any number of steps, requests, faults and crashes:

- `TypeCorrect` (`TypeOK`).
- `CompletedMeansSucceeded` (`CompletedHasSucceeded`). The strengthening says that
  a process about to write COMPLETED holds a step one of whose handlers has
  succeeded; the set `succeeded` only grows.
- `StepsStartInOrder` (`ListsRunInOrder`): of the list its execution was called with, a step has only
  started ones below it. No more is true: a process-next that names step 2 alone starts it first. Not
  inductive: it says nothing of who is about to
  start a step. The strengthening (`OrderInv`) says that whatever is to be executed, be it a job in
  Bull, a step the worker or a request holds or one for which a job is being created,
  has only started steps of its list below it, and that a step shown as PROCESSING or COMPLETED was
  started. A step comes into play by its predecessor's completion, by the lookup of the first
  pending one, or by a retry of a failed one, and steps never become unstarted.
- `ProcessingIsProcessed` (`ProcessingIsAlive`): a step leaves PROCESSING only by the
  writes of a process that holds it, and every way out of a handler goes through one of them unless the
  database fails or Node crashes; so a step shown as PROCESSING without a process counts one of these.
- `SerialStaysSound` (`SerialIsSound`: nothing gets stuck and no step is begun twice), `QueueImplementsSequence` (`SequenceSpec`) and
  `AloneRunsInSequence`, assuming `Undisturbed`, which is what the run `steps_serial` has: one request at a
  time, no process-next, no crash and no failing database; Bull and handlers may fail. The
  invariant is a picture of the sequence: it has a front, the steps before it
  are COMPLETED and those after it PENDING, and one token stands for the step's turn, a job in
  Bull or a process at work. Each action moves the token or the front; each is then one step of
  `StepSequence` or none. `AloneRunsInSequence` is the comment at `step-queue.service.ts:185`, whose
  violation with process-next is a finding below: the theorem says that nothing else breaks it.

`OneTimeCodesProofs` begins with the cache: `StoresRecent`, every value in either store was set and has not been
removed from both since, with an expiry no later than its time to live; and from it
`CacheImplementsMap` (`Implements`): every step of the cache, outages and
restarts included, is one step of `ExpiringMap` or none. The seconds of one store and the
milliseconds of the other agree because `Ttl` is a whole number of seconds (`TtlAssumption`).
`CodesKeepTheCache` carries this over to the codes, whose every step is one of the cache's or leaves it.
Of the codes (`CodesAreSound` is the conjunction of what follows, in the instances of the run) it proves

- whatever fails: `TypeCorrect`; `TokensFollowVerification` (`TokensAfterVerification`);
  `OneUnderWay` (`OnePendingPerUser`), where `RowHeldOnce`, the row of a user is held by one transaction,
  and the fact that a pending code belongs to a transaction that holds it are inductive together; `CodesBounded`
  (`CodesPerUser`): every code that can be used is the last one of some client, which
  generates no other, because `getNotExpiredOtpCode` would find this one, and a client that
  found no user finds, at the insert, that the user exists by now and fails;
- while nothing fails (`Calm`: no outage, restart or rollback, and a row lives no longer
  than its copy in the cache): `HandedOutCodesWork` (`StoredCodesWork`). With an outage
  the code is handed out again and refused (see below), and the part with one checks the tokens alone;
- with one client to a user besides (`OneClientEach`): `ResetEndsCodes` (`DeletedCodesAreDead`) and
  `CodesResetOnce` (`OneResetPerCode`). A reset deletes every row and one copy; `DeadInv` says that its
  code is the only one that can still be used. Two clients can reset with one code, and two codes generated at once
  leave the second in the cache.

`UserProofs`, of the access period: `AccessTypes`; `AccessAgreement`, the four copies of the rule admit the
same users at the same moments, whatever dates are absent; `OneAdminKeepsOrder`, with
one administrator at a time and no creation with an end alone the start precedes the end, where the
strengthening is that what is about to be written was compared with the row as it still is;
`AccessStaysSound` (`AccessIsSound`) puts both together. The two assumptions of
the last two are needed: without either the code stores a period that ends before it starts.

Of accounts, for any clients, addresses, phone numbers and Google accounts: `AddressesAreUnique`
(`OneAccountPerAddress`) and `AccountFailuresExplained` (`FailuresAreExplained`). `AccountsInv` holds the unique
keys over deleted rows too (`KeysAreUnique`); that only deletions stamp an e-mail and that a linked account has
the address of its Google account (`LiveIsPlain`); and what a request still knows after its look
(`Informed`): a creation, that no row of that time has its address or phone number; a link, that of
those rows only its target can have the address, also after somebody has deleted the target. A write keeps all of it because a row in use
never changes its address or phone number (`OldRowsKeep`). The first assumes addresses in lower
case and fails without, as the code does.

Of roles, for any lists: `PermissionsStay` (`OnlyEmptyListTakes`), `AssignedPermissionsHeld` (`AssignedIsHeld`) and
`RoleFailuresExplained`. A list with a role in it is refused and rolled back as a whole, roles keep what they
grant, deleted ones too, and a user's own permissions are only added to: what a user loses is what its roles
gave when an empty list clears them. What an assignment has read as known is therefore the user's still when it
inserts the rest, unless the roles it was read from have been cleared in between: those permissions are answered as
assigned and are not held, and `AssignedIsHeld` excepts them.

`ContentProofs`, of uploads: `TypeCorrect`; `AnsweredStays` (`AnsweredIsStored`), whatever fails or
crashes: the strengthening is that an upload at the writing of its path has stored its object, and
nothing removes objects; `RolledBack`, while the database answers a failed upload leaves no row.

Of the lists, for any limit, any rows and whatever is added, removed or given a deleted question between two
requests or between the two queries of one: `NoRowTwice` (`TwiceOnlyAfterInsertion`), `NoRowMissed`
(`MissedOnlyAfterRemoval`), `ListedOpens` (`ListedCanBeOpened`). Neither of the first two is inductive: they compare what
was met with rows that come and go. `Place` is the number of rows up to a given one, and `Reached` the number
of places the requests have gone through. `MetOnce` says that what was met is no further in the
list than `Reached`, so the next page, which holds the places after it (`PageHolds`), meets none of it again; `MetAll`, that whoever
was there from the start and has come within `Reached` was met, and that a total read for a page is at least
the place of each. A removal only lowers places (`PlaceGrows`), and an insertion changes none unless the newest
come first (`PlaceStays`); what is left is the arithmetic of the last page (`LastPageHolds`). Both assume
`ListsAreOrdered`: roles, and users unless sorted, have no order in the code and their pages may
overlap (see below). `ListedOpens` leaves out roles, which are listed when deleted, and tickets, no
lookup of which succeeds.

Of the scripts, wherever they are stopped and run again:

- `StatisticsAddUp` (`StatsAddUp`), for any photos and batch: what a run has counted, what it has not come to
  and what its batch awaits are all the photos (`PhotoInv`). `SuccessIsTrue` (`ReportIsTrue`)
  assumes that a download succeeds or is refused: one that was cut leaves a part that the
  next run takes for the photo (see below), and `PhotosDone` is not kept.
- `ImportsAreWhole` (`AllOrNothing`, `SubjectsAreThere`): the transaction inserts what was read before it
  began, and the subjects of the questions were checked then (`ImportInv`). `ScrapesFit` (`FilesFit`): the scraper asks for the questions of
  exactly the lessons it has written (`FilesMatch`); it assumes that nobody stops the scraper, which
  writes one file long after the other.
- `SeedCompletes` (`CompletedIsSeeded`): `SeedStages` says of each stage which tables are
  empty still and which rows are made, so that a run begun on what a stopped one left, among users who
  register meanwhile, has made everything when it prints, or fails before it does.

`PhotoTypes`, `ImportTypes`, `SeedTypes` and `ListTypes`, with `AccountsTypes` and `RolesTypes` in `UserProofs` and `SavedTypes` in
`QuestionProofs`, prove the parts of the type invariants that the runs check together.

`QuestionProofs`, for any administrators, questions and bounds: `OneCorrectAnswer`
(`OneCorrectAtMost`) and `FitQuestionsStayFit` (`FitStaysFit`). The table
`answers` is the committed one, so `OneCorrectAtMost` is said of every state; it is inductive
with what each transaction relies on (`EditorOK`): of an update, each other live answer of the question
is one it has still to write or has locked (`Covered`), so its commit clears them all, and its locks are on
answers of that question (`LocksOK`); of an insertion, nobody else edits, so what was looked
for is as it was (`Ready`). They assume the initial answers sound and either one
administrator or no creations (`Setting`), as the parts of the run `content` do: two
administrators who create at once store two correct answers (see below), and the proof fails without it.

Of saved questions, for any devices: `QuestionsSavedOnce` (`SavedOnce`) for all operations, by the unique key; that
what was told is saved (`ToldStaysSaved`) where `update` and `remove` are not both called, for
`update` answers for a row that `remove` has marked in between (see below); and that a toggle that runs alone
succeeds (`TogglesAloneSucceed`) where nothing is removed by id, for a marked row keeps its key.
`AloneOK` is the strengthening: what the toggle looked for is as it was. Both proofs fail without these premises.

`GatewayProofs`, for any sockets, users and instances: `TypeCorrect`; `RoomsAreTheirOwn`, a room holds open
sockets of its user only; `RefusedHearNothing`; `DeletedAreNotWelcomed`, a socket whose user
was deleted before `handleConnection` looked is refused for good (`Doomed` is closed under every step); and
`WelcomedMissNothing` (`NothingMissed`): a welcomed socket is in its room, so what it has got is what was
sent since it joined. This one assumes `OneInstance`, for no adapter carries events from one
instance to another (see below), and fails without it.

Of `StepFeed`, in `StepQueueProofs`, which instantiates `GatewayProofs` with the queue's events: each step is one of the
queue or of the gateway (`FeedRunsBoth`), so the invariants of both hold in it, and `FeedMissesNothing` follows on one server.
`CompletedEventsAreTrue` (`CompletedIsTrue`) needs of the queue only that whoever marks a step
completed has had its handler succeed. `QuietClientsAreTold` (`QuietIsTold`) holds under the premises of
`SequenceSpec`; `OutInv` says why: every status but PENDING was announced, and a step of which there was
an event is PENDING only while a retry is on its way to it.

The invariants of `MCUsers`, `MCContent` and `MCEvents` are conjunctions over the instances of a run
(`ToldIsTrue`, `ImportIsWhole`, `CodesAreSound`, ...). The theorems are about their conjuncts, in
the modules they come from and for every value of the constants; of the instances there is nothing left to prove.

Only model-checked: what the prover cannot do, which is all liveness (`OverdueResumeEnds`,
`EveryRequestEnds`, `SequenceEnds`, `EverythingEnds`, `ClientsAreAnswered`).

## Where the code disagrees with itself

Three of these have a run that shows them:

- `exams.service.ts:84` sorts by the number of correct answers, yet what is
  reported as the highest score is that exam's percentage; exams differ in length
  (`HighestScoreIsHighest`).
- `auth.service.ts:272` compares `userId` with a session id, so "Deactivate all
  existing sessions for this user" deactivates none (`RefreshEndsSessions`).
- `step-queue.service.ts:197`: the proper sequence of the comment at line 185 is not kept beside
  process-next, even with the whole list. It takes a step whose job does not exist yet, and will fail at line 228;
  while that step is PROCESSING the worker's `createAndQueueNextJob` passes over it and queues
  the step behind, whose handler then starts first (`InSequence`).

The others were met while modelling. The models do what the code does, and the
properties state what is left:

- Codes. `auth.service.ts:501` hands out the unexpired code of the table, but codes are
  checked against the cache, which an outage or a restart has emptied: the code is refused
  until its row expires. `mail.service.ts:78` answers tokens made from the user as
  it was before verification, so they say `isVerified: false` and the guard refuses them.
  As many verifications as the pool has connections hold
  all of them and wait for another (`mail.service.ts:59`, inside the transaction): Prisma's timeout ends them, and
  their updates may go through afterwards, and the users are verified though told that it failed.
  `mail.service.ts:109` reads `user_id` of a row that has `userId`: no code is ever sent again.
- Accounts. `users.service.ts:213` frees the e-mail of a deleted user but neither phone
  number nor Google id, which the look at line 96 then does not see and the key refuses.
  `create` and `login` take the e-mail as typed (`:99`, `auth.service.ts:188`), `register` in
  lower case: one address gets two accounts, and credentials just registered are refused.
- Access. `users.service.ts:122` compares dates only when both are given, so that an end in
  the past is stored; `:275` compares with a row read before, so that two administrators store a start after
  the end. `auth.guard.ts:23` means to skip administrators by a role that is never set.
- Answers. Two creations both find no correct answer (`answers.service.ts:109`); an
  answer inserted during an update keeps its flag (`:225`); a deleted
  answer can be made the correct one (`:212`).
- Lists. Users and roles have no order unless asked for one (`users.service.ts:48`), so pages may overlap;
  deleted roles are listed (`roles.service.ts:51`); `tickets.service.ts:80` mixes `select`
  into `include`, and every lookup of a ticket is refused.
- Saved questions. `remove` keeps the unique key (`saved-questions.service.ts:75`), so the next
  toggle fails; `update` (`:190`) answers as saved a row removed in between.
- Roles. Permissions of deleted roles still count (`roles.service.ts:247`); `assignRolesToUser`
  always fails with a role in its list (`:205`); a permission that a role grants is not
  stored (`:301`) and is lost when the user's roles are cleared; new roles have no permissions (`:34`).
- Files. The catch deletes the row with the database that has just failed (`files.service.ts:61`); of two
  first uploads one is refused because the bucket exists by then (`minio.service.ts:69`).
- Events. `RedisIoAdapter` is never installed, so a client hears its own instance only
  (the repository's README at line 277 says otherwise); `step-queue.service.ts:157` and retries write a
  status without emitting it.
- Scripts. A partial photo is taken for the photo (`download_photos.js:123`);
  `files_created` names files that were not written (`scraper.js:213`); once a job exists, the seed
  fails half way for good (`seed.ts:34`).

What the properties do not promise, because the code does not: two clients of
one user can open two exams for one target; a login that checked the old
password can finish after a reset; a step marked completed can become failed; a
step whose processing a crash cut twice stays PROCESSING and retry refuses it.

## Not modelled

- Statistics other than the highest score, and what `finish` makes of ids that are not
  the exam's: single reads and sums without interleaving worth checking.
- Lists of ids that mix steps of several sequences, which process-next would order by step number.
- A crash between the creation of a sequence and its first enqueueing: it leaves a sequence
  nothing starts, in one step.
- The single-statement writes of questions, subjects and tickets; their effect on exams is
  `EditQuestion` and `RemoveTarget`.
- Blocking after failed attempts: `blockedAt` is set by no call that runs. `users.update` returns
  before its first statement. Role updates are reached by no request.
- MinIO operations nothing calls; the stream and the history row of a download; the collection of photo names.
- The expiry of JWTs and the second import of the same questions (which inserts everything again).
- Mail transport, logger, translation files, configuration, Swagger, filters and interceptors:
  input and output without state that anything depends on.

## Plan

Done: every component of the inventory with state is modelled. Next, in order:

1. Composition of `AnswerBank` with `Exams`: a question with two correct answers refuses every
   exam it is in; of `Accounts` with `Sessions`: what tokens of a deleted user still do.
2. The statistics of exams, with exams that end between its queries.
