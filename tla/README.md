# Sphinx backend: models, model checking and proofs

This directory holds a TLA+ development of the Sphinx REST backend: a C++ server
(`src/src/backend`, `src/src/db`) that keeps users, courses and modules in a
PostgreSQL database (`src/docs/db.pgsql`) and offers them over HTTP
(`src/docs/rest_api/sphinx-rest.raml`). Paths below are relative to `src/`.

## The system

| Part | State | Operations | Interacts with |
|---|---|---|---|
| Routes and handlers, `src/backend/backend_app.{h,cpp}` | none between requests; per request the batch being created | GET/POST/PUT of seven routes | Crow calls them, they call the DAO |
| Batch creation, `backend_app.h:121-184` | position in the batch, keys received | `create_entities`, `update_subentities`, `create_subentities` | one INSERT per entity, no transaction |
| Request bodies, `backend_app.h:187-241`, `json/json_serializer.h:97-137` | none | `deserialize_entities`, `from_json` | throw, abort the process, or give entities |
| Response bodies, `json_serializer.h:33-94`, `backend_app.h:50-68` | none | `to_json`, `response` | |
| DAO, `backend/dao.{h,cpp}` | none | one statement per call | DbConnection |
| DbConnection, `src/db/db_connection.{h,cpp}` | one libpq connection | connect once, `exec`, `get_all`, `get_all_where`, `get_by_id`, `exists`, `insert` | PostgreSQL |
| Results, `db/db_utils.{h,cpp}` | none | rows to entities, NULL handling | |
| Entity metadata, `backend/model/*.h`, `db/model_*.h` | compile-time tables | columns, keys, links | used by all conversions |
| Database, `docs/db.pgsql` | tables, sequences | INSERT, SELECT | shared by all processes |
| Start-up, `backend/main.cpp`, `application.{h,cpp}`, the constructors of `BackendApp` and `DbConnection` | command line, configuration | options, configuration file, loggers, settings, connect, listen, end | runs before the first request; reads a file others may edit, takes a port others may want |

A process serves all its connections on one worker (`app_.port(..).run()` with no
`multithreaded()`), so inside a process requests do not overlap. Several processes
may share the database, and between two statements of one handler the others run.

What is hard: batches are not transactions, so a failure in the middle leaves a
part behind; a connection may break, or a process end, before or after a statement takes
effect, and the server may run it only when its request has long been answered; a
broken connection is never replaced; a process may end at any moment, also by its own
fault; keys come from sequences shared by all processes; clients repeat requests; values
are found by the position of their column; settings are read one after the other.
`PROJECT.json` lists each of these hazards at its line with the properties that
watch over it.

What makes each part correct: a *batch* is stored from its beginning, each entity
once, modules under their own course, completely if the answer is 201; a *connection*
that is dead never looks like success or like an empty table; a *query* shows what
clients have been told; a *request* gets an answer or is cut off; a *body* that is
accepted has a value of the right type for every column; a *value* is shown in the
column it was sent for; a *process* that serves uses the settings of one version of its
file, and the connection it came with.

## Modules

| Module | Models | Built on |
|---|---|---|
| `Entities` | `model.h`, `from_json`, `deserialize_entities`, `to_json` as operators | |
| `Postgres` | the three tables, their constraints and sequences; one statement is one step | `Entities` |
| `DbConnection` | connecting, `exec` and its ways to fail, reading of results | `Postgres` |
| `BackendApp` | processes, requests, handlers; the properties | `DbConnection` |
| `BackendInvariants` | the inductive invariants of `BackendApp` | `BackendApp` |
| `BatchCreate` | abstract: what creation promises, without processes, statements or cursors | |
| `Lifecycle` | abstract: what a process is to the others | |
| `BackendRefines` | `BackendApp` as a `BatchCreate` and as a `Lifecycle` | `BackendApp`, both by `INSTANCE` |
| `Startup` | from `main` to serving, and the end; as a `Lifecycle` | `Lifecycle` by `INSTANCE` |
| `RowMapping` | columns by position: entities to parameters, rows to entities | `Entities` |
| `MCBackendApp`, `MCStartup`, `MCRowMapping` | instances for TLC | |
| `EntitiesProofs` | lemmas: what an accepted body decodes to | `Entities` |
| `BackendAppProofs` | theorems: types, the order of batches | `BackendInvariants`, `EntitiesProofs` |
| `BackendBatchProofs` | theorems: what is stored and answered of batches | `BackendAppProofs` |
| `BackendReadsProofs` | theorems: what queries show, dead connections | `BackendBatchProofs` |
| `BatchCreateProofs` | theorem: `BatchCreate` keeps its promise | `BatchCreate` |
| `BackendRefinesProofs` | theorems: both refinements, and the promise of the handlers | `BackendRefines`, `BackendBatchProofs`, `BatchCreateProofs` by `INSTANCE` |
| `StartupProofs` | theorems about `Startup` | `Startup` |
| `RowMappingProofs` | theorems about `RowMapping` | `RowMapping`, `EntitiesProofs` |

`Lifecycle` is the seam between start-up and service. `BackendApp` starts a process in
one step (`Boot`) and ends it in one (`Crash`, or an abort); `Startup` shows the stages in
between. Both implement `Lifecycle`: requests are met only by a process that serves, it
serves with a connection that works or is broken from the start, and a broken one stays
broken until the end.

**Entities.** A string is a model value; a JSON document a record with a type and
members. `Outcome` says whether reading a body succeeds, throws (answered 500) or
fails an assertion inside the JSON library, which ends the process: `data[name]` on
a const object without that member. Absent optionals are `NULL`, absent foreign
keys 0, numbers are narrowed to `MaxInt` by `Int32`. `MaxInt` plays 2^31-1.

**Postgres.** `rows` is the set of all rows; each carries which request stored it and
as which place (i, j) of its body, as history. A refused INSERT may or may not use up
a key of the sequence. `serial` stops at `MaxInt + 1`. `adrift` is the set of INSERTs that
were sent and that nobody waits for any more: the client's side of the connection is
gone, and the server may run such an INSERT at any later moment (`RunsAdrift`) or never.
An INSERT draws its key and adds its row in one step: between the two nothing can be seen of it.

**DbConnection.** `Connect` can fail and leaves the process running. `ExecLost` is the
connection that breaks while a statement is outstanding: an INSERT is then adrift, and was
run before `PQexecParams` returned its error, or runs afterwards, when the 500 may be sent
and the body of the request forgotten, or never. `LogIsUndefined` is the undefined
dereference in the log line of `exec` (`db_connection.h:87`): the statement goes on, an
exception leaves, or the process ends. `CStr` is a string up to its first NUL character,
which is all that `make_pq_args` hands over (`data()`, `db_connection.cpp:71`); the body
of the answer to `POST /courses` is made of the entities in memory and still shows the
whole string.

**BackendApp.** A response has a code and a body; a body has a type (`"none"`, `"null"`,
`"array"`, `"object"` or `"scalar"`) and the set of the entities in it: what a client can
tell apart, and that `to_json` makes `null` of an empty list. Correspondence of the actions:

| Action | Code |
|---|---|
| `Boot`, `Crash` | construction of `BackendApp`; the end of the process, which can leave the INSERT it waits for adrift |
| `RunLate` | the server runs an INSERT that is adrift |
| `Send` | a client's request reaches a listening process |
| `AnswerAtOnce` | `/test`, PUT, POST `/users_search`: handlers without database |
| `RejectBody`, `AbortOnBody`, `CreateNothing`, `StartCreate` | the outcomes of `deserialize_entities` |
| `StartQuery` | the GET handlers |
| `LogThrows`, `LogCrashes`, `ExecuteOnDead`, `Execute`, `ExecuteLost` | `DbConnection::exec` |
| `StatementFailed` | the throw of `get_rows`, `get_row`, `get_scalar`, `insert` |
| `UserNotFound` | `find_by_id(id).value()` of nothing |
| `QueryDone` | the answer of a GET |
| `NextSubentity`, `NextEntity`, `BatchDone` | the loops of `create_entities` and the answer |

**BatchCreate.** A body is a set of places (i, j). `Make` adds the row of the next place,
under a new key and, for a subentity, under the key of its entity; `End` tells "created"
only if nothing is missing; `CutOff` ends any number of requests. A request that ended other
than as created may get one more row (`late`), or never does (`Forgo`). `BackendRefines` maps
the rows of `Postgres` (with their history of request and place) to what was made, and
phase and answer of a request to its outcome; `late` are the ended requests of the INSERTs
that are adrift.

**Startup.** One action per stage of the constructors, in their order, each with the one
that rejects: `ParseOptions`, `ParseConfigFile`, `ConfigureLogger`, `PrepareDbConfig`,
`Connect`, `ReadServer`, `Run`, then `Stop` (a signal: `run()` returns) and `Destroy`
(`~DbConnection`). A rejection is an exception nobody catches, so the process ends.
`Connect` may fail and goes on. A setting is one value or `BAD`, absent or of another
type. `loggers` is the set of the levels in it, none if it is absent: `configure_logger`
reads it with `operator[]`, which gives null, and loops over it zero times, so only a
level of another type (`BAD`) ends the process. Settings used together (host, user,
password and name of the database) are one. Ports are narrowed to 16 bits (`Ports` plays
2^16); port 0 is any free one. The file may be edited at any moment; `seen` keeps, as
history, the versions there were since a process was started.

**RowMapping.** `Entities` and `DbConnection` speak of columns by name; here they are
what the code makes of them: the order of members (`Columns`), the numbers in the column
types (`Number`), the placeholders of `prepare_insert_query`, the positions `PQfnumber`
finds, and texts in between (`Decimal`, `CStr`). The queries are those of the DAO: all rows of
a table (`SelectAll`: `get_users`, `get_courses`, `get_modules`), and those with a value in a
column (`SelectWhere`). One backend uses the database, and an
operator may create a table anew with its columns in another order (`Rearrange`).

Definitions whose comment begins with "Mutant" are not part of the model: each is one
plausible bug, put in place of the definition next to it to show that a property
would notice.

## What is checked

| Run | Instance | Shows |
|---|---|---|
| `create` | 2 processes, 2 requests; bodies of 5 and 3 entities on two levels, two modules that differ, one with a course the database refuses, one string with a NUL character | `StoredInOrder`, `StoredOnce`, `ModulesUnderTheirCourse`, `CreatedIsStored`, `RepeatedCoursesAreNew`, `FailedIsIncomplete`, the inductive invariants `IInv` and `BatchInv`, and that `BackendApp` implements `BatchCreate` and `Lifecycle` (`CreationSpec`, `ProcessSpec`) |
| `users` | 2 processes, 3 requests, 2 keys left | `UsersNotDuplicated` for repeated and competing requests |
| `reads` | 2 processes, 3 requests out of 2 POSTs and 6 GETs | `ReadsSeeKnown`, `DeadConnectionAnswers500`, and the inductive invariant `ReadInv` behind them |
| `bodies` | 2 processes, 2 requests out of 32, one key left for courses | `TypeOK` over every route and every unsound body |
| `ends` | 2 processes, 2 requests, no symmetry | `EveryRequestEnds` under `FairSpec` |
| `start` | 1 process, 3 command lines, 8 files, one of them without loggers, edited at any moment | `SettingsOfOneFile`, the inductive invariant of `Startup`, `ProcessSpec`: it implements `Lifecycle`, and `StartEnds` under `FairSpec` |
| `columns` | 3 rows out of 5 bodies, 2 orders of the columns of users and modules | `ShownAsSent`, and the inductive invariant `RInv` behind it |
| `doc_user_list` | | refutes: GET /users answers an array |
| `doc_course` | | refutes: GET /courses/{id} answers a Course |
| `doc_modify_user` | | refutes: PUT /users/{id} modifies the user |
| `doc_sample` | | refutes: the body of `samples/create_users.json` is created |
| `doc_user_type` | no crashes | refutes: a `User` of the RAML file can be posted (it lacks the names, and the process ends) |

**Bounds.** Two processes are all it takes for an INSERT of one to fall between two of
another, and for a retry to go elsewhere. Two batches of which one has two courses
with two and one modules visit every kind of move of the cursor. `reads` needs three
requests: one that creates, one that reads it (and so makes it known), one that reads
after that. `MaxInt` bounds the keys; it is small in `users` and `bodies` so that a
sequence runs out and large enough elsewhere not to. The number of requests bounds
behaviours; crashes and restarts are unbounded. Processes are interchangeable, and so
are requests, hence the symmetry of the safety runs. In `start` each file is broken in
one setting, so that every stage rejects one; other processes matter to one that starts
only by the ports they take, and `RunFails` lets any port be taken, also by other programs.
`columns` has a course and modules of it, a user with and one without `student_id`; three
rows are enough for a query to find two and leave one. No run turns deadlock checking
off: a process can always end or start.

**Fairness.** `FairSpec` assumes weak fairness of `Work(s)`, the steps a running worker
takes by itself. It is justified because the worker is a thread that runs whenever it has
something to do, and because libpq answers a statement or notices that its connection is
gone (there is no timeout of the backend's own: if the operating system never reports the
loss, the worker waits, and everything behind it waits, too). Nothing is assumed of
clients, crashes, restarts and INSERTs that are adrift. A request may wait while others
are handled, but as a behaviour has finitely many requests the model says nothing about
starvation under an endless stream of them.

`FairSpec` of `Startup` assumes weak fairness of `Step(s)`, what a process does by itself
up to serving, and after serving until it is gone: one thread that runs, and
`PQconnectdb`, which returns sooner or later (the connection string has no
`connect_timeout`, so how late is up to the operating system). Starting, stopping,
killing and editing are left to chance.

**Remarks on what was found.** Besides the refuted statements: `POST /courses/<int>`
creates modules under the `course_id` of the body and ignores the number in its path
(the RAML file has `/courses/{course_id}/modules` instead); the `order` of a module, which
the RAML file requires (`docs/rest_api/sphinx-rest.raml:40`), the sample shows
(`samples/create_courses.json:11` and `16`) and the schema has a column for (`docs/db.pgsql:44`),
is none in `model.h`: `from_json` drops it, so the sample is not stored as it is sent, and
`CreatedIsStored` speaks of a body as `from_json` read it; `--help`, which is to
"Display help information" (`application.cpp:33`), is only stored, and a process given it
and `--config` serves; a repeated `POST /courses` creates the courses twice; a string with
a NUL character is stored cut and reported whole; a foreign key beyond 32
bits is narrowed, possibly to that of an existing row, and so is a port. `connect` gives
`conn_` a deleter that logs, and `logger_` is destroyed before `conn_`
(`db_connection.cpp:14`): undefined, but at the very end of the process.

## What is proved

Every safety property of a passing run, and every inductive invariant, is a theorem: TLC
shows it on a small instance, TLAPS for any sets of processes and requests, any bodies, any
initial rows and any `MaxInt`.

| Theorem (module) | States |
|---|---|
| `Invariance`, `TypeCorrect`, `BatchesAreStoredInOrder` (`BackendAppProofs`) | `IInv`, `TypeOK`, `StoredInOrder` |
| `BatchInvariance` (`BackendBatchProofs`) | `BatchInv` |
| `EntitiesAreStoredOnce`, `ModulesAreUnderTheirCourse`, `CreatedMeansStored`, `RepeatedCoursesGetNewKeys`, `UsersAreNotDuplicated`, `FailuresAreIncomplete` (`BackendBatchProofs`) | `StoredOnce`, `ModulesUnderTheirCourse`, `CreatedIsStored`, `RepeatedCoursesAreNew`, `UsersNotDuplicated`, `FailedIsIncomplete` |
| `ReadInvariance`, `DeadConnectionsAnswer500`, `ReadsShowWhatIsKnown` (`BackendReadsProofs`) | `ReadInv`, `DeadConnectionAnswers500`, `ReadsSeeKnown` |
| `PromiseKept` (`BatchCreateProofs`) | the `Promise` of `BatchCreate` |
| `ImplementsBatchCreate`, `ImplementsLifecycle`, `HandlersKeepPromise` (`BackendRefinesProofs`) | `CreationSpec`, `ProcessSpec`, and `Promise` of the handlers |
| `Invariance`, `OneFile`, `ImplementsLifecycle` (`StartupProofs`) | `IInv` of `Startup`, `SettingsOfOneFile`, `ProcessSpec` |
| `RowInvariance`, `EntitiesAreShownAsSent` (`RowMappingProofs`) | `RInv`, `ShownAsSent` |

**Bodies.** `EntitiesProofs` proves that an accepted body decodes to a sequence of entities
with a value of the right kind in every column, one level of subentities included
(`DeserializeType`): a number of 32 bits in a foreign key, nothing only in an optional
column, a string elsewhere (`FromJsonValue`).

**The order of a batch.** `StoredInOrder` is not inductive: nothing in it says that the
row an INSERT is about to store is the next one. `IInv` adds this (`CursorAt`: all places
before the worker's cursor are stored, and its own once a key came back), what makes the
cursor a place of the body of the one request the worker handles (`WorkerAt`), that
nothing is stored for a request before a worker turns to it (`RequestAt`), and that all
places before that of an INSERT which is adrift are stored (`AdriftAt`), so that it may
join at any later moment. Different workers never handle the same request because a
request has one host. The proof groups the actions by effect: `RespondStep`, `StopStep`,
`BootStep`, `SendStep`, `StartStep`, `StatementStep` (with `RunsEffect` about the
database), `ContinueStep` and `LateStep`, each with the frame lemmas `WorkerFrame` and
`OrderFrame` for everything the step leaves alone.

**What is stored and answered.** `IInv` says that something is stored at the places before
the cursor; `BatchInv` says what, and that there is nothing else. Keys of a table are
below its sequence and not used twice (`KeysOnce`), rows that requests stored differ in
the UNIQUE columns from all others (`UniquesOnce`), the row of a place has what the INSERT
of that place wrote, a module under the key of the row of its own course (`StoredAt`),
nothing is stored at or behind the cursor unless the INSERT there ran (`BatchAt`), the
keys a worker holds are those of the rows of its entities, in their order (`BatchAt`), and
a 201 was given when all of the body was stored, with those keys (`AnsweredAt`). The
exception in `BatchAt` is the lost reply: over a broken connection the place of the cursor
may be stored although the INSERT failed. No two INSERTs of one request are adrift, what
is adrift comes behind all that is stored, and its request was not answered 201 and has no
worker but one that is about to fail (`AdriftOnce`); so a place is stored once also when
its INSERT runs late. The six properties follow from `BatchInv`: `StoredOnce` is a part of
it, `RepeatedCoursesAreNew` holds because the reported keys are those of rows, of which
two have different keys, `UsersNotDuplicated` because the first user of the one body and a
row of the other would share a unique `email`, and `FailedIsIncomplete` because over a
working connection the place whose INSERT failed is not stored.

**Reads and dead connections.** Over a broken connection a worker has no result but an
error (`SessionAt`), which is all `DeadConnectionAnswers500` needs. For `ReadsSeeKnown`, what
was known when a query was sent is still there (`KnownAt`: rows are never taken away), so it
is in the result when the statement runs, and stays in it (`ReadAt`). The argument of a query
is cut at its first NUL character; it still selects the rows it should, because no string in
the database has one (`RowsArePlain`), and none is on the way there (`AdriftIsPlain`).

**Refinement.** `ImplementsLifecycle` goes through the actions and uses of `IInv` only the
types of `pc` and `conn` (`Shape`): a step leaves all processes but one as they are, and
what it does to that one is a `Start`, `Lose` or `End`, or nothing.
`ImplementsBatchCreate` maps a step, `RunLate` included, that stores a row of a body to
`Make` of its place: that the place is the next one is `CursorAt`, that it is new is
`BatchAt`, that its key is new is `KeysOnce`, and that it is under the key of its entity
is `StoredAt` of the next state. Answers are `End`, a process that stops is a `CutOff` of
all it was sent, an INSERT refused when it runs late is a `Forgo`, and everything else
stutters. A 201 leaves nothing adrift, as a worker with an INSERT adrift has a broken
connection. `BatchCreate` keeps its promise (`PromiseKept`; to be inductive it needs that
a request that was not asked has made nothing and that what is made was made in order at
the time), and so do the handlers: `HandlersKeepPromise` takes the invariant of
`BatchCreateProofs` through the mapping. It says more than the properties of single
requests: no key is given to two rows of any requests.

**Start-up.** `SettingsOfOneFile` says nothing of the stages before connecting; `ProcessAt`
adds that what has been read is one of the versions seen and that each setting passed was
sound, and that a session is open in exactly the stages `Connected`.

**Columns by position.** Four lemmas say that the tables of `model.h` fit together: the
fields of an INSERT are the columns without the key (`FieldsAre`), the number of a column
is its position among the members (`NumbersArePositions`), so a column is found by its number
(`ColumnByNumber`), and the remote key of the link is `course_id`
(`RemoteKeyIsCourseId`). With them an INSERT puts each text under the name of its column
(`InsertedRow`), a result row read by positions is the entity (`RowShowsEntity`), and the
condition of a query holds of a text exactly when it holds of the value
(`ConditionOfText`). `RInv` says that each table has the row of each body stored and no
other, in its present order of columns, and that a result still to be converted
converts to what its statement asked for, even if the table is rearranged before it is.

**Assumptions.** All of them are evaluated by TLC in the runs. `ConstantsAssumption`: the
sorts of values are disjoint. `DatabaseAssumption`: the initial rows are rows, satisfy the
constraints on keys, belong to no request, and have keys below the sequences.
`OffersAssumption`: requests are of existing routes, and the members of bodies hold
strings where strings belong, integers where foreign keys do, or null or something else.
`ArgumentsAssumption`: `CStr` maps strings to strings and has nothing left to cut the
second time. `SeedsAssumption`: strings of the initial rows have no NUL character, as
PostgreSQL stores none. `StartupAssumption`: what a file holds. `RowMappingAssumption`:
numbers have different texts without NUL characters, and a table has a column for each
member. `BodiesAssumption` of `RowMapping`: bodies are ones `from_json` accepts, a key
they are put under is a module's, and there are 32-bit keys for all rows a behaviour
stores (`Postgres` has what happens when there are not).

**Only model-checked.** Liveness (`EveryRequestEnds`, `StartEnds`), which is out of the
prover's reach, as is anything about ENABLED and what a recursive definition computes for
every input; and the five refuted statements, which are counterexamples. `SelectSeq` is
opaque to the provers, so `Fields` takes the key out of the columns with `RemoveFirst`,
which is the same as an entity has one key.

## What is not modelled, and why

* Prepared statements: no caller.
* `shared_lib`: a submodule without sources here; its assertions are taken to throw,
  which Crow answers by 500, and `NOT_IMPLEMENTED_YET` likewise.
* The JSON library's assertions are taken to be enabled (no `NDEBUG`); without them the
  same line is undefined.
* The connection string: what libpq makes of a user or password with characters that mean
  something in a URI.
* Conversions to `int64_t` and `uint64_t`, and the operators of `model_expr.h` other than
  `eq_operator`: no caller.
* Order of rows in a response, layout and headers; the narrowing of the number in a
  path by Crow; other writers to the database than the backends.

## Plan

1. Done: all modules above, their runs, and a theorem for each safety property checked.
2. `FairSpec` and the abstract `Lifecycle`: state in the latter what liveness the service has,
   and check that start-up and service agree on it.
3. `Outcome` against a reference definition over bounded documents.
