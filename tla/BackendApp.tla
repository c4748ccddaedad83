----------------------------- MODULE BackendApp -----------------------------
(***************************************************************************)
(* The REST backend (src/backend/backend_app.{h,cpp} and dao.{h,cpp}):     *)
(* processes that answer HTTP requests from one shared database.           *)
(*                                                                         *)
(* app_.port(...).run() serves all connections of a process on one worker, *)
(* so a process handles one request at a time, in no promised order.       *)
(* Between two statements of a handler the other processes run.  A process *)
(* may end at any moment and be started again; what it was working on, and *)
(* what was waiting for it, is then cut off without an answer.             *)
(***************************************************************************)
EXTENDS DbConnection

CONSTANT
  Offers     \* the requests clients may make: [path, method, arg, body]

VARIABLES
  phase,     \* per request: "unsent", "pending", "running", "answered", "reset"
  ask,       \* per request: what it asks for
  host,      \* per request: the process it was sent to
  answer,    \* per request: the response
  known,     \* per request, history: rows some client was told of before
             \*   this request was sent
  pc,        \* per process: "down", "idle", "exec" or "result"
  task,      \* per process: the request its worker handles
  pos,       \* create_entities: index of the entity being created
  sub,       \*   index of its subentity being created, 0 for the entity itself
  ids        \*   the keys the entities created so far were given

requestVars == <<phase, ask, host, answer, known>>
workerVars == <<pc, task, pos, sub, ids>>
vars == <<dbVars, connVars, requestVars, workerVars>>

-----------------------------------------------------------------------------
(***************************************************************************)
(* The routes.                                                             *)
(*   users_search  /users_search/<string>   GET, POST                      *)
(*   users         /users                   GET, POST                      *)
(*   user_exists   /users/<int>/exists      GET, PUT                       *)
(*   user          /users/<int>             GET, PUT                       *)
(*   courses       /courses                 GET, POST                      *)
(*   course        /courses/<int>           GET, POST                      *)
(*   test          /test                    GET, POST                      *)
(***************************************************************************)
Routes ==
  {"users_search", "users", "user_exists", "user", "courses", "course", "test"}

Methods(path) ==
  IF path \in {"user", "user_exists"} THEN {"GET", "PUT"} ELSE {"GET", "POST"}

IsQuery(a) == a.method = "GET" /\ a.path # "test"

IsCreate(a) == a.method = "POST" /\ a.path \in {"users", "courses", "course"}

\* Handlers that reach neither the database nor the body: PUT of a user ends
\* in NOT_IMPLEMENTED_YET, what a handler has no branch for in a 404.
IsFixed(a) == ~IsQuery(a) /\ ~IsCreate(a)

FixedCode(a) ==
  CASE a.path = "test" -> 501
    [] a.path = "user" -> 500
    [] OTHER           -> 404

Select(T, column, value) ==
  [op |-> "select", tbl |-> T, column |-> column, value |-> value]

\* The statement of a GET.  GET /courses/<int> selects modules.
Query(a) ==
  CASE a.path = "users"        -> Select("users", "*", NULL)
    [] a.path = "courses"      -> Select("courses", "*", NULL)
    [] a.path = "users_search" -> Select("users", "username", a.arg)
    [] a.path = "user"         -> Select("users", "id", a.arg)
    [] a.path = "user_exists"  -> [Select("users", "id", a.arg) EXCEPT !.op = "exists"]
    [] a.path = "course"       -> Select("modules", "course_id", a.arg)

\* The entity type a POST creates.  POST /courses/<int> creates modules, and
\* does not use the number in its path.
Target(a) ==
  CASE a.path = "users"   -> "users"
    [] a.path = "courses" -> "courses"
    [] a.path = "course"  -> "modules"

ASSUME OffersAssumption ==
  \A a \in Offers :
    /\ DOMAIN a = {"path", "method", "arg", "body"}
    /\ a.path \in Routes /\ a.method \in Methods(a.path)
    /\ IsCreate(a) => IsBody(Target(a), a.body)

\* What becomes of the body of each POST, and the entities read from it.
BodyOutcomes ==
  [a \in {b \in Offers : IsCreate(b)} |-> Outcome(Target(a), a.body)]

Batches ==
  [a \in {b \in DOMAIN BodyOutcomes : BodyOutcomes[b] = "ok"} |->
     Deserialize(Target(a), a.body)]

BodyOutcome(a) == BodyOutcomes[a]

Batch(a) == Batches[a]

-----------------------------------------------------------------------------
Codes == {200, 201, 204, 404, 500, 501}

NoAsk == [path |-> "none", method |-> "none", arg |-> NULL, body |-> NULL]
NoBody == [type |-> "none", objects |-> {}]
NoAnswer == [code |-> 0, body |-> NoBody]

\* A row a client was told of: as part of a body answered by 201, in a list,
\* or because it was there before the behaviour started.
ToldOf(x) ==
  \/ x.req = Nobody
  \/ x.req \in Request /\ answer[x.req].code = 201
  \/ \E q \in Request :
       /\ IsQuery(ask[q]) /\ ask[q].path \in {"users", "courses", "course"}
       /\ answer[q].code = 200 /\ Query(ask[q]).tbl = x.tbl
       /\ AsEntity(x) \in answer[q].body.objects

\* A client sends a request to a process that listens.
Send(r, s, a) ==
  /\ phase[r] = "unsent" /\ pc[s] # "down"
  /\ phase' = [phase EXCEPT ![r] = "pending"]
  /\ ask' = [ask EXCEPT ![r] = a]
  /\ host' = [host EXCEPT ![r] = s]
  /\ known' = [known EXCEPT ![r] = {x \in rows : ToldOf(x)}]
  /\ UNCHANGED <<answer, dbVars, connVars, workerVars>>

-----------------------------------------------------------------------------
(* The steps of the worker of a process. *)

Forget(s) ==
  /\ task' = [task EXCEPT ![s] = Nobody]
  /\ pos' = [pos EXCEPT ![s] = 0]
  /\ sub' = [sub EXCEPT ![s] = 0]
  /\ ids' = [ids EXCEPT ![s] = <<>>]
  /\ reply' = [reply EXCEPT ![s] = NoReply]

\* The response to request r is sent.
Respond(s, r, code, body) ==
  /\ phase' = [phase EXCEPT ![r] = "answered"]
  /\ answer' = [answer EXCEPT ![r] = [code |-> code, body |-> body]]
  /\ pc' = [pc EXCEPT ![s] = "idle"]
  /\ Forget(s)
  /\ UNCHANGED <<ask, host, known, conn, dbVars>>

\* An exception that leaves a handler is turned into a 500 by Crow.
Throw(s, r) == Respond(s, r, 500, NoBody)

\* The process ends: its connections are cut off, the worker's state is lost.
Stop(s) ==
  /\ pc' = [pc EXCEPT ![s] = "down"]
  /\ conn' = [conn EXCEPT ![s] = "closed"]
  /\ Forget(s)
  /\ phase' = [r \in Request |->
                 IF host[r] = s /\ phase[r] \in {"pending", "running"}
                 THEN "reset" ELSE phase[r]]
  /\ UNCHANGED <<ask, host, answer, known, rows, serial>>

Boot(s) ==
  /\ pc[s] = "down"
  /\ pc' = [pc EXCEPT ![s] = "idle"]
  /\ Connect(s)
  /\ UNCHANGED <<dbVars, requestVars, task, pos, sub, ids>>

\* The worker turns to request r.
Takes(s, r) == pc[s] = "idle" /\ phase[r] = "pending" /\ host[r] = s

AnswerAtOnce(s, r) ==
  /\ Takes(s, r) /\ IsFixed(ask[r])
  /\ Respond(s, r, FixedCode(ask[r]), NoBody)

\* The body is not what the entity type asks for.
RejectBody(s, r) ==
  /\ Takes(s, r) /\ IsCreate(ask[r]) /\ BodyOutcome(ask[r]) = "throws"
  /\ Throw(s, r)

AbortOnBody(s, r) ==
  /\ Takes(s, r) /\ IsCreate(ask[r]) /\ BodyOutcome(ask[r]) = "aborts"
  /\ Stop(s) /\ UNCHANGED adrift

\* Only POST /courses returns the entities, with their keys and without
\* their modules.
CreatedBody(a, entities) ==
  IF Target(a) = "courses" THEN ToJson(entities) ELSE NoBody

\* An empty array: nothing to create.
CreateNothing(s, r) ==
  /\ Takes(s, r) /\ IsCreate(ask[r]) /\ BodyOutcome(ask[r]) = "ok"
  /\ Len(Batch(ask[r])) = 0
  /\ Respond(s, r, 201, CreatedBody(ask[r], {}))

StartWork(s, r, first) ==
  /\ phase' = [phase EXCEPT ![r] = "running"]
  /\ pc' = [pc EXCEPT ![s] = "exec"]
  /\ task' = [task EXCEPT ![s] = r]
  /\ pos' = [pos EXCEPT ![s] = first]
  /\ UNCHANGED <<ask, host, answer, known, dbVars, connVars, sub, ids>>

StartQuery(s, r) == Takes(s, r) /\ IsQuery(ask[r]) /\ StartWork(s, r, 0)

StartCreate(s, r) ==
  /\ Takes(s, r) /\ IsCreate(ask[r]) /\ BodyOutcome(ask[r]) = "ok"
  /\ Len(Batch(ask[r])) > 0
  /\ StartWork(s, r, 1)

-----------------------------------------------------------------------------
(* The statement a handler is at. *)

Job(s) == ask[task[s]]

\* update_subentities: a subentity is created with the key of its entity.
Linked(v, id) == [v EXCEPT !["course_id"] = id]

\* Mutant: the key is looked up (the last one drawn) instead of returned.
InsertStatementLastKey(s) ==
  LET e == Batch(Job(s))[pos[s]]
  IN  IF sub[s] = 0
      THEN [op |-> "insert", tbl |-> Target(Job(s)), val |-> e.val]
      ELSE [op |-> "insert", tbl |-> "modules",
            val |-> Linked(e.subs[sub[s]], serial["courses"] - 1)]

\* Mutant: the recursion passes the first subentity each time.
InsertStatementFirstSub(s) ==
  LET e == Batch(Job(s))[pos[s]]
  IN  IF sub[s] = 0
      THEN [op |-> "insert", tbl |-> Target(Job(s)), val |-> e.val]
      ELSE [op |-> "insert", tbl |-> "modules",
            val |-> Linked(e.subs[1], ids[s][pos[s]])]

InsertStatement(s) ==
  LET e == Batch(Job(s))[pos[s]]
  IN  IF sub[s] = 0
      THEN [op |-> "insert", tbl |-> Target(Job(s)), val |-> e.val]
      ELSE [op |-> "insert", tbl |-> "modules",
            val |-> Linked(e.subs[sub[s]], ids[s][pos[s]])]

Statement(s) ==
  IF IsCreate(Job(s)) THEN InsertStatement(s) ELSE Query(Job(s))

LogThrows(s) ==
  /\ pc[s] = "exec" /\ LogIsUndefined(Statement(s))
  /\ Throw(s, task[s])

LogCrashes(s) ==
  /\ pc[s] = "exec" /\ LogIsUndefined(Statement(s))
  /\ Stop(s) /\ UNCHANGED adrift

AwaitsReply(s) ==
  /\ pc[s] = "exec"
  /\ pc' = [pc EXCEPT ![s] = "result"]
  /\ UNCHANGED <<requestVars, task, pos, sub, ids>>

ExecuteOnDead(s) == AwaitsReply(s) /\ ExecOnDead(s)

Execute(s) ==
  AwaitsReply(s) /\ ExecReplied(s, Statement(s), task[s], pos[s], sub[s])

ExecuteLost(s) ==
  AwaitsReply(s) /\ ExecLost(s, Statement(s), task[s], pos[s], sub[s])

\* A process ends at any moment, also while a statement is outstanding.
Crash(s) ==
  /\ pc[s] # "down" /\ Stop(s)
  /\ \/ UNCHANGED adrift
     \/ /\ pc[s] = "exec" /\ conn[s] = "ok"
        /\ GoesAdrift(Sent(Statement(s)), task[s], pos[s], sub[s])

\* The server runs an INSERT whose process is gone or has given it up.
RunLate(m) == RunsAdrift(m) /\ UNCHANGED <<connVars, requestVars, workerVars>>

-----------------------------------------------------------------------------
(* What a handler does with the result. *)

\* Mutant: an error result of an INSERT is waited for again, for ever.
StatementFailedOnQuery(s) ==
  /\ pc[s] = "result" /\ Failed(s) /\ IsQuery(Job(s))
  /\ Throw(s, task[s])

\* get_rows, get_row, get_scalar and insert throw on an error result.
StatementFailed(s) ==
  /\ pc[s] = "result" /\ Failed(s)
  /\ Throw(s, task[s])

\* get_by_id takes the value of an optional that holds none.
UserNotFound(s) ==
  /\ pc[s] = "result" /\ ~Failed(s)
  /\ IsQuery(Job(s)) /\ Job(s).path = "user" /\ reply[s].data = {}
  /\ Throw(s, task[s])

QueryCode(s) ==
  IF Job(s).path # "users_search" THEN 200
  ELSE IF reply[s].data = {} THEN 204 ELSE 201

QueryBody(s) ==
  CASE Job(s).path = "user_exists" -> [type |-> "object", value |-> reply[s].data]
    [] Job(s).path = "user"        -> [type |-> "object", objects |-> GetRows(s)]
    [] QueryCode(s) = 204          -> NoBody
    [] OTHER                       -> ToJson(GetRows(s))

QueryDone(s) ==
  /\ pc[s] = "result" /\ ~Failed(s) /\ IsQuery(Job(s))
  /\ Job(s).path = "user" => reply[s].data # {}
  /\ Respond(s, task[s], QueryCode(s), QueryBody(s))

\* Mutant: the last key drawn from the sequence, by whomever.
IdsAfterLastKey(s) ==
  IF sub[s] = 0 THEN Append(ids[s], serial["courses"] - 1) ELSE ids[s]

\* entity.id.value = entity_id; the keys of subentities are not used again.
IdsAfter(s) == IF sub[s] = 0 THEN Append(ids[s], reply[s].data) ELSE ids[s]

InsertSucceeded(s) == pc[s] = "result" /\ ~Failed(s) /\ IsCreate(Job(s))

\* Mutant: the last subentity is skipped.
MoreSubentitiesButLast(s) == sub[s] + 1 < Len(Batch(Job(s))[pos[s]].subs)

MoreSubentities(s) == sub[s] < Len(Batch(Job(s))[pos[s]].subs)

MoreEntities(s) == pos[s] < Len(Batch(Job(s)))

ContinueAt(s, p, q) ==
  /\ pc' = [pc EXCEPT ![s] = "exec"]
  /\ pos' = [pos EXCEPT ![s] = p]
  /\ sub' = [sub EXCEPT ![s] = q]
  /\ ids' = [ids EXCEPT ![s] = IdsAfter(s)]
  /\ reply' = [reply EXCEPT ![s] = NoReply]
  /\ UNCHANGED <<requestVars, dbVars, conn, task>>

\* Mutant: the first subentity is created over and over.
NextSubentityStays(s) ==
  /\ InsertSucceeded(s) /\ MoreSubentities(s)
  /\ ContinueAt(s, pos[s], 1)

NextSubentity(s) ==
  /\ InsertSucceeded(s) /\ MoreSubentities(s)
  /\ ContinueAt(s, pos[s], sub[s] + 1)

\* Mutant: the subentities of the next entity are counted from the last one's.
NextEntityKeepsCount(s) ==
  /\ InsertSucceeded(s) /\ ~MoreSubentities(s) /\ MoreEntities(s)
  /\ ContinueAt(s, pos[s] + 1, sub[s])

NextEntity(s) ==
  /\ InsertSucceeded(s) /\ ~MoreSubentities(s) /\ MoreEntities(s)
  /\ ContinueAt(s, pos[s] + 1, 0)

Created(s) ==
  LET b == Batch(Job(s))
  IN  {[id |-> IdsAfter(s)[k], val |-> b[k].val] : k \in 1..Len(b)}

\* Mutant: the response is built by something that throws.
BatchDoneThrows(s) ==
  /\ InsertSucceeded(s) /\ ~MoreSubentities(s) /\ ~MoreEntities(s)
  /\ Throw(s, task[s])

BatchDone(s) ==
  /\ InsertSucceeded(s) /\ ~MoreSubentities(s) /\ ~MoreEntities(s)
  /\ Respond(s, task[s], 201, CreatedBody(Job(s), Created(s)))

-----------------------------------------------------------------------------
Init ==
  /\ DbInit /\ ConnInit
  /\ phase = [r \in Request |-> "unsent"]
  /\ ask = [r \in Request |-> NoAsk]
  /\ host = [r \in Request |-> Nobody]
  /\ answer = [r \in Request |-> NoAnswer]
  /\ known = [r \in Request |-> {}]
  /\ pc = [s \in Server |-> "down"]
  /\ task = [s \in Server |-> Nobody]
  /\ pos = [s \in Server |-> 0]
  /\ sub = [s \in Server |-> 0]
  /\ ids = [s \in Server |-> <<>>]

\* What a running process does by itself.
Dispatch(s, r) ==
  \/ AnswerAtOnce(s, r)
  \/ RejectBody(s, r)
  \/ AbortOnBody(s, r)
  \/ CreateNothing(s, r)
  \/ StartQuery(s, r)
  \/ StartCreate(s, r)

Work(s) ==
  \/ \E r \in Request : Dispatch(s, r)
  \/ LogThrows(s)
  \/ LogCrashes(s)
  \/ ExecuteOnDead(s)
  \/ Execute(s)
  \/ ExecuteLost(s)
  \/ StatementFailed(s)
  \/ UserNotFound(s)
  \/ QueryDone(s)
  \/ NextSubentity(s)
  \/ NextEntity(s)
  \/ BatchDone(s)

Next ==
  \/ \E s \in Server : Work(s) \/ Crash(s) \/ Boot(s)
  \/ \E r \in Request, s \in Server, a \in Offers : Send(r, s, a)
  \/ \E m \in adrift : RunLate(m)

Spec == Init /\ [][Next]_vars

(***************************************************************************)
(* A running worker does not stop between two of its steps, and a          *)
(* statement that was sent is answered or its connection breaks.  Nothing  *)
(* is assumed of clients, of crashes, of restarts or of what is adrift.    *)
(***************************************************************************)
FairSpec == Spec /\ \A s \in Server : WF_vars(Work(s))

\* The same when nothing ends a process from outside.
CalmSpec ==
  Init /\ [][ \/ \E s \in Server : Work(s) \/ Boot(s)
              \/ \E r \in Request, s \in Server, a \in Offers : Send(r, s, a)
              \/ \E m \in adrift : RunLate(m) ]_vars

-----------------------------------------------------------------------------
(***************************************************************************)
(* What is stored of the body of a request.  The entities of a body are    *)
(* created in the order of its text: entity 1, its subentities, entity 2,  *)
(* its subentities, and so on.  Place (i, 0) is entity i, place (i, j) its *)
(* subentity j.                                                            *)
(***************************************************************************)
IsPlace(a, i, j) ==
  /\ IsCreate(a) /\ BodyOutcome(a) = "ok" /\ i \in 1..Len(Batch(a))
  /\ j \in 0..Len(Batch(a)[i].subs)

Precedes(i, j, k, l) == i < k \/ (i = k /\ j < l)

StoredFor(r) == {x \in rows : x.req = r}

IsStored(r, i, j) == \E x \in StoredFor(r) : x.i = i /\ x.j = j

Complete(r) ==
  \A i \in 1..Len(Batch(ask[r])) :
    \A j \in 0..Len(Batch(ask[r])[i].subs) : IsStored(r, i, j)

OrderOf(r) ==
  \A x \in StoredFor(r) :
    /\ IsPlace(ask[r], x.i, x.j)
    /\ \A i \in 1..x.i : \A j \in 0..Len(Batch(ask[r])[i].subs) :
         Precedes(i, j, x.i, x.j) => IsStored(r, i, j)

\* In this step request r is answered by process s.
Answers(s, r) ==
  pc[s] # "down" /\ host[r] = s /\ phase[r] # "answered" /\ phase'[r] = "answered"

-----------------------------------------------------------------------------
(* Types. *)

\* Every variable of the processes, of the requests and of the database holds
\* a value of its type; the keys a batch was given are keys of rows.
TypeOK ==
  /\ \A x \in rows : IsRow(x)
  /\ serial \in [Tables -> 1..(MaxInt + 1)]
  /\ \A m \in adrift : IsAdrift(m)
  /\ conn \in [Server -> {"closed", "ok", "bad"}]
  /\ DOMAIN reply = Server
  /\ \A s \in Server : reply[s].status \in {"none", "tuples", "fatal"}
  /\ phase \in [Request -> {"unsent", "pending", "running", "answered", "reset"}]
  /\ ask \in [Request -> Offers \cup {NoAsk}]
  /\ host \in [Request -> Server \cup {Nobody}]
  /\ DOMAIN answer = Request /\ DOMAIN known = Request
  /\ \A r \in Request : answer[r].code \in Codes \cup {0}
  /\ \A r \in Request : \A x \in known[r] : IsRow(x)
  /\ pc \in [Server -> {"down", "idle", "exec", "result"}]
  /\ task \in [Server -> Request \cup {Nobody}]
  /\ pos \in [Server -> Nat]
  /\ sub \in [Server -> Nat]
  /\ ids \in [Server -> Seq(1..MaxInt)]

-----------------------------------------------------------------------------
(* Batches: create_entities runs one INSERT after another, in no transaction. *)

\* Whatever becomes of a POST (an answer, a crash of the process, a lost
\* connection, a refused INSERT), what is stored of its body is a beginning
\* of it: a row of some place implies rows of all places before it.
StoredInOrder == \A r \in Request : OrderOf(r)

\* No entity of a body is stored twice, also not when a reply was lost after
\* its INSERT had been committed.
StoredOnce ==
  \A r \in Request : \A x, y \in StoredFor(r) :
    x.i = y.i /\ x.j = y.j => x = y

\* The modules of a course in a body are stored under the key that course was
\* given, whatever keys other processes draw from the same sequence meanwhile.
ModulesUnderTheirCourse ==
  \A r \in Request : \A x \in StoredFor(r) :
    x.j > 0 => /\ x.tbl = "modules"
               /\ \E y \in StoredFor(r) :
                    /\ y.tbl = "courses" /\ y.i = x.i /\ y.j = 0
                    /\ x.val["course_id"] = y.id

\* A 201 to a POST means that everything in its body is stored as from_json
\* read it, entities and modules, each module under the key of its course's
\* row, strings up to their first NUL character, and the keys the response of
\* POST /courses reports are those rows'.  What from_json does not read, like
\* the `order' the documented sample gives its modules, is not stored.
CreatedIsStored ==
  \A r \in Request : IsCreate(ask[r]) /\ answer[r].code = 201 =>
    /\ Complete(r)
    /\ \A x \in StoredFor(r) : x.j = 0 =>
         /\ x.tbl = Target(ask[r])
         /\ x.val = Arguments(Batch(ask[r])[x.i].val)
         /\ x.tbl = "courses" =>
              [id |-> x.id, val |-> Batch(ask[r])[x.i].val] \in answer[r].body.objects
    /\ \A x, y \in StoredFor(r) : x.j > 0 /\ y.i = x.i /\ y.j = 0 =>
         /\ x.tbl = "modules"
         /\ x.val = Arguments(Linked(Batch(ask[r])[x.i].subs[x.j], y.id))

\* The keys the response of POST /courses tells.
ReportedKeys(r) ==
  IF IsCreate(ask[r]) /\ ask[r].path = "courses" /\ answer[r].code = 201
  THEN {e.id : e \in answer[r].body.objects} ELSE {}

\* A client that repeats a POST /courses, or another that sends the same body,
\* gets courses of its own: no key is reported in two answers, and an answer
\* reports as many keys as its body has courses.
RepeatedCoursesAreNew ==
  \A r \in Request :
    ReportedKeys(r) # {} =>
      /\ Cardinality(ReportedKeys(r)) = Len(Batch(ask[r]))
      /\ \A q \in Request \ {r} : ReportedKeys(q) \cap ReportedKeys(r) = {}

\* A 500 to a POST from a process whose connection works means that something
\* of its body is not stored, so that a client that repeats what is missing
\* creates nothing twice; only when the connection broke may a 500 conceal
\* that everything is there.
FailedIsIncomplete ==
  [][\A s \in Server, r \in Request :
       /\ Answers(s, r) /\ IsCreate(ask[r]) /\ answer'[r].code = 500
       /\ BodyOutcome(ask[r]) = "ok" /\ conn[s] = "ok"
       => ~Complete(r)]_vars

\* Of two POST /users with one body, whether a client's retry or two clients
\* at different processes, if one is answered 201 the other has stored nothing.
UsersNotDuplicated ==
  \A q, r \in Request :
    /\ q # r /\ ask[q] = ask[r] /\ ask[q].path = "users"
    /\ IsCreate(ask[q]) /\ answer[q].code = 201
    => StoredFor(r) = {}

-----------------------------------------------------------------------------
(* Connections. *)

\* The handler of a request with a sound body sends at least one statement.
NeedsDatabase(a) ==
  IsQuery(a) \/ (IsCreate(a) /\ BodyOutcome(a) = "ok" /\ Len(Batch(a)) > 0)

\* A process that lost its connection, or never had one, reports neither
\* success nor an empty result: until it is started anew it answers whatever
\* needs the database with 500.
DeadConnectionAnswers500 ==
  [][\A s \in Server, r \in Request :
       Answers(s, r) /\ conn[s] = "bad" /\ NeedsDatabase(ask[r]) =>
         answer'[r].code = 500]_vars

-----------------------------------------------------------------------------
(* Reads. *)

\* The answer to query a shows row x.
Shows(ans, a, x) ==
  CASE a.path = "user_exists"  -> ans.code = 200 /\ ans.body = [type |-> "object", value |-> TRUE]
    [] a.path = "user"         -> ans.code = 200 /\ ans.body.objects = {AsEntity(x)}
    [] a.path = "users_search" -> ans.code = 201 /\ AsEntity(x) \in ans.body.objects
    [] OTHER                   -> ans.code = 200 /\ AsEntity(x) \in ans.body.objects

\* A query answered over a working connection shows every row it selects that
\* some client had been told of, by this or by another process, before the
\* query was sent.
ReadsSeeKnown ==
  [][\A s \in Server, r \in Request :
       Answers(s, r) /\ IsQuery(ask[r]) /\ conn[s] = "ok" =>
         \A x \in known[r] :
           x \in Selected(Query(ask[r])) => Shows(answer'[r], ask[r], x)]_vars

-----------------------------------------------------------------------------
(* Liveness. *)

\* Every request sent is answered, or cut off because its process ended.
EveryRequestEnds ==
  \A r \in Request : phase[r] = "pending" ~> phase[r] \in {"answered", "reset"}

-----------------------------------------------------------------------------
(***************************************************************************)
(* What docs/rest_api says and the code does not do.                       *)
(***************************************************************************)

\* sphinx-rest.raml: the response 200 of GET /users is of type Users, an
\* array of at least 0 elements.
UserListIsArray ==
  \A r \in Request :
    ask[r].path = "users" /\ IsQuery(ask[r]) /\ answer[r].code = 200
    => answer[r].body.type = "array"

\* sphinx-rest.raml: GET /courses/{course_id}, "Get course information.", is
\* answered by a Course.
CourseInformation ==
  \A r \in Request :
    ask[r].path = "course" /\ IsQuery(ask[r]) /\ answer[r].code = 200
    => /\ answer[r].body.objects # {}
       /\ \A e \in answer[r].body.objects :
            e.id = ask[r].arg /\ DOMAIN e.val = InsertColumns("courses")

\* sphinx-rest.raml: PUT /users/{user_id}, "Modify user profile..", succeeds
\* for a stored user over a working connection.
UserIsModified ==
  [][\A s \in Server, r \in Request :
       /\ Answers(s, r) /\ ask[r].path = "user" /\ ask[r].method = "PUT"
       /\ conn[s] = "ok" /\ \E x \in Of("users") : x.id = ask[r].arg
       => answer'[r].code = 200]_vars

\* samples/create_users.json, the example of a body of POST /users: users
\* with and without a student_id are created, over a working connection, when
\* nothing in the database stands against them.
SampleIsCreated ==
  [][\A s \in Server, r \in Request :
       /\ Answers(s, r) /\ ask[r].path = "users" /\ IsCreate(ask[r])
       /\ conn[s] = "ok"
       => answer'[r].code = 201]_vars

\* sphinx-rest.raml: a User has a username, an email and a role, and POST /users
\* takes a User.  Such a request is answered, by 201 or otherwise, and not cut
\* off, as long as processes end only through what they do themselves.
DocumentedUserIsAnswered ==
  \A r \in Request :
    ask[r].path = "users" /\ IsCreate(ask[r]) => phase[r] # "reset"

=============================================================================
