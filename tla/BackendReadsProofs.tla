-------------------------- MODULE BackendReadsProofs --------------------------
(***************************************************************************)
(* Theorems about the answers to queries, for any number of processes and  *)
(* requests and any contents of the database: a broken connection is never *)
(* passed off as a result, and a client sees what some client was told of. *)
(* They follow from ReadInv, which is inductive given IInv.                *)
(***************************************************************************)
EXTENDS BackendBatchProofs

-----------------------------------------------------------------------------
(* The statement of a query. *)

\* The columns queries are made by are columns of their tables.
LEMMA SearchedColumns ==
  "username" \in InsertColumns("users") /\ "course_id" \in InsertColumns("modules")
<1>1. Columns["users"][4] = "username" /\ 4 \in 1..Len(Columns["users"])
  BY DEF Columns
<1>2. Columns["modules"][2] = "course_id" /\ 2 \in 1..Len(Columns["modules"])
  BY DEF Columns
<1> QED
  BY <1>1, <1>2 DEF InsertColumns, PrimaryKey

\* A query by a column, and the same as the server gets it.
LEMMA SelectFacts ==
  ASSUME NEW op \in {"select", "exists"}, NEW T, NEW column, NEW value, NEW stmt,
         stmt = [op |-> op, tbl |-> T, column |-> column, value |-> value]
  PROVE  /\ stmt.op = op /\ stmt.tbl = T /\ stmt.column = column /\ stmt.value = value
         /\ Sent(stmt).op = op /\ Sent(stmt).tbl = T /\ Sent(stmt).column = column
         /\ Sent(stmt).value = Argument(value)
BY DEF Sent

\* What a request queries, and by which column.
LEMMA QueryShape ==
  ASSUME NEW a \in Offers, IsQuery(a)
  PROVE  LET q == Query(a)
         IN  /\ q.op = (IF a.path = "user_exists" THEN "exists" ELSE "select")
             /\ Sent(q).op = q.op /\ Sent(q).tbl = q.tbl /\ Sent(q).column = q.column
             /\ Sent(q).value = Argument(q.value)
             /\ \/ q.column = "*"
                \/ q.column = "id"
                \/ q.tbl = "users" /\ q.column = "username"
                \/ q.tbl = "modules" /\ q.column = "course_id"
             /\ a.path = "user" => q.tbl = "users" /\ q.column = "id"
<1>1. a.path \in Routes \ {"test"}
  BY OffersAssumption DEF IsQuery
<1>2. CASE a.path = "users"
  BY <1>2, SelectFacts DEF Query, Select
<1>3. CASE a.path = "courses"
  BY <1>3, SelectFacts DEF Query, Select
<1>4. CASE a.path = "users_search"
  BY <1>4, SelectFacts DEF Query, Select
<1>5. CASE a.path = "user"
  BY <1>5, SelectFacts DEF Query, Select
<1>6. CASE a.path = "user_exists"
  <2> DEFINE q == [op |-> "exists", tbl |-> "users", column |-> "id", value |-> a.arg]
  <2>1. Query(a) = q
    BY <1>6 DEF Query, Select
  <2> HIDE DEF q
  <2>2. /\ q.op = "exists" /\ q.tbl = "users" /\ q.column = "id" /\ q.value = a.arg
        /\ Sent(q).op = "exists" /\ Sent(q).tbl = "users" /\ Sent(q).column = "id"
        /\ Sent(q).value = Argument(a.arg)
    BY SelectFacts DEF q
  <2> QED
    BY <1>6, <2>1, <2>2
<1>7. CASE a.path = "course"
  BY <1>7, SelectFacts DEF Query, Select
<1> QED
  BY <1>1, <1>2, <1>3, <1>4, <1>5, <1>6, <1>7 DEF Routes

\* An argument cut at its first NUL character selects all that the whole
\* argument would, since no string in the database has one.
LEMMA SentSelectsAll ==
  ASSUME TypeOK, RowsArePlain, NEW a \in Offers, IsQuery(a)
  PROVE  Selected(Query(a)) \subseteq Selected(Sent(Query(a)))
<1> DEFINE q == Query(a)
<1> SUFFICES ASSUME NEW x \in Selected(q) PROVE x \in Selected(Sent(q))
  OBVIOUS
<1>1. /\ Sent(q).tbl = q.tbl /\ Sent(q).column = q.column
      /\ Sent(q).value = Argument(q.value)
      /\ \/ q.column = "*"
         \/ q.column = "id"
         \/ q.tbl = "users" /\ q.column = "username"
         \/ q.tbl = "modules" /\ q.column = "course_id"
  BY QueryShape
<1> HIDE DEF q
<1>2. x \in rows /\ x.tbl = q.tbl /\ Matches(x, q)
  BY DEF Selected, Of
<1>3. x.id \in Int /\ x.val \in [InsertColumns(x.tbl) -> Value] /\ Arguments(x.val) = x.val
  BY <1>2, ConstantsAssumption DEF TypeOK, IsRow, RowOf, RowsArePlain
<1>4. Matches(x, Sent(q))
  <2>1. CASE q.column = "*"
    BY <1>1, <2>1 DEF Matches
  <2>2. CASE q.column = "id"
    <3>1. x.id = q.value
      BY <1>2, <2>2 DEF Matches
    <3>2. Argument(x.id) = x.id
      BY <1>3, ConstantsAssumption DEF Argument
    <3> QED
      BY <1>1, <2>2, <3>1, <3>2 DEF Matches
  <2>3. CASE q.column \in {"username", "course_id"}
    <3>1. x.val[q.column] = q.value
      BY <1>2, <2>3 DEF Matches
    <3>2. q.column \in InsertColumns(x.tbl)
      BY <1>1, <1>2, <2>3, SearchedColumns
    <3>3. Arguments(x.val)[q.column] = Argument(x.val[q.column])
      BY <1>3, <3>2 DEF Arguments
    <3> QED
      BY <1>1, <1>3, <2>3, <3>1, <3>3 DEF Matches
  <2> QED
    BY <1>1, <2>1, <2>2, <2>3
<1> QED
  BY <1>1, <1>2, <1>4 DEF Selected, Of

-----------------------------------------------------------------------------
(* What a step leaves alone. *)

\* The session and the result of a worker that is left alone, while rows may
\* be added.
LEMMA ReadFrame ==
  ASSUME IInv, ReadInv, NEW t \in Server, Keeps(t), conn'[t] = conn[t],
         rows \subseteq rows', Active(t) => known'[task[t]] = known[task[t]]
  PROVE  SessionAt(t)' /\ ReadAt(t)'
<1>1. SessionAt(t) /\ ReadAt(t)
  BY DEF ReadInv
<1>2. Failed(t)' <=> Failed(t)
  BY DEF Failed, Keeps
<1>3. SessionAt(t)'
  BY <1>1, <1>2 DEF SessionAt, Keeps
<1>4. ReadAt(t)'
  <2> SUFFICES ASSUME (pc[t] = "result")', (conn[t] = "ok")', IsQuery(Job(t)')
               PROVE  ReadAt(t)'
    BY DEF ReadAt
  <2> DEFINE q == Query(Job(t))
             sought == known[task[t]] \cap Selected(q)
  <2>1. /\ pc[t] = "result" /\ conn[t] = "ok" /\ Active(t)
        /\ task'[t] = task[t] /\ reply'[t] = reply[t]
    BY DEF Keeps, Active
  <2>2. Job(t)' = Job(t)
    BY <2>1 DEF Keeps, Job
  <2>3. task[t] \in Request /\ known'[task[t]] = known[task[t]]
    BY <2>1 DEF IInv, WorkerAt
  <2>4. /\ ~Failed(t)
        /\ Job(t).path = "user_exists" => (sought # {} => reply[t].data = TRUE)
        /\ Job(t).path # "user_exists" => /\ sought \subseteq reply[t].data
                                          /\ reply[t].data \subseteq Selected(Sent(q))
    BY <1>1, <2>1, <2>2 DEF ReadAt
  <2>5. known[task[t]] \cap Selected(Query(Job(t)))' \subseteq sought
    <3>1. known[task[t]] \subseteq rows
      BY <2>3 DEF ReadInv, KnownAt
    <3> QED
      BY <2>2, <3>1 DEF Selected, Of
  <2>6. Selected(Sent(q)) \subseteq Selected(Sent(Query(Job(t))))'
    BY <2>2 DEF Selected, Of
  <2> HIDE DEF q, sought
  <2> QED
    BY <1>2, <2>1, <2>2, <2>3, <2>4, <2>5, <2>6 DEF ReadAt
<1> QED
  BY <1>3, <1>4

\* A worker that holds no result.
LEMMA NoResult ==
  ASSUME NEW s \in Server, pc'[s] # "result"
  PROVE  SessionAt(s)' /\ ReadAt(s)'
  BY DEF SessionAt, ReadAt

\* A step after which no worker but perhaps one is another than before, and
\* that tells no request anew what was known, but perhaps one not sent before.
LEMMA ReadStep ==
  ASSUME IInv, ReadInv, NEW s \in Server, SessionAt(s)', ReadAt(s)', RowsArePlain',
         AdriftIsPlain', rows \subseteq rows',
         \A t \in Server \ {s} : Keeps(t) /\ conn'[t] = conn[t],
         \A q \in Request :
           known'[q] = known[q] \/ (phase[q] = "unsent" /\ known'[q] \subseteq rows)
  PROVE  ReadInv'
<1>1. ASSUME NEW q \in Request
      PROVE  KnownAt(q)'
  BY DEF ReadInv, KnownAt
<1>2. ASSUME NEW t \in Server, t # s
      PROVE  SessionAt(t)' /\ ReadAt(t)'
  <2>1. Active(t) => known'[task[t]] = known[task[t]]
    BY DEF IInv, WorkerAt
  <2> QED
    BY <1>2, <2>1, ReadFrame
<1> QED
  BY <1>1, <1>2 DEF ReadInv

-----------------------------------------------------------------------------
(* The steps. *)

\* A worker answers a request it was sent.
LEMMA RespondReads ==
  ASSUME IInv, ReadInv, NEW s \in Server, NEW r \in Request, NEW code, NEW body,
         Respond(s, r, code, body), host[r] = s
  PROVE  ReadInv'
<1>1. rows' = rows /\ adrift' = adrift /\ known' = known /\ pc'[s] = "idle"
  BY DEF Respond, dbVars, IInv, TypeOK
<1>2. \A t \in Server \ {s} : Keeps(t) /\ conn'[t] = conn[t]
  BY DEF IInv, TypeOK, WorkerAt, Keeps, Respond, Forget
<1>3. RowsArePlain' /\ AdriftIsPlain'
  BY <1>1 DEF ReadInv, RowsArePlain, AdriftIsPlain
<1> QED
  BY <1>1, <1>2, <1>3, NoResult, ReadStep

\* A process ends.
LEMMA StopReads ==
  ASSUME IInv, ReadInv, NEW s \in Server, Stop(s), AdriftIsPlain'
  PROVE  ReadInv'
<1>1. rows' = rows /\ known' = known /\ pc'[s] = "down"
  BY DEF Stop, IInv, TypeOK
<1>2. \A t \in Server \ {s} : Keeps(t) /\ conn'[t] = conn[t]
  BY DEF IInv, TypeOK, WorkerAt, Keeps, Stop, Forget
<1>3. RowsArePlain'
  BY <1>1 DEF ReadInv, RowsArePlain
<1> QED
  BY <1>1, <1>2, <1>3, NoResult, ReadStep

\* A process starts.
LEMMA BootReads ==
  ASSUME IInv, ReadInv, NEW s \in Server, Boot(s)
  PROVE  ReadInv'
<1>1. rows' = rows /\ adrift' = adrift /\ known' = known /\ pc'[s] = "idle"
  BY DEF Boot, dbVars, requestVars, IInv, TypeOK
<1>2. \A t \in Server \ {s} : Keeps(t) /\ conn'[t] = conn[t]
  BY DEF IInv, TypeOK, Keeps, Boot, Connect, requestVars
<1>3. RowsArePlain' /\ AdriftIsPlain'
  BY <1>1 DEF ReadInv, RowsArePlain, AdriftIsPlain
<1> QED
  BY <1>1, <1>2, <1>3, NoResult, ReadStep

\* A client sends a request, of which no worker has a result.
LEMMA SendReads ==
  ASSUME IInv, ReadInv, NEW r \in Request, NEW s \in Server, NEW a \in Offers,
         Send(r, s, a)
  PROVE  ReadInv'
<1>1. /\ rows' = rows /\ adrift' = adrift /\ phase[r] = "unsent" /\ conn' = conn
      /\ known' = [known EXCEPT ![r] = {x \in rows : ToldOf(x)}]
  BY DEF Send, dbVars, connVars
<1>2. \A t \in Server : Keeps(t) /\ conn'[t] = conn[t]
  BY <1>1 DEF IInv, TypeOK, WorkerAt, Keeps, Send, connVars, workerVars
<1>3. RowsArePlain' /\ AdriftIsPlain'
  BY <1>1 DEF ReadInv, RowsArePlain, AdriftIsPlain
<1>4. \A q \in Request :
        known'[q] = known[q] \/ (phase[q] = "unsent" /\ known'[q] \subseteq rows)
  <2>1. known'[r] = {x \in rows : ToldOf(x)}
    BY <1>1 DEF IInv, TypeOK
  <2>2. known'[r] \subseteq rows
    BY <2>1
  <2>3. \A q \in Request \ {r} : known'[q] = known[q]
    BY <1>1 DEF IInv, TypeOK
  <2> QED
    BY <1>1, <2>2, <2>3
<1>5. SessionAt(s)' /\ ReadAt(s)'
  <2>1. Active(s) => known'[task[s]] = known[task[s]]
    BY <1>1 DEF IInv, WorkerAt, TypeOK
  <2> QED
    BY <1>1, <1>2, <2>1, ReadFrame
<1> QED
  BY <1>1, <1>2, <1>3, <1>4, <1>5, ReadStep

\* A worker turns to a request, or goes on to its next statement.
LEMMA GoOnReads ==
  ASSUME IInv, ReadInv, NEW s \in Server, pc'[s] # "result", rows' = rows, known' = known,
         adrift' = adrift,
         \A t \in Server \ {s} : Keeps(t) /\ conn'[t] = conn[t]
  PROVE  ReadInv'
<1>1. RowsArePlain' /\ AdriftIsPlain'
  BY DEF ReadInv, RowsArePlain, AdriftIsPlain
<1> QED
  BY <1>1, NoResult, ReadStep

\* A result that is no error, and what is in it.
LEMMA TuplesFacts ==
  ASSUME NEW data
  PROVE  Tuples(data).status = "tuples" /\ Tuples(data).data = data
BY DEF Tuples

\* A result of a query: what the server selects, or an error of a connection
\* that is broken.
LEMMA QueryResult ==
  ASSUME IInv, ReadInv, NEW s \in Server,
         ExecuteOnDead(s) \/ Execute(s) \/ ExecuteLost(s)
  PROVE  SessionAt(s)' /\ ReadAt(s)'
<1>1. /\ pc[s] = "exec" /\ pc'[s] = "result" /\ UNCHANGED requestVars
      /\ task' = task /\ Active(s)
  BY ExecEffect DEF Active
<1>2. Job(s)' = Job(s)
  BY <1>1 DEF Job, requestVars
<1>3. DOMAIN reply = Server /\ conn \in [Server -> {"closed", "ok", "bad"}]
  BY DEF IInv, TypeOK
<1>4. CASE ExecuteOnDead(s) \/ ExecuteLost(s)
  <2>1. conn'[s] = "bad" /\ reply' = [reply EXCEPT ![s] = Fatal]
    BY <1>3, <1>4 DEF ExecuteOnDead, ExecOnDead, ExecuteLost, ExecLost
  <2>2. Failed(s)'
    BY <1>3, <2>1 DEF Failed, Fatal
  <2> QED
    BY <2>1, <2>2 DEF SessionAt, ReadAt
<1>5. CASE Execute(s)
  <2>1. /\ conn[s] = "ok" /\ conn' = conn
        /\ Runs(Sent(Statement(s)), task[s], pos[s], sub[s])
        /\ reply'[s] = Result(Sent(Statement(s)))
    BY <1>3, <1>5 DEF Execute, ExecReplied
  <2>2. SessionAt(s)'
    BY <2>1 DEF SessionAt
  <2>3. CASE ~IsQuery(Job(s))
    BY <1>2, <2>2, <2>3 DEF ReadAt
  <2>4. CASE IsQuery(Job(s))
    <3> DEFINE q == Query(Job(s))
               found == Selected(Sent(q))
               sought == known[task[s]] \cap Selected(q)
    <3>1. Job(s) \in Offers /\ ~IsCreate(Job(s))
      BY <1>1, <2>4, JobType DEF IInv
    <3>2. Statement(s) = q
      BY <3>1 DEF Statement
    <3>3. /\ q.op = (IF Job(s).path = "user_exists" THEN "exists" ELSE "select")
          /\ Sent(q).op = q.op
      BY <2>4, <3>1, QueryShape
    <3>4. sought \subseteq found
      BY <2>4, <3>1, SentSelectsAll DEF IInv, ReadInv
    <3>5. rows' = rows
      BY <2>1, <3>2, <3>3 DEF Runs, dbVars
    <3>6. /\ known'[task[s]] = known[task[s]] /\ task'[s] = task[s]
          /\ Selected(Query(Job(s)))' = Selected(q)
          /\ Selected(Sent(Query(Job(s))))' = found
      BY <1>1, <1>2, <3>5 DEF requestVars, Selected, Of
    <3> HIDE DEF found, sought
    <3>7. CASE Job(s).path = "user_exists"
      <4>1. reply'[s] = Tuples(found # {})
        BY <2>1, <3>2, <3>3, <3>7 DEF Result, found
      <4>2. reply'[s].status = "tuples" /\ reply'[s].data = (found # {})
        BY <4>1, TuplesFacts
      <4>3. found # {} => (found # {}) = TRUE
        BY Zenon
      <4>4. sought # {} => reply'[s].data = TRUE
        BY <3>4, <4>2, <4>3
      <4> QED
        BY <1>2, <2>2, <3>6, <3>7, <4>2, <4>4 DEF ReadAt, Failed, sought
    <3>8. CASE Job(s).path # "user_exists"
      <4>1. reply'[s] = Tuples(found)
        BY <2>1, <3>2, <3>3, <3>8 DEF Result, found
      <4>2. reply'[s].status = "tuples" /\ reply'[s].data = found
        BY <4>1 DEF Tuples
      <4> QED
        BY <1>2, <2>2, <3>4, <3>6, <3>8, <4>2 DEF ReadAt, Failed, sought
    <3> QED
      BY <3>7, <3>8
  <2> QED
    BY <2>3, <2>4
<1> QED
  BY <1>4, <1>5

\* What goes adrift is what the server would get.
LEMMA JoinsPlain ==
  ASSUME IInv, ReadInv, NEW s \in Server, Active(s),
         GoesAdrift(Sent(Statement(s)), task[s], pos[s], sub[s])
  PROVE  AdriftIsPlain'
<1> DEFINE stmt == Sent(Statement(s))
<1>1. WorkerAt(s) /\ TypeOK
  BY DEF IInv
<1>2. CASE Creates(s)
  <2>1. Arguments(stmt.val) = stmt.val
    BY <1>1, <1>2, InsertType
  <2>2. \A m \in adrift' : m \in adrift \/ m.val = stmt.val
    BY DEF GoesAdrift
  <2> HIDE DEF stmt
  <2> QED
    BY <2>1, <2>2 DEF ReadInv, AdriftIsPlain
<1>3. CASE ~Creates(s)
  <2>1. stmt.op # "insert"
    BY <1>1, <1>3, StatementType
  <2>2. adrift' = adrift
    BY <2>1 DEF GoesAdrift
  <2> QED
    BY <2>2 DEF ReadInv, AdriftIsPlain
<1> QED
  BY <1>2, <1>3

\* A process is killed.
LEMMA CrashReads ==
  ASSUME IInv, ReadInv, NEW s \in Server, Crash(s)
  PROVE  ReadInv'
<1>1. AdriftIsPlain'
  BY JoinsPlain DEF Crash, Active, ReadInv, AdriftIsPlain
<1> QED
  BY <1>1, StopReads DEF Crash

\* The server runs an INSERT that was adrift.
LEMMA LateReads ==
  ASSUME IInv, ReadInv, NEW m \in adrift, RunLate(m)
  PROVE  ReadInv'
<1>1. /\ adrift' = adrift \ {m} /\ known' = known /\ conn' = conn /\ task' = task
      /\ \A t \in Server : Keeps(t) /\ conn'[t] = conn[t]
  BY DEF RunLate, RunsAdrift, connVars, requestVars, workerVars, Keeps
<1>2. rows' = rows \/ \E x : rows' = rows \cup {x} /\ x.val = m.val
  BY LateInserts DEF StoresNothing, AddsRow
<1>3. rows \subseteq rows' /\ RowsArePlain' /\ AdriftIsPlain'
  BY <1>1, <1>2 DEF ReadInv, RowsArePlain, AdriftIsPlain
<1>4. \A r \in Request : KnownAt(r)'
  BY <1>1, <1>3 DEF ReadInv, KnownAt
<1>5. \A t \in Server : SessionAt(t)' /\ ReadAt(t)'
  BY <1>1, <1>3, ReadFrame
<1> QED
  BY <1>3, <1>4, <1>5 DEF ReadInv

\* A statement stores nothing or a row the server got, without NUL characters.
LEMMA ExecReads ==
  ASSUME IInv, ReadInv, NEW s \in Server,
         ExecuteOnDead(s) \/ Execute(s) \/ ExecuteLost(s)
  PROVE  ReadInv'
<1>1. /\ UNCHANGED requestVars
      /\ \A t \in Server \ {s} : Keeps(t) /\ conn'[t] = conn[t]
  BY ExecEffect
<1>2. rows' = rows \/ \E x : rows' = rows \cup {x} /\ Arguments(x.val) = x.val
  <2>1. ASSUME Creates(s), NEW x, Inserts(s, x)
        PROVE  rows' = rows \cup {x} /\ Arguments(x.val) = x.val
    BY <2>1, InsertType DEF Inserts, AddsRow, IInv
  <2> QED
    BY <2>1, ExecEffect DEF StoresNothing
<1>3. rows \subseteq rows' /\ RowsArePlain'
  BY <1>2 DEF ReadInv, RowsArePlain
<1>4. known' = known
  BY <1>1 DEF requestVars
<1>5. AdriftIsPlain'
  <2>1. CASE ExecuteOnDead(s) \/ Execute(s)
    BY <2>1 DEF ExecuteOnDead, Execute, ExecOnDead, ExecReplied, dbVars, ReadInv,
                AdriftIsPlain
  <2>2. CASE ExecuteLost(s)
    BY <2>2, JoinsPlain DEF ExecuteLost, ExecLost, AwaitsReply, Active
  <2> QED
    BY <2>1, <2>2
<1> QED
  BY <1>1, <1>3, <1>4, <1>5, QueryResult, ReadStep

\* What a worker does.
LEMMA WorkReads ==
  ASSUME IInv, ReadInv, NEW s \in Server, Work(s)
  PROVE  ReadInv'
<1>1. ASSUME NEW r \in Request, Dispatch(s, r) PROVE ReadInv'
  <2>1. CASE AbortOnBody(s, r)
    BY <2>1, StopReads DEF AbortOnBody, ReadInv, AdriftIsPlain
  <2>2. CASE AnswerAtOnce(s, r) \/ RejectBody(s, r) \/ CreateNothing(s, r)
    BY <2>2, RespondReads DEF AnswerAtOnce, RejectBody, CreateNothing, Throw, Takes
  <2>3. CASE StartQuery(s, r) \/ StartCreate(s, r)
    <3>1. PICK first : StartWork(s, r, first) /\ phase[r] = "pending"
      BY <2>3 DEF StartQuery, StartCreate, Takes
    <3>2. rows' = rows /\ adrift' = adrift /\ known' = known /\ pc'[s] = "exec"
      BY <3>1 DEF StartWork, dbVars, IInv, TypeOK
    <3>3. \A t \in Server \ {s} : Keeps(t) /\ conn'[t] = conn[t]
      BY <3>1 DEF IInv, TypeOK, WorkerAt, Keeps, StartWork, connVars
    <3> QED
      BY <3>2, <3>3, GoOnReads
  <2> QED
    BY <1>1, <2>1, <2>2, <2>3 DEF Dispatch
<1>2. CASE LogCrashes(s)
  BY <1>2, StopReads DEF LogCrashes, ReadInv, AdriftIsPlain
<1>3. CASE ExecuteOnDead(s) \/ Execute(s) \/ ExecuteLost(s)
  BY <1>3, ExecReads
<1>4. CASE \/ LogThrows(s) \/ StatementFailed(s) \/ UserNotFound(s)
           \/ QueryDone(s) \/ BatchDone(s)
  <2>1. Active(s)
    BY <1>4 DEF LogThrows, StatementFailed, UserNotFound, QueryDone, BatchDone,
                InsertSucceeded, Active
  <2>2. task[s] \in Request /\ host[task[s]] = s
    BY <2>1 DEF IInv, WorkerAt
  <2>3. \E code, body : Respond(s, task[s], code, body)
    BY <1>4 DEF LogThrows, StatementFailed, UserNotFound, QueryDone, BatchDone, Throw
  <2> QED
    BY <2>2, <2>3, RespondReads
<1>5. CASE NextSubentity(s) \/ NextEntity(s)
  <2>1. PICK p, q : ContinueAt(s, p, q)
    BY <1>5 DEF NextSubentity, NextEntity
  <2>2. rows' = rows /\ adrift' = adrift /\ known' = known /\ pc'[s] = "exec"
    BY <2>1 DEF ContinueAt, requestVars, dbVars, IInv, TypeOK
  <2>3. \A t \in Server \ {s} : Keeps(t) /\ conn'[t] = conn[t]
    BY <2>1 DEF IInv, TypeOK, Keeps, ContinueAt, requestVars
  <2> QED
    BY <2>2, <2>3, GoOnReads
<1> QED
  BY <1>1, <1>2, <1>3, <1>4, <1>5 DEF Work

-----------------------------------------------------------------------------
(* The invariant. *)

\* Nothing is known, running or broken at the start, and the first rows are plain.
LEMMA InitReadInv == Init => ReadInv
<1> SUFFICES ASSUME Init PROVE ReadInv
  OBVIOUS
<1>1. RowsArePlain /\ AdriftIsPlain
  BY SeedsAssumption DEF Init, DbInit, RowsArePlain, AdriftIsPlain
<1>2. \A r \in Request : KnownAt(r)
  BY DEF Init, KnownAt
<1>3. \A s \in Server : SessionAt(s) /\ ReadAt(s)
  BY DEF Init, SessionAt, ReadAt
<1> QED
  BY <1>1, <1>2, <1>3 DEF ReadInv

\* The actions, each by the lemma of its group.
LEMMA StepReadInv == IInv /\ ReadInv /\ [Next]_vars => ReadInv'
<1> SUFFICES ASSUME IInv, ReadInv, [Next]_vars PROVE ReadInv'
  OBVIOUS
<1>1. ASSUME NEW s \in Server, Work(s) PROVE ReadInv'
  BY <1>1, WorkReads
<1>2. ASSUME NEW s \in Server, Crash(s) PROVE ReadInv'
  BY <1>2, CrashReads
<1>3. ASSUME NEW s \in Server, Boot(s) PROVE ReadInv'
  BY <1>3, BootReads
<1>4. ASSUME NEW r \in Request, NEW s \in Server, NEW a \in Offers, Send(r, s, a)
      PROVE  ReadInv'
  BY <1>4, SendReads
<1>5. CASE UNCHANGED vars
  <2>1. /\ rows' = rows /\ adrift' = adrift /\ known' = known /\ conn' = conn /\ task' = task
        /\ \A t \in Server : Keeps(t) /\ conn'[t] = conn[t]
    BY <1>5 DEF vars, dbVars, connVars, requestVars, workerVars, Keeps
  <2>2. RowsArePlain' /\ AdriftIsPlain' /\ \A r \in Request : KnownAt(r)'
    BY <2>1 DEF ReadInv, RowsArePlain, AdriftIsPlain, KnownAt
  <2>3. \A t \in Server : SessionAt(t)' /\ ReadAt(t)'
    BY <2>1, ReadFrame
  <2> QED
    BY <2>2, <2>3 DEF ReadInv
<1>6. ASSUME NEW m \in adrift, RunLate(m) PROVE ReadInv'
  BY <1>6, LateReads
<1> QED
  BY <1>1, <1>2, <1>3, <1>4, <1>5, <1>6 DEF Next

\* What a worker holds for a query has all that was known when the query was
\* sent, and over a broken connection it holds an error, in every state of
\* every behaviour.
THEOREM ReadInvariance == Spec => []ReadInv
<1>1. Init => ReadInv
  BY InitReadInv
<1>2. IInv /\ ReadInv /\ [Next]_vars => ReadInv'
  BY StepReadInv
<1> QED
  BY <1>1, <1>2, Invariance, PTL DEF Spec

-----------------------------------------------------------------------------
(* What follows for the answers. *)

\* A process whose connection is broken, or was never there, reports neither
\* success nor an empty result.
THEOREM DeadConnectionsAnswer500 == Spec => DeadConnectionAnswers500
<1>1. ASSUME IInv, ReadInv, [Next]_vars, NEW s \in Server, NEW r \in Request,
             Answers(s, r), conn[s] = "bad", NeedsDatabase(ask[r])
      PROVE  answer'[r].code = 500
  <2>1. ASSUME Throw(s, r) PROVE answer'[r].code = 500
    <3>1. answer'[r] = [code |-> 500, body |-> NoBody]
      BY <1>1, <2>1, AnswerGiven DEF Throw
    <3> QED
      BY <3>1
  <2>2. CASE AnswerAtOnce(s, r) \/ CreateNothing(s, r)
    BY <1>1, <2>2 DEF AnswerAtOnce, CreateNothing, IsFixed, NeedsDatabase, IsQuery, IsCreate
  <2>3. CASE RejectBody(s, r)
    BY <2>1, <2>3 DEF RejectBody
  <2>4. CASE r = task[s] /\ (LogThrows(s) \/ StatementFailed(s) \/ UserNotFound(s))
    BY <2>1, <2>4 DEF LogThrows, StatementFailed, UserNotFound
  <2>5. CASE QueryDone(s) \/ BatchDone(s)
    BY <1>1, <2>5 DEF QueryDone, BatchDone, InsertSucceeded, ReadInv, SessionAt
  <2> QED
    BY <1>1, <2>2, <2>3, <2>4, <2>5, AnswerSteps
<1>2. IInv /\ ReadInv /\ [Next]_vars =>
        [\A s \in Server, r \in Request :
           Answers(s, r) /\ conn[s] = "bad" /\ NeedsDatabase(ask[r]) =>
             answer'[r].code = 500]_vars
  BY <1>1
<1> QED
  BY <1>2, Invariance, ReadInvariance, PTL DEF Spec, DeadConnectionAnswers500

\* The step in which a query is answered over a connection that works.
LEMMA QueryAnswered ==
  ASSUME IInv, ReadInv, [Next]_vars, NEW s \in Server, NEW r \in Request,
         Answers(s, r), IsQuery(ask[r]), conn[s] = "ok",
         NEW x \in known[r], x \in Selected(Query(ask[r]))
  PROVE  /\ r = task[s] /\ pc[s] = "result" /\ QueryDone(s) /\ ask[r] \in Offers
         /\ IF ask[r].path = "user_exists"
            THEN reply[s].data = TRUE
            ELSE x \in reply[s].data /\ reply[s].data \subseteq Selected(Sent(Query(ask[r])))
<1>1. ~IsCreate(ask[r]) /\ ~IsFixed(ask[r])
  BY DEF IsCreate, IsQuery, IsFixed
<1>2. ~(AnswerAtOnce(s, r) \/ RejectBody(s, r) \/ CreateNothing(s, r))
  BY <1>1 DEF AnswerAtOnce, RejectBody, CreateNothing
<1>3. /\ Active(s) /\ r = task[s]
      /\ \/ LogThrows(s) \/ StatementFailed(s) \/ UserNotFound(s)
         \/ QueryDone(s) \/ BatchDone(s)
  BY <1>2, AnswerSteps
<1>4. ask[r] \in Offers /\ Job(s) = ask[r]
  BY <1>3, JobType DEF IInv, Job
<1>5. ~LogThrows(s)
  <2>1. Statement(s) = Query(ask[r])
    BY <1>1, <1>4 DEF Statement
  <2>2. Query(ask[r]).op # "insert"
    BY <1>4, QueryShape
  <2> QED
    BY <2>1, <2>2 DEF LogThrows, LogIsUndefined
<1>6. pc[s] = "result" /\ ~BatchDone(s)
  BY <1>1, <1>3, <1>4, <1>5 DEF StatementFailed, UserNotFound, QueryDone, BatchDone,
                               InsertSucceeded
<1>7. /\ ~Failed(s)
      /\ ask[r].path = "user_exists" => reply[s].data = TRUE
      /\ ask[r].path # "user_exists" =>
           x \in reply[s].data /\ reply[s].data \subseteq Selected(Sent(Query(ask[r])))
  BY <1>3, <1>4, <1>6 DEF ReadInv, ReadAt
<1>8. QueryDone(s)
  BY <1>3, <1>4, <1>5, <1>6, <1>7 DEF StatementFailed, UserNotFound
<1> QED
  BY <1>3, <1>4, <1>6, <1>7, <1>8

\* The answer to GET /users/<int> is of the one user with that key.
LEMMA OneUserFound ==
  ASSUME IInv, KeysOnce, NEW a \in Offers, IsQuery(a), a.path = "user",
         NEW x \in Selected(Sent(Query(a))), NEW y \in Selected(Sent(Query(a)))
  PROVE  x = y
<1> DEFINE q == Sent(Query(a))
<1>1. q.column = "id"
  BY QueryShape
<1> HIDE DEF q
<1>2. /\ x \in rows /\ x.tbl = q.tbl /\ x.id = q.value
      /\ y \in rows /\ y.tbl = q.tbl /\ y.id = q.value
  BY <1>1 DEF Selected, Of, Matches, q
<1> QED
  BY <1>2 DEF KeysOnce

\* A query answered over a working connection shows every row it selects that
\* some client had been told of before it was sent.
THEOREM ReadsShowWhatIsKnown == Spec => ReadsSeeKnown
<1>1. ASSUME IInv, BatchInv, ReadInv, [Next]_vars, NEW s \in Server, NEW r \in Request,
             Answers(s, r), IsQuery(ask[r]), conn[s] = "ok",
             NEW x \in known[r], x \in Selected(Query(ask[r]))
      PROVE  Shows(answer'[r], ask[r], x)
  <2> DEFINE a == ask[r]
             D == reply[s].data
  <2>1. /\ r = task[s] /\ QueryDone(s) /\ a \in Offers /\ Job(s) = a
        /\ a.path = "user_exists" => D = TRUE
        /\ a.path # "user_exists" => x \in D /\ D \subseteq Selected(Sent(Query(a)))
    BY <1>1, QueryAnswered DEF Job
  <2>2. answer'[r] = [code |-> QueryCode(s), body |-> QueryBody(s)]
    BY <1>1, <2>1, AnswerGiven DEF QueryDone
  <2>3. answer'[r].code = QueryCode(s) /\ answer'[r].body = QueryBody(s)
    BY <2>2
  <2>4. a.path \in Routes \ {"test"}
    BY <1>1, <2>1, OffersAssumption DEF IsQuery
  <2>5. CASE a.path = "user_exists"
    <3>1. Job(s).path = "user_exists"
      BY <2>1, <2>5
    <3>2. QueryCode(s) = 200
      BY <3>1 DEF QueryCode
    <3>3. QueryCode(s) # 204
      BY <3>2
    <3>4. QueryBody(s) = [type |-> "object", value |-> D]
      BY <3>1, <3>3 DEF QueryBody
    <3>5. D = TRUE
      BY <2>1, <2>5
    <3>6. QueryBody(s) = [type |-> "object", value |-> TRUE]
      BY <3>4, <3>5, Zenon
    <3> QED
      BY <2>3, <2>5, <3>2, <3>6 DEF Shows
  <2>6. CASE a.path # "user_exists"
    <3>1. GetRows(s) = {AsEntity(y) : y \in D} /\ AsEntity(x) \in GetRows(s) /\ D # {}
      BY <2>1, <2>6 DEF GetRows
    <3>2. CASE a.path = "user"
      <4>1. \A y \in D : y = x
        BY <1>1, <2>1, <3>2, OneUserFound DEF BatchInv
      <4>2. GetRows(s) = {AsEntity(x)}
        BY <2>1, <2>6, <3>1, <4>1
      <4>3. QueryCode(s) = 200 /\ QueryBody(s).objects = {AsEntity(x)}
        BY <2>1, <3>2, <4>2 DEF QueryCode, QueryBody
      <4> QED
        BY <2>3, <3>2, <4>3 DEF Shows
    <3>3. CASE a.path = "users_search"
      <4>1. QueryCode(s) = 201
        BY <2>1, <3>1, <3>3 DEF QueryCode
      <4>2. QueryBody(s) = ToJson(GetRows(s))
        BY <2>1, <3>3, <4>1 DEF QueryBody
      <4>3. QueryBody(s).objects = GetRows(s)
        BY <4>2 DEF ToJson
      <4> QED
        BY <2>3, <3>1, <3>3, <4>1, <4>3 DEF Shows
    <3>4. CASE a.path \in {"users", "courses", "course"}
      <4>1. QueryCode(s) = 200
        BY <2>1, <3>4 DEF QueryCode
      <4>2. QueryBody(s) = ToJson(GetRows(s))
        BY <2>1, <3>4, <4>1 DEF QueryBody
      <4>3. QueryBody(s).objects = GetRows(s)
        BY <4>2 DEF ToJson
      <4> QED
        BY <2>3, <3>1, <3>4, <4>1, <4>3 DEF Shows
    <3> QED
      BY <2>4, <2>6, <3>2, <3>3, <3>4 DEF Routes
  <2> QED
    BY <2>5, <2>6
<1>2. IInv /\ BatchInv /\ ReadInv /\ [Next]_vars =>
        [\A s \in Server, r \in Request :
           Answers(s, r) /\ IsQuery(ask[r]) /\ conn[s] = "ok" =>
             \A x \in known[r] :
               x \in Selected(Query(ask[r])) => Shows(answer'[r], ask[r], x)]_vars
  BY <1>1
<1> QED
  BY <1>2, Invariance, BatchInvariance, ReadInvariance, PTL DEF Spec, ReadsSeeKnown
=============================================================================
