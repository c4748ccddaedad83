-------------------------- MODULE BackendBatchProofs --------------------------
(***************************************************************************)
(* Theorems about what is stored of the bodies of requests, for any number *)
(* of processes and requests, any bodies and any contents of the database: *)
(* each entity once, as it was sent, modules under their own course, and   *)
(* completely when the answer is 201.  They follow from BatchInv, which is *)
(* inductive given IInv.                                                   *)
(***************************************************************************)
EXTENDS BackendAppProofs, FiniteSetTheorems

-----------------------------------------------------------------------------
(* Bodies and statements. *)

\* Only the entities of POST /courses have subentities.
LEMMA OnlyCoursesHaveModules ==
  ASSUME NEW a \in Offers, NEW i, NEW j, IsPlace(a, i, j), j # 0
  PROVE  Target(a) = "courses"
<1> DEFINE T == Target(a)
           es == Elements(a.body)
<1>1. IsCreate(a) /\ BodyOutcome(a) = "ok" /\ T \in Tables
  BY BatchType DEF IsPlace
<1>2. Batch(a) = Deserialize(T, a.body)
  BY <1>1 DEF BodyOutcome, Batch, Batches, BodyOutcomes
<1>3. /\ i \in 1..Len(Batch(a)) /\ j \in Nat
      /\ j =< Len(Batch(a)[i].subs)
  BY PlaceType
<1>4. IsBody(T, a.body) /\ a.body.type # "garbage"
  <2>1. Outcome(T, a.body) = "ok"
    BY <1>1 DEF BodyOutcome, BodyOutcomes
  <2> QED
    BY <1>1, <2>1, OffersAssumption DEF Outcome
<1>5. Len(es) \in Nat
  BY <1>4, ElementsType DEF IsBody
<1>6. Batch(a)[i].subs = Subentities(T, es[i])
  <2> HIDE DEF es, T
  <2>1. Batch(a) = [k \in 1..Len(es) |-> [val  |-> FromJson(T, es[k]),
                                          subs |-> Subentities(T, es[k])]]
    BY <1>2 DEF Deserialize, es, T
  <2>2. Len(Batch(a)) = Len(es)
    BY <1>5, <2>1
  <2> QED
    BY <1>3, <2>1, <2>2
<1>7. SUFFICES ASSUME T # "courses" PROVE FALSE
  OBVIOUS
<1>8. LinkElements(T, es[i]) = <<>>
  BY <1>1, <1>7 DEF LinkElements, Links, Tables
<1>9. Len(Subentities(T, es[i])) = 0
  BY <1>8 DEF Subentities
<1> QED
  BY <1>3, <1>6, <1>9

\* The server gets values cut at their first NUL character, once and for all;
\* numbers as they are.
LEMMA ArgumentsFacts ==
  ASSUME NEW T, NEW v \in [InsertColumns(T) -> Value]
  PROVE  /\ Arguments(v) \in [InsertColumns(T) -> Value]
         /\ Arguments(Arguments(v)) = Arguments(v)
         /\ \A n \in Int : Argument(n) = n
<1>1. \A n \in Int : Argument(n) = n
  BY ConstantsAssumption DEF Argument
<1>2. \A x \in Value : Argument(x) \in Value /\ Argument(Argument(x)) = Argument(x)
  BY ArgumentsAssumption DEF Argument, Value
<1>3. /\ Arguments(v) = [c \in InsertColumns(T) |-> Argument(v[c])]
      /\ Arguments(Arguments(v)) = [c \in InsertColumns(T) |-> Argument(Argument(v[c]))]
  BY DEF Arguments
<1> QED
  BY <1>1, <1>2, <1>3

\* A subentity is sent with the key it is given.
LEMMA LinkedKey ==
  ASSUME NEW v \in [InsertColumns("modules") -> Value], NEW id \in Int
  PROVE  Arguments(Linked(v, id))["course_id"] = id
<1>1. "course_id" \in InsertColumns("modules")
  <2>1. Columns["modules"] = <<"id", "course_id", "title", "description">>
    BY DEF Columns
  <2>2. 2 \in 1..Len(Columns["modules"]) /\ Columns["modules"][2] = "course_id"
    BY <2>1
  <2> QED
    BY <2>2 DEF InsertColumns, PrimaryKey
<1>2. Linked(v, id)["course_id"] = id /\ "course_id" \in DOMAIN Linked(v, id)
  BY <1>1 DEF Linked
<1>3. Argument(id) = id
  BY ConstantsAssumption DEF Argument
<1> QED
  BY <1>2, <1>3 DEF Arguments

\* The INSERT the server gets from a worker that creates.
LEMMA InsertType ==
  ASSUME TypeOK, NEW s \in Server, WorkerAt(s), Creates(s)
  PROVE  LET stmt == Sent(Statement(s))
             e    == Batch(Job(s))[pos[s]]
         IN  /\ stmt.op = "insert" /\ stmt.tbl \in Tables
             /\ stmt.val \in [InsertColumns(stmt.tbl) -> Value]
             /\ sub[s] = 0 => stmt.tbl = Target(Job(s)) /\ stmt.val = Arguments(e.val)
             /\ sub[s] # 0 => /\ stmt.tbl = "modules"
                              /\ stmt.val = Arguments(Linked(e.subs[sub[s]], ids[s][pos[s]]))
             /\ Arguments(stmt.val) = stmt.val
<1> DEFINE stmt == Sent(Statement(s))
           e    == Batch(Job(s))[pos[s]]
<1>1. /\ stmt.op = "insert" /\ stmt.tbl \in Tables
      /\ stmt.val \in [InsertColumns(stmt.tbl) -> Value]
  BY StatementType DEF Creates
<1>2. Statement(s) = InsertStatement(s)
  BY DEF Creates, Statement
<1>3. CASE sub[s] = 0
  <2>1. Statement(s) = [op |-> "insert", tbl |-> Target(Job(s)), val |-> e.val]
    BY <1>2, <1>3 DEF InsertStatement
  <2>2. stmt.tbl = Target(Job(s)) /\ stmt.val = Arguments(e.val)
    BY <2>1 DEF Sent
  <2>3. e.val \in [InsertColumns(Target(Job(s))) -> Value]
    BY JobType, PlaceType DEF WorkerAt, Creates
  <2>4. Arguments(stmt.val) = stmt.val
    BY <2>2, <2>3, ArgumentsFacts
  <2> QED
    BY <1>1, <1>3, <2>2, <2>4
<1>4. CASE sub[s] # 0
  <2> DEFINE v == Linked(e.subs[sub[s]], ids[s][pos[s]])
  <2>1. Statement(s) = [op |-> "insert", tbl |-> "modules", val |-> v]
    BY <1>2, <1>4 DEF InsertStatement
  <2>2. stmt.tbl = "modules" /\ stmt.val = Arguments(v)
    BY <2>1 DEF Sent
  <2>3. v \in [InsertColumns("modules") -> Value]
    <3>1. IsPlace(Job(s), pos[s], sub[s]) /\ Job(s) \in Offers
      BY JobType DEF WorkerAt, Creates
    <3>2. e.subs[sub[s]] \in [InsertColumns("modules") -> Value]
      <4>1. e.subs \in Seq([InsertColumns("modules") -> Value])
        BY <3>1, PlaceType
      <4>2. sub[s] \in 1..Len(e.subs)
        BY <1>4, <3>1, <4>1, PlaceType
      <4> QED
        BY <4>1, <4>2
    <3>3. ids[s][pos[s]] \in Value
      <4>1. ids[s] \in Seq(1..MaxInt) /\ Len(ids[s]) = pos[s]
        BY <1>4 DEF TypeOK, WorkerAt
      <4>2. pos[s] \in 1..Len(ids[s])
        BY <3>1, <4>1, PlaceType
      <4>3. ids[s][pos[s]] \in 1..MaxInt
        BY <4>1, <4>2, ElementOfSeq
      <4> QED
        BY <4>3, ConstantsAssumption DEF Value
    <3> QED
      BY <3>2, <3>3 DEF Linked
  <2>4. Arguments(stmt.val) = stmt.val
    BY <2>2, <2>3, ArgumentsFacts
  <2> QED
    BY <1>1, <1>4, <2>2, <2>4
<1> QED
  BY <1>3, <1>4

-----------------------------------------------------------------------------
(* What a statement does. *)

\* Row x is stored, under the next key of its table.
AddsRow(x) ==
  /\ x.tbl \in Tables /\ Accepts(x.tbl, x.val) /\ x.id = serial[x.tbl]
  /\ rows' = rows \cup {x}
  /\ serial' = [serial EXCEPT ![x.tbl] = @ + 1]

\* Worker s stores row x, with the values the server gets, for the place the
\* worker is at.
Inserts(s, x) ==
  LET stmt == Sent(Statement(s))
  IN  /\ AddsRow(x)
      /\ x = [tbl |-> stmt.tbl, id |-> serial[stmt.tbl], val |-> stmt.val,
              req |-> task[s], i |-> pos[s], j |-> sub[s]]

\* Nothing is stored; a refused INSERT may have used up a key.
StoresNothing == rows' = rows /\ \A T \in Tables : serial[T] =< serial'[T]

\* A statement that runs stores its row and has its key for a result, or it
\* stores nothing and an INSERT has an error for a result.
LEMMA RunsInserts ==
  ASSUME IInv, NEW s \in Server, Active(s),
         Runs(Sent(Statement(s)), task[s], pos[s], sub[s])
  PROVE  \/ /\ Creates(s)
            /\ \E x : /\ Inserts(s, x)
                      /\ Result(Sent(Statement(s))) = Tuples(x.id)
         \/ /\ StoresNothing
            /\ Creates(s) => Result(Sent(Statement(s))) = Fatal
<1> DEFINE stmt == Sent(Statement(s))
<1>1. TypeOK /\ WorkerAt(s) /\ serial \in [Tables -> 1..(MaxInt + 1)] /\ MaxInt \in Nat
  BY ConstantsAssumption DEF IInv, TypeOK
<1>2. CASE Creates(s)
  <2>1. stmt.op = "insert" /\ stmt.tbl \in Tables
    BY <1>1, <1>2, InsertType
  <2> HIDE DEF stmt
  <2>2. CASE Accepts(stmt.tbl, stmt.val)
    <3> DEFINE x == [tbl |-> stmt.tbl, id |-> serial[stmt.tbl], val |-> stmt.val,
                     req |-> task[s], i |-> pos[s], j |-> sub[s]]
    <3>1. Insert(stmt.tbl, stmt.val, task[s], pos[s], sub[s])
      BY <2>1, <2>2 DEF Runs, stmt
    <3>2. Inserts(s, x)
      BY <2>1, <2>2, <3>1 DEF Inserts, AddsRow, Insert, stmt
    <3>3. Result(stmt) = Tuples(serial[stmt.tbl])
      BY <2>1, <2>2 DEF Result
    <3> QED
      BY <1>2, <3>2, <3>3 DEF stmt
  <2>3. CASE ~Accepts(stmt.tbl, stmt.val)
    <3>1. Refuse(stmt.tbl)
      BY <2>1, <2>3 DEF Runs, stmt
    <3>2. StoresNothing
      BY <1>1, <2>1, <3>1 DEF Refuse, StoresNothing
    <3>3. Result(stmt) = Fatal
      BY <2>1, <2>3 DEF Result
    <3> QED
      BY <3>2, <3>3 DEF stmt
  <2> QED
    BY <2>2, <2>3
<1>3. CASE ~Creates(s)
  <2>1. stmt.op \in {"select", "exists"}
    BY <1>1, <1>3, StatementType
  <2> HIDE DEF stmt
  <2>2. rows' = rows /\ serial' = serial
    BY <2>1 DEF Runs, dbVars, stmt
  <2>3. StoresNothing
    BY <1>1, <2>2 DEF StoresNothing
  <2> QED
    BY <1>3, <2>3
<1> QED
  BY <1>2, <1>3

\* What exec does: the worker goes on to the result.  If a row was stored, the
\* result is its key, or an error over a connection that has just broken.
LEMMA ExecEffect ==
  ASSUME IInv, NEW s \in Server, ExecuteOnDead(s) \/ Execute(s) \/ ExecuteLost(s)
  PROVE  /\ pc[s] = "exec" /\ pc'[s] = "result" /\ UNCHANGED requestVars
         /\ task' = task /\ pos' = pos /\ sub' = sub /\ ids' = ids
         /\ \A t \in Server \ {s} : Keeps(t) /\ conn'[t] = conn[t]
         /\ \/ StoresNothing /\ (Creates(s) => reply'[s].status = "fatal")
            \/ /\ Creates(s)
               /\ \E x : /\ Inserts(s, x)
                         /\ \/ reply'[s].status = "fatal" /\ conn'[s] = "bad"
                            \/ reply'[s].status = "tuples" /\ reply'[s].data = x.id
<1>1. AwaitsReply(s) /\ Active(s)
  BY DEF ExecuteOnDead, Execute, ExecuteLost, AwaitsReply, Active
<1>2. /\ pc[s] = "exec" /\ pc'[s] = "result" /\ UNCHANGED requestVars
      /\ task' = task /\ pos' = pos /\ sub' = sub /\ ids' = ids
  BY <1>1 DEF AwaitsReply, IInv, TypeOK
<1>3. /\ DOMAIN reply = Server /\ conn \in [Server -> {"closed", "ok", "bad"}]
      /\ serial \in [Tables -> 1..(MaxInt + 1)] /\ MaxInt \in Nat
  BY ConstantsAssumption DEF IInv, TypeOK
<1>4. /\ \E result : reply' = [reply EXCEPT ![s] = result]
      /\ conn' = conn \/ conn' = [conn EXCEPT ![s] = "bad"]
  BY DEF ExecuteOnDead, Execute, ExecuteLost, ExecOnDead, ExecReplied, ExecLost
<1>5. \A t \in Server \ {s} : Keeps(t) /\ conn'[t] = conn[t]
  BY <1>1, <1>2, <1>3, <1>4 DEF Keeps, AwaitsReply, requestVars, IInv, TypeOK
<1>6. Fatal.status = "fatal"
  BY DEF Fatal
<1>7. ASSUME rows' = rows, serial' = serial, reply' = [reply EXCEPT ![s] = Fatal]
      PROVE  StoresNothing /\ reply'[s].status = "fatal"
  BY <1>3, <1>6, <1>7 DEF StoresNothing
<1>8. CASE ExecuteOnDead(s)
  BY <1>2, <1>5, <1>7, <1>8 DEF ExecuteOnDead, ExecOnDead, dbVars
<1>9. CASE Execute(s)
  <2>1. /\ Runs(Sent(Statement(s)), task[s], pos[s], sub[s])
        /\ reply'[s] = Result(Sent(Statement(s)))
    BY <1>3, <1>9 DEF Execute, ExecReplied
  <2>2. CASE /\ Creates(s)
             /\ \E x : /\ Inserts(s, x)
                       /\ Result(Sent(Statement(s))) = Tuples(x.id)
    BY <1>2, <1>5, <2>1, <2>2 DEF Tuples
  <2>3. CASE /\ StoresNothing
             /\ Creates(s) => Result(Sent(Statement(s))) = Fatal
    BY <1>2, <1>5, <1>6, <2>1, <2>3
  <2> QED
    BY <1>1, <2>1, <2>2, <2>3, RunsInserts
<1>10. CASE ExecuteLost(s)
  <2>1. /\ rows' = rows /\ serial' = serial
        /\ reply' = [reply EXCEPT ![s] = Fatal]
    BY <1>10 DEF ExecuteLost, ExecLost
  <2> QED
    BY <1>2, <1>5, <1>7, <2>1
<1> QED
  BY <1>8, <1>9, <1>10

-----------------------------------------------------------------------------
(* What a step leaves alone. *)

\* Two workers do not handle the same request.
LEMMA OwnTask ==
  ASSUME IInv, NEW s \in Server, NEW t \in Server, Active(s), Active(t), s # t
  PROVE  task[s] # task[t]
  BY DEF IInv, WorkerAt

\* Rows that stay as they are, while keys may be used up.
LEMMA KeysFrame ==
  ASSUME TypeOK, KeysOnce, UniquesOnce, StoresNothing,
         serial' \in [Tables -> 1..(MaxInt + 1)]
  PROVE  KeysOnce' /\ UniquesOnce'
<1>1. \A x \in rows : x.tbl \in Tables /\ x.id \in Int
  BY ConstantsAssumption DEF TypeOK, IsRow, RowOf
<1>2. \A T \in Tables : serial[T] \in Int /\ serial'[T] \in Int /\ serial[T] =< serial'[T]
  BY ConstantsAssumption DEF TypeOK, StoresNothing
<1>3. KeysOnce'
  BY <1>1, <1>2 DEF KeysOnce, StoresNothing
<1>4. UniquesOnce'
  BY DEF UniquesOnce, StoresNothing
<1> QED
  BY <1>3, <1>4

\* The rows of a request that the step neither stores for nor asks anew.
LEMMA StoredFrame ==
  ASSUME NEW r \in Request, StoredAt(r), StoredFor(r)' = StoredFor(r),
         ask'[r] = ask[r] \/ StoredFor(r) = {}
  PROVE  StoredAt(r)'
<1>1. CASE StoredFor(r) = {}
  BY <1>1 DEF StoredAt
<1>2. CASE ask'[r] = ask[r]
  BY <1>2 DEF StoredAt, InsertedAs
<1> QED
  BY <1>1, <1>2

\* The answer to a request that the step does not answer.
LEMMA AnsweredFrame ==
  ASSUME NEW r \in Request, AnsweredAt(r), answer'[r] = answer[r],
         \/ answer[r].code = 0
         \/ /\ phase'[r] = phase[r] /\ ask'[r] = ask[r]
            /\ StoredFor(r)' = StoredFor(r)
  PROVE  AnsweredAt(r)'
<1>1. CASE answer[r].code = 0
  BY <1>1 DEF AnsweredAt
<1>2. CASE /\ phase'[r] = phase[r] /\ ask'[r] = ask[r]
           /\ StoredFor(r)' = StoredFor(r)
  <2>1. Reported(r)' = Reported(r) /\ (Complete(r)' <=> Complete(r))
    BY <1>2 DEF Reported, Complete, IsStored
  <2> QED
    BY <1>2, <2>1 DEF AnsweredAt
<1> QED
  BY <1>1, <1>2

\* The batch of a worker that is left alone.
LEMMA BatchFrame ==
  ASSUME NEW t \in Server, BatchAt(t), Keeps(t), conn'[t] = conn[t],
         Creates(t) => StoredFor(task[t])' = StoredFor(task[t])
  PROVE  BatchAt(t)'
<1>1. Creates(t)' <=> Creates(t)
  BY DEF Keeps, Creates, Active, Job
<1>2. Failed(t)' <=> Failed(t)
  BY DEF Failed, Keeps
<1>3. Creates(t) => StoredFor(task[t])' = {x \in rows' : x.req = task'[t]}
  BY DEF Keeps, StoredFor
<1> SUFFICES ASSUME Creates(t) PROVE BatchAt(t)'
  BY <1>1 DEF BatchAt
<1>4. StoredFor(task[t])' = StoredFor(task[t]) /\ task'[t] = task[t]
  BY DEF Keeps
<1> QED
  BY <1>1, <1>2, <1>4 DEF BatchAt, Keeps

\* What is adrift is as BatchInv says.
OnceHolds == \A m \in adrift : AdriftOnce(m)

\* An INSERT that stays adrift, of a request that the step leaves as it is.
LEMMA OnceSurvives ==
  ASSUME BatchInv, NEW m \in adrift,
         StoredFor(m.req)' = StoredFor(m.req), ask'[m.req] = ask[m.req],
         answer'[m.req].code # 201,
         \A n \in adrift' : n.req = m.req => n \in adrift,
         \A t \in Server : Active(t)' /\ task'[t] = m.req =>
           Keeps(t) /\ conn'[t] = conn[t]
  PROVE  AdriftOnce(m)'
<1>1. AdriftOnce(m)
  BY DEF BatchInv
<1>2. InsertedAs(m.req, m)'
  BY <1>1 DEF AdriftOnce, InsertedAs
<1>3. ASSUME NEW t \in Server, Active(t)', task'[t] = m.req
      PROVE  /\ pc'[t] = "result" /\ Failed(t)' /\ conn'[t] = "bad"
             /\ m.i = pos'[t] /\ m.j = sub'[t]
  <2>1. Keeps(t) /\ conn'[t] = conn[t]
    BY <1>3
  <2>2. Active(t) /\ task[t] = m.req
    BY <1>3, <2>1 DEF Active, Keeps
  <2> QED
    BY <1>1, <2>1, <2>2 DEF AdriftOnce, Keeps, Failed
<1> QED
  BY <1>1, <1>2, <1>3 DEF AdriftOnce

\* A step that stores nothing and sends nothing adrift.
LEMMA OnceFrame ==
  ASSUME IInv, BatchInv, adrift' = adrift, rows' = rows,
         \A q \in Request : Settled(q) => ask'[q] = ask[q],
         \A m \in adrift : answer'[m.req].code # 201,
         \A t \in Server : \/ Keeps(t) /\ conn'[t] = conn[t]
                           \/ Active(t)' => \A m \in adrift : task'[t] # m.req
  PROVE  OnceHolds'
<1> SUFFICES ASSUME NEW m \in adrift PROVE AdriftOnce(m)'
  BY DEF OnceHolds
<1>1. m.req \in Request /\ Settled(m.req)
  BY DEF IInv, TypeOK, IsAdrift, AdriftOf, AdriftAt, Settled
<1>2. StoredFor(m.req)' = StoredFor(m.req)
  BY DEF StoredFor
<1> QED
  BY <1>1, <1>2, OnceSurvives

-----------------------------------------------------------------------------
(* The steps, by what they have in common. *)

\* A step that stores nothing, and after which no worker but perhaps one, and
\* no answer but perhaps one, is another than before.
LEMMA QuietStep ==
  ASSUME IInv, BatchInv, IInv', NEW s \in Server, StoresNothing, BatchAt(s)',
         OnceHolds',
         \A t \in Server \ {s} : Keeps(t) /\ conn'[t] = conn[t],
         \A q \in Request : ask'[q] = ask[q] \/ phase[q] = "unsent",
         \A q \in Request :
           \/ AnsweredAt(q)'
           \/ /\ answer'[q] = answer[q]
              /\ answer[q].code = 0 \/ phase'[q] = phase[q]
  PROVE  BatchInv'
<1>1. \A q : StoredFor(q)' = StoredFor(q)
  BY DEF StoredFor, StoresNothing
<1>2. KeysOnce' /\ UniquesOnce'
  BY KeysFrame DEF IInv, TypeOK, BatchInv
<1>3. ASSUME NEW q \in Request
      PROVE  StoredAt(q)' /\ AnsweredAt(q)'
  <2>1. ask'[q] = ask[q] \/ (StoredFor(q) = {} /\ phase[q] = "unsent")
    BY DEF IInv, RequestAt
  <2>2. StoredAt(q)'
    BY <1>1, <2>1, StoredFrame DEF BatchInv
  <2>3. AnsweredAt(q)'
    <3>1. answer[q].code = 0 \/ ask'[q] = ask[q]
      BY <2>1 DEF BatchInv, AnsweredAt
    <3> QED
      BY <1>1, <3>1, AnsweredFrame DEF BatchInv
  <2> QED
    BY <2>2, <2>3
<1>4. ASSUME NEW t \in Server
      PROVE  BatchAt(t)'
  <2>1. CASE t = s
    BY <2>1
  <2>2. CASE t # s
    <3>1. StoredFor(task[t])' = StoredFor(task[t])
      BY <2>2 DEF Keeps, StoredFor, StoresNothing
    <3> QED
      BY <2>2, <3>1, BatchFrame DEF BatchInv
  <2> QED
    BY <2>1, <2>2
<1> QED
  BY <1>2, <1>3, <1>4 DEF BatchInv, OnceHolds

\* A worker that creates nothing has no batch.
LEMMA NoBatch ==
  ASSUME NEW s \in Server, pc'[s] \in {"down", "idle"} \/ ~IsCreate(Job(s)')
  PROVE  BatchAt(s)'
  BY DEF BatchAt, Creates, Active

\* A worker answers a request it was sent; what a 201 says is true.
LEMMA RespondBatch ==
  ASSUME IInv, BatchInv, IInv', NEW s \in Server, NEW r \in Request, NEW code, NEW body,
         Respond(s, r, code, body), host[r] = s, phase[r] \in {"pending", "running"},
         IsCreate(ask[r]) /\ code = 201 =>
           /\ BodyOutcome(ask[r]) = "ok" /\ Complete(r)
           /\ ask[r].path = "courses" => body.objects = Reported(r)
  PROVE  BatchInv'
<1>1. rows' = rows /\ serial' = serial /\ ask' = ask
  BY DEF Respond, dbVars
<1>2. StoresNothing
  BY <1>1, ConstantsAssumption DEF StoresNothing, IInv, TypeOK
<1>3. BatchAt(s)'
  BY NoBatch DEF Respond, IInv, TypeOK
<1>4. \A t \in Server \ {s} : Keeps(t) /\ conn'[t] = conn[t]
  BY DEF IInv, TypeOK, WorkerAt, Keeps, Respond, Forget
<1>5. AnsweredAt(r)'
  <2>1. /\ answer'[r] = [code |-> code, body |-> body] /\ phase'[r] = "answered"
        /\ Reported(r)' = Reported(r) /\ (Complete(r)' <=> Complete(r))
    BY <1>1 DEF Respond, IInv, TypeOK, Reported, Complete, IsStored, StoredFor
  <2> QED
    BY <1>1, <2>1 DEF AnsweredAt
<1>6. \A q \in Request : AnsweredAt(q)' \/ (answer'[q] = answer[q] /\ phase'[q] = phase[q])
  BY <1>5 DEF Respond, IInv, TypeOK
<1>7. \A m \in adrift : answer'[m.req].code # 201
  <2> SUFFICES ASSUME NEW m \in adrift PROVE answer'[m.req].code # 201
    OBVIOUS
  <2>1. AdriftAt(m) /\ AdriftOnce(m) /\ m.req \in Request /\ m.i \in Nat /\ m.j \in Nat
    BY DEF IInv, TypeOK, IsAdrift, AdriftOf, BatchInv
  <2>2. CASE m.req # r
    BY <2>1, <2>2 DEF Respond, IInv, TypeOK, AdriftOnce
  <2>3. CASE m.req = r
    <3>1. IsPlace(ask[r], m.i, m.j) /\ IsCreate(ask[r])
      BY <2>1, <2>3 DEF AdriftAt, IsPlace
    <3>2. ~IsStored(r, m.i, m.j)
      BY <2>1, <2>3 DEF AdriftOnce, IsStored, Precedes
    <3>3. ~Complete(r)
      BY <3>1, <3>2 DEF Complete, IsPlace
    <3>4. code # 201
      BY <3>1, <3>3
    <3> QED
      BY <2>3, <3>4 DEF Respond, IInv, TypeOK
  <2> QED
    BY <2>2, <2>3
<1>8. OnceHolds'
  <2>1. adrift' = adrift /\ ~Active(s)'
    BY DEF Respond, dbVars, IInv, TypeOK, Active
  <2> QED
    BY <1>1, <1>4, <1>7, <2>1, OnceFrame
<1> QED
  BY <1>1, <1>2, <1>3, <1>4, <1>6, <1>8, QuietStep

\* A process ends.
LEMMA StopBatch ==
  ASSUME IInv, BatchInv, IInv', NEW s \in Server, Stop(s), OnceHolds'
  PROVE  BatchInv'
<1>1. rows' = rows /\ serial' = serial /\ ask' = ask /\ answer' = answer
  BY DEF Stop
<1>2. StoresNothing
  BY <1>1, ConstantsAssumption DEF StoresNothing, IInv, TypeOK
<1>3. BatchAt(s)'
  BY NoBatch DEF Stop, IInv, TypeOK
<1>4. \A t \in Server \ {s} : Keeps(t) /\ conn'[t] = conn[t]
  BY DEF IInv, TypeOK, WorkerAt, Keeps, Stop, Forget
<1>5. \A q \in Request : answer[q].code = 0 \/ phase'[q] = phase[q]
  BY DEF Stop, BatchInv, AnsweredAt
<1> QED
  BY <1>1, <1>2, <1>3, <1>4, <1>5, QuietStep

\* A process ends and leaves nothing behind.
LEMMA StopsByItself ==
  ASSUME IInv, BatchInv, IInv', NEW s \in Server, Stop(s), UNCHANGED adrift
  PROVE  BatchInv'
<1>1. \A t \in Server \ {s} : Keeps(t) /\ conn'[t] = conn[t]
  BY DEF IInv, TypeOK, WorkerAt, Keeps, Stop, Forget
<1>2. ~Active(s)' /\ rows' = rows /\ ask' = ask /\ answer' = answer
  BY DEF Stop, IInv, TypeOK, Active
<1>3. OnceHolds'
  BY <1>1, <1>2, OnceFrame DEF BatchInv, AdriftOnce
<1> QED
  BY <1>3, StopBatch

\* A process starts.
LEMMA BootBatch ==
  ASSUME IInv, BatchInv, IInv', NEW s \in Server, Boot(s)
  PROVE  BatchInv'
<1>1. /\ rows' = rows /\ serial' = serial /\ ask' = ask /\ answer' = answer
      /\ phase' = phase
  BY DEF Boot, dbVars, requestVars
<1>2. StoresNothing
  BY <1>1, ConstantsAssumption DEF StoresNothing, IInv, TypeOK
<1>3. BatchAt(s)'
  BY NoBatch DEF Boot, IInv, TypeOK
<1>4. \A t \in Server \ {s} : Keeps(t) /\ conn'[t] = conn[t]
  BY DEF IInv, TypeOK, Keeps, Boot, Connect, requestVars
<1>5. OnceHolds'
  <2>1. adrift' = adrift /\ ~Active(s)'
    BY DEF Boot, dbVars, IInv, TypeOK, Active
  <2> QED
    BY <1>1, <1>4, <2>1, OnceFrame DEF BatchInv, AdriftOnce
<1> QED
  BY <1>1, <1>2, <1>3, <1>4, <1>5, QuietStep

\* A client sends a request, which nothing is stored for.
LEMMA SendBatch ==
  ASSUME IInv, BatchInv, IInv', NEW r \in Request, NEW s \in Server, NEW a \in Offers,
         Send(r, s, a)
  PROVE  BatchInv'
<1>1. /\ rows' = rows /\ serial' = serial /\ answer' = answer /\ conn' = conn
      /\ phase[r] = "unsent"
  BY DEF Send, dbVars, connVars
<1>2. StoresNothing
  BY <1>1, ConstantsAssumption DEF StoresNothing, IInv, TypeOK
<1>3. \A t \in Server : Keeps(t) /\ conn'[t] = conn[t]
  BY <1>1 DEF IInv, TypeOK, WorkerAt, Keeps, Send, connVars, workerVars
<1>4. BatchAt(s)'
  <2>1. StoredFor(task[s])' = StoredFor(task[s])
    BY <1>1, <1>3 DEF StoredFor, Keeps
  <2> QED
    BY <1>3, <2>1, BatchFrame DEF BatchInv
<1>5. \A q \in Request : /\ ask'[q] = ask[q] \/ phase[q] = "unsent"
                         /\ answer[q].code = 0 \/ phase'[q] = phase[q]
  BY <1>1 DEF Send, IInv, TypeOK, BatchInv, AnsweredAt
<1>6. OnceHolds'
  <2>1. adrift' = adrift
    BY DEF Send, dbVars
  <2> QED
    BY <1>1, <1>3, <1>5, <2>1, OnceFrame DEF BatchInv, AdriftOnce, Settled
<1> QED
  BY <1>1, <1>2, <1>3, <1>4, <1>5, <1>6, QuietStep

\* A worker turns to a request, which nothing is stored for.
LEMMA StartBatch ==
  ASSUME IInv, BatchInv, IInv', NEW s \in Server, NEW r \in Request, NEW first,
         Takes(s, r), StartWork(s, r, first)
  PROVE  BatchInv'
<1>1. /\ rows' = rows /\ serial' = serial /\ answer' = answer /\ conn' = conn
      /\ ask' = ask /\ ids' = ids /\ pc[s] = "idle" /\ phase[r] = "pending"
  BY DEF StartWork, Takes, dbVars, connVars
<1>2. StoresNothing
  BY <1>1, ConstantsAssumption DEF StoresNothing, IInv, TypeOK
<1>3. \A t \in Server \ {s} : Keeps(t) /\ conn'[t] = conn[t]
  BY <1>1 DEF IInv, TypeOK, WorkerAt, Keeps, StartWork, connVars
<1>4. BatchAt(s)'
  <2>1. pc'[s] = "exec" /\ task'[s] = r /\ ids'[s] = <<>>
    <3>1. ids[s] = <<>>
      BY <1>1 DEF IInv, WorkerAt, Active
    <3> QED
      BY <1>1, <3>1 DEF StartWork, IInv, TypeOK
  <2>2. StoredFor(r)' = {}
    BY <1>1 DEF IInv, RequestAt, StoredFor
  <2>3. StoredFor(task[s])' = {}
    BY <2>1, <2>2 DEF StoredFor
  <2> QED
    BY <2>1, <2>3 DEF BatchAt
<1>5. \A q \in Request : answer[q].code = 0 \/ phase'[q] = phase[q]
  BY <1>1 DEF StartWork, IInv, TypeOK, BatchInv, AnsweredAt
<1>6. OnceHolds'
  <2>1. adrift' = adrift /\ task'[s] = r
    BY DEF StartWork, dbVars, IInv, TypeOK
  <2>2. \A m \in adrift : m.req # r
    BY <1>1 DEF IInv, AdriftAt
  <2> QED
    BY <1>1, <1>3, <2>1, <2>2, OnceFrame DEF BatchInv, AdriftOnce
<1> QED
  BY <1>1, <1>2, <1>3, <1>4, <1>5, <1>6, QuietStep

\* A row that is stored gets a key of its own, and has no UNIQUE value that
\* another row has.
LEMMA InsertKeys ==
  ASSUME IInv, BatchInv, NEW x, AddsRow(x)
  PROVE  KeysOnce' /\ UniquesOnce'
<1>1. x.tbl \in Tables
  BY DEF AddsRow
<1>2. /\ rows' = rows \cup {x} /\ x.id = serial[x.tbl] /\ Accepts(x.tbl, x.val)
      /\ serial' = [serial EXCEPT ![x.tbl] = @ + 1]
  BY DEF AddsRow
<1>3. /\ \A y \in rows : y.tbl \in Tables /\ y.id \in Int /\ y.id < serial[y.tbl]
      /\ \A T \in Tables : serial[T] \in Int
  BY ConstantsAssumption DEF IInv, TypeOK, IsRow, RowOf, BatchInv, KeysOnce
<1>4. KeysOnce'
  <2>1. \A y \in rows' : y.id < serial'[y.tbl]
    BY <1>1, <1>2, <1>3 DEF IInv, TypeOK
  <2>2. \A y \in rows : y.tbl = x.tbl => y.id # x.id
    BY <1>1, <1>2, <1>3
  <2>3. \A y, z \in rows' : y.tbl = z.tbl /\ y.id = z.id => y = z
    BY <1>2, <2>2 DEF BatchInv, KeysOnce
  <2> QED
    BY <2>1, <2>3 DEF KeysOnce
<1>5. UniquesOnce'
  <2>1. \A c \in Uniques[x.tbl] : \A y \in rows : y.tbl = x.tbl => y.val[c] # x.val[c]
    BY <1>2 DEF Accepts, Of
  <2>2. ASSUME NEW y \in rows', NEW z \in rows', NEW c \in Uniques[y.tbl],
               y.tbl = z.tbl, y.req \in Request, y.val[c] = z.val[c]
        PROVE  y = z
    <3>1. CASE y \in rows /\ z \in rows
      BY <2>2, <3>1 DEF BatchInv, UniquesOnce
    <3>2. CASE y = x \/ z = x
      BY <1>2, <2>1, <2>2, <3>2
    <3> QED
      BY <1>2, <3>1, <3>2
  <2> QED
    BY <2>2 DEF UniquesOnce
<1> QED
  BY <1>4, <1>5

\* What a worker sends for its place, under the key of the row of its entity.
LEMMA PlaceInserted ==
  ASSUME IInv, BatchInv, NEW s \in Server, Creates(s), NEW x,
         x.tbl = Sent(Statement(s)).tbl, x.val = Sent(Statement(s)).val,
         x.i = pos[s], x.j = sub[s]
  PROVE  InsertedAs(task[s], x)
<1> DEFINE r == task[s]
           e == Batch(ask[r])[pos[s]]
<1>1. /\ sub[s] = 0 => x.tbl = Target(ask[r]) /\ x.val = Arguments(e.val)
      /\ sub[s] # 0 => /\ x.tbl = "modules"
                       /\ x.val = Arguments(Linked(e.subs[sub[s]], ids[s][pos[s]]))
  BY InsertType DEF IInv, Job
<1>2. CASE sub[s] = 0
  BY <1>1, <1>2 DEF InsertedAs
<1>3. CASE sub[s] # 0
  <2>1. pos[s] \in 1..Len(ids[s])
    BY <1>3, JobType, PlaceType DEF IInv, WorkerAt, Creates, Job, TypeOK
  <2>2. PICK y \in StoredFor(r) : y.i = pos[s] /\ y.j = 0 /\ y.id = ids[s][pos[s]]
    BY <2>1 DEF BatchInv, BatchAt
  <2> QED
    BY <1>1, <1>3, <2>2 DEF InsertedAs
<1> QED
  BY <1>2, <1>3

\* A worker stores the row of its place, which had none.
LEMMA InsertBatch ==
  ASSUME IInv, BatchInv, IInv', NEW s \in Server, Creates(s), NEW x, Inserts(s, x),
         pc[s] = "exec", pc'[s] = "result", UNCHANGED requestVars,
         task' = task, pos' = pos, sub' = sub, ids' = ids, adrift' = adrift,
         \A t \in Server \ {s} : Keeps(t) /\ conn'[t] = conn[t],
         \/ reply'[s].status = "fatal" /\ conn'[s] = "bad"
         \/ reply'[s].status = "tuples" /\ reply'[s].data = x.id
  PROVE  BatchInv'
<1> DEFINE r == task[s]
<1>1. /\ r \in Request /\ phase[r] = "running" /\ ask[r] \in Offers /\ IsCreate(ask[r])
      /\ ask' = ask /\ phase' = phase /\ answer' = answer /\ Active(s)
      /\ pos[s] \in Nat /\ sub[s] \in Nat
  BY JobType DEF IInv, TypeOK, WorkerAt, Creates, requestVars, Job
<1>2. rows' = rows \cup {x} /\ x.req = r /\ x.i = pos[s] /\ x.j = sub[s]
  BY DEF Inserts, AddsRow
<1>3. /\ StoredFor(r)' = StoredFor(r) \cup {x}
      /\ \A q : q # r => {y \in rows' : y.req = q} = StoredFor(q)
  BY <1>2 DEF StoredFor
<1>4. /\ \A y \in StoredFor(r) : Precedes(y.i, y.j, pos[s], sub[s])
      /\ \A k \in 1..Len(ids[s]) : \E y \in StoredFor(r) :
           y.i = k /\ y.j = 0 /\ y.id = ids[s][k]
  BY DEF BatchInv, BatchAt
<1>5. ~Precedes(pos[s], sub[s], pos[s], sub[s])
  BY <1>1 DEF Precedes
<1>6. KeysOnce' /\ UniquesOnce'
  BY InsertKeys DEF Inserts
<1>7. ASSUME NEW q \in Request
      PROVE  StoredAt(q)'
  <2>1. CASE q # r
    <3>1. StoredFor(q)' = StoredFor(q)
      BY <1>3, <2>1 DEF StoredFor
    <3> QED
      BY <1>1, <3>1, StoredFrame DEF BatchInv
  <2>2. CASE q = r
    <3>1. \A y, z \in StoredFor(r)' : y.i = z.i /\ y.j = z.j => y = z
      <4>1. \A y, z \in StoredFor(r) : y.i = z.i /\ y.j = z.j => y = z
        BY <1>1 DEF BatchInv, StoredAt
      <4>2. \A y \in StoredFor(r) : ~(y.i = x.i /\ y.j = x.j)
        BY <1>2, <1>4, <1>5
      <4> QED
        BY <1>3, <4>1, <4>2
    <3>2. ASSUME NEW y \in StoredFor(r)
          PROVE  InsertedAs(r, y)'
      <4>1. InsertedAs(r, y)
        BY <1>1 DEF BatchInv, StoredAt
      <4> QED
        BY <1>1, <1>3, <4>1 DEF InsertedAs
    <3>3. InsertedAs(r, x)'
      <4>1. InsertedAs(r, x)
        BY PlaceInserted DEF Inserts
      <4> QED
        BY <1>1, <1>3, <4>1 DEF InsertedAs
    <3> QED
      BY <1>3, <2>2, <3>1, <3>2, <3>3 DEF StoredAt
  <2> QED
    BY <2>1, <2>2
<1>8. ASSUME NEW q \in Request
      PROVE  AnsweredAt(q)'
  <2>1. CASE q # r
    BY <1>1, <1>3, <2>1, AnsweredFrame DEF BatchInv, StoredFor
  <2>2. CASE q = r
    BY <1>1, <2>2, AnsweredFrame DEF BatchInv, AnsweredAt
  <2> QED
    BY <2>1, <2>2
<1>9. ASSUME NEW t \in Server
      PROVE  BatchAt(t)'
  <2>1. CASE t # s
    <3>1. Creates(t) => StoredFor(task[t])' = StoredFor(task[t])
      BY <1>1, <1>3, <2>1, OwnTask DEF StoredFor, Creates
    <3> QED
      BY <2>1, <3>1, BatchFrame DEF BatchInv
  <2>2. CASE t = s
    <3>1. StoredFor(task[s])' = StoredFor(r) \cup {x}
      BY <1>3 DEF StoredFor
    <3>2. \A y \in StoredFor(task[s])' :
            \/ Precedes(y.i, y.j, pos[s], sub[s])
            \/ y.i = pos[s] /\ y.j = sub[s] /\ (~Failed(s)' \/ conn'[s] = "bad")
      BY <1>2, <1>4, <3>1 DEF Failed
    <3>3. \A k \in 1..Len(ids[s]) : \E y \in StoredFor(task[s])' :
            y.i = k /\ y.j = 0 /\ y.id = ids[s][k]
      BY <1>4, <3>1
    <3>4. ~Failed(s)' => \E y \in StoredFor(task[s])' :
            y.i = pos[s] /\ y.j = sub[s] /\ y.id = reply'[s].data
      BY <1>2, <3>1 DEF Failed
    <3> QED
      BY <2>2, <3>2, <3>3, <3>4 DEF BatchAt
  <2> QED
    BY <2>1, <2>2
<1>10. OnceHolds'
  <2> SUFFICES ASSUME NEW m \in adrift PROVE AdriftOnce(m)'
    BY DEF OnceHolds
  <2>1. m.req # r
    BY <1>1 DEF BatchInv, AdriftOnce
  <2>2. StoredFor(m.req)' = StoredFor(m.req)
    BY <1>3, <2>1 DEF StoredFor
  <2> QED
    BY <1>1, <2>1, <2>2, OnceSurvives DEF BatchInv, AdriftOnce
<1> QED
  BY <1>6, <1>7, <1>8, <1>9, <1>10 DEF BatchInv, OnceHolds

\* The INSERT a worker is at goes adrift: nothing of its request is adrift yet,
\* and the worker, if it goes on, goes on to an error over a lost connection.
LEMMA OnceJoins ==
  ASSUME IInv, BatchInv, NEW s \in Server, pc[s] = "exec",
         GoesAdrift(Sent(Statement(s)), task[s], pos[s], sub[s]),
         rows' = rows, ask' = ask, answer' = answer,
         \A t \in Server \ {s} : Keeps(t) /\ conn'[t] = conn[t],
         Active(s)' => /\ pc'[s] = "result" /\ Failed(s)' /\ conn'[s] = "bad"
                       /\ task'[s] = task[s] /\ pos'[s] = pos[s] /\ sub'[s] = sub[s]
  PROVE  OnceHolds'
<1> DEFINE stmt == Sent(Statement(s))
<1>1. Active(s) /\ WorkerAt(s) /\ TypeOK /\ task[s] \in Request /\ phase[task[s]] = "running"
  BY DEF Active, IInv, WorkerAt
<1>2. \A q : StoredFor(q)' = StoredFor(q)
  BY DEF StoredFor
<1>3. \A m \in adrift : m.req # task[s] /\ answer[m.req].code # 201
  BY <1>1 DEF BatchInv, AdriftOnce
<1>4. ASSUME NEW m \in adrift,
             \A n \in adrift' : n.req = m.req => n \in adrift
      PROVE  AdriftOnce(m)'
  <2>1. \A t \in Server : Active(t)' /\ task'[t] = m.req => Keeps(t) /\ conn'[t] = conn[t]
    BY <1>3
  <2> QED
    BY <1>2, <1>3, <1>4, <2>1, OnceSurvives
<1>5. CASE Creates(s)
  <2>1. stmt.op = "insert"
    BY <1>1, <1>5, InsertType
  <2>2. PICK x : x = [tbl |-> stmt.tbl, val |-> stmt.val, req |-> task[s],
                      i |-> pos[s], j |-> sub[s]]
    OBVIOUS
  <2>3. adrift' = adrift \cup {x}
    BY <2>1, <2>2 DEF GoesAdrift
  <2>4. /\ x.tbl = stmt.tbl /\ x.val = stmt.val
        /\ x.req = task[s] /\ x.i = pos[s] /\ x.j = sub[s]
    BY <2>2
  <2> HIDE DEF stmt
  <2>5. \A m \in adrift : AdriftOnce(m)'
    BY <1>3, <1>4, <2>3, <2>4
  <2>6. AdriftOnce(x)'
    <3>1. \A n \in adrift' : n.req = x.req => n = x
      BY <1>3, <2>3, <2>4
    <3>2. \A y \in StoredFor(x.req) : Precedes(y.i, y.j, x.i, x.j)
      BY <1>5, <2>4 DEF BatchInv, BatchAt
    <3>3. InsertedAs(x.req, x)'
      <4>1. InsertedAs(x.req, x)
        BY <1>5, <2>4, PlaceInserted DEF stmt
      <4> QED
        BY <1>2, <4>1 DEF InsertedAs
    <3>4. ASSUME NEW t \in Server, Active(t)', task'[t] = x.req
          PROVE  /\ pc'[t] = "result" /\ Failed(t)' /\ conn'[t] = "bad"
                 /\ x.i = pos'[t] /\ x.j = sub'[t]
      <4>1. CASE t = s
        BY <2>4, <3>4, <4>1
      <4>2. CASE t # s
        <5>1. Active(t) /\ task[t] = task[s]
          BY <2>4, <3>4, <4>2 DEF Active, Keeps
        <5> QED
          BY <1>1, <4>2, <5>1, OwnTask
      <4> QED
        BY <4>1, <4>2
    <3>5. answer'[x.req].code # 201
      BY <1>1, <2>4 DEF BatchInv, AnsweredAt
    <3> QED
      BY <1>2, <3>1, <3>2, <3>3, <3>4, <3>5 DEF AdriftOnce
  <2> QED
    BY <2>3, <2>5, <2>6 DEF OnceHolds
<1>6. CASE ~Creates(s)
  <2>1. stmt.op # "insert"
    BY <1>1, <1>6, StatementType
  <2>2. adrift' = adrift
    BY <2>1 DEF GoesAdrift
  <2> QED
    BY <1>4, <2>2 DEF OnceHolds
<1> QED
  BY <1>5, <1>6

\* A process is killed, perhaps while the server has its statement.
LEMMA CrashBatch ==
  ASSUME IInv, BatchInv, IInv', NEW s \in Server, Crash(s)
  PROVE  BatchInv'
<1>1. CASE UNCHANGED adrift
  BY <1>1, StopsByItself DEF Crash
<1>2. CASE pc[s] = "exec" /\ GoesAdrift(Sent(Statement(s)), task[s], pos[s], sub[s])
  <2>1. /\ Stop(s) /\ ~Active(s)' /\ rows' = rows /\ ask' = ask /\ answer' = answer
        /\ \A t \in Server \ {s} : Keeps(t) /\ conn'[t] = conn[t]
    BY DEF Crash, Stop, Forget, IInv, TypeOK, Active, WorkerAt, Keeps
  <2> QED
    BY <1>2, <2>1, OnceJoins, StopBatch
<1> QED
  BY <1>1, <1>2 DEF Crash

\* The server runs an INSERT that was adrift: the row it stores, if it is
\* accepted, is as the worker would have stored it.
LEMMA LateInserts ==
  ASSUME IInv, NEW m \in adrift, RunLate(m)
  PROVE  \/ StoresNothing
         \/ \E x : /\ AddsRow(x) /\ x.tbl = m.tbl /\ x.val = m.val
                   /\ x.req = m.req /\ x.i = m.i /\ x.j = m.j
<1> DEFINE stmt == [op |-> "insert", tbl |-> m.tbl, val |-> m.val]
<1>1. m.tbl \in Tables
  BY DEF IInv, TypeOK, IsAdrift, AdriftOf
<1>2. serial \in [Tables -> 1..(MaxInt + 1)] /\ MaxInt \in Nat
  BY ConstantsAssumption DEF IInv, TypeOK
<1>3. Runs(stmt, m.req, m.i, m.j) /\ stmt.op = "insert" /\ stmt.tbl = m.tbl /\ stmt.val = m.val
  BY DEF RunLate, RunsAdrift
<1> HIDE DEF stmt
<1>4. CASE Accepts(m.tbl, m.val)
  <2>1. Insert(m.tbl, m.val, m.req, m.i, m.j)
    BY <1>3, <1>4 DEF Runs
  <2> DEFINE x == [tbl |-> m.tbl, id |-> serial[m.tbl], val |-> m.val,
                   req |-> m.req, i |-> m.i, j |-> m.j]
  <2>2. /\ AddsRow(x) /\ x.tbl = m.tbl /\ x.val = m.val
        /\ x.req = m.req /\ x.i = m.i /\ x.j = m.j
    BY <1>1, <1>4, <2>1 DEF AddsRow, Insert
  <2> QED
    BY <2>2
<1>5. CASE ~Accepts(m.tbl, m.val)
  <2>1. Refuse(m.tbl)
    BY <1>3, <1>5 DEF Runs
  <2> QED
    BY <1>1, <1>2, <2>1 DEF Refuse, StoresNothing
<1> QED
  BY <1>4, <1>5

\* A late row is the next of its request, which has failed or was cut off.
LEMMA LateBatch ==
  ASSUME IInv, BatchInv, IInv', NEW m \in adrift, RunLate(m)
  PROVE  BatchInv'
<1>1. /\ adrift' = adrift \ {m} /\ conn' = conn /\ ask' = ask /\ phase' = phase
      /\ answer' = answer /\ pc' = pc /\ task' = task /\ pos' = pos /\ sub' = sub
      /\ ids' = ids /\ reply' = reply /\ host' = host
  BY DEF RunLate, RunsAdrift, connVars, requestVars, workerVars
<1>2. \A t \in Server : Keeps(t) /\ conn'[t] = conn[t]
  BY <1>1 DEF Keeps
<1>3. /\ AdriftOnce(m) /\ m.req \in Request /\ m.i \in Nat /\ m.j \in Nat
      /\ \A n \in adrift' : n \in adrift /\ n.req # m.req
      /\ \A n \in adrift : AdriftOnce(n)
  BY <1>1 DEF BatchInv, AdriftOnce, IInv, TypeOK, IsAdrift, AdriftOf
<1>4. ASSUME NEW n \in adrift', StoredFor(n.req)' = StoredFor(n.req)
      PROVE  AdriftOnce(n)'
  BY <1>1, <1>2, <1>3, <1>4, OnceSurvives DEF AdriftOnce
<1>5. ASSUME NEW q \in Request, StoredFor(q)' = StoredFor(q)
      PROVE  StoredAt(q)' /\ AnsweredAt(q)'
  BY <1>1, <1>5, StoredFrame, AnsweredFrame DEF BatchInv
<1>6. ASSUME NEW t \in Server, StoredFor(task[t])' = StoredFor(task[t])
      PROVE  BatchAt(t)'
  BY <1>2, <1>6, BatchFrame DEF BatchInv
<1>7. CASE StoresNothing
  <2>1. \A q : StoredFor(q)' = StoredFor(q)
    BY <1>7 DEF StoredFor, StoresNothing
  <2>2. \A t \in Server : StoredFor(task[t])' = StoredFor(task[t])
    BY <1>1, <1>7 DEF StoredFor, StoresNothing
  <2>3. KeysOnce' /\ UniquesOnce'
    BY <1>7, KeysFrame DEF IInv, TypeOK, BatchInv
  <2> QED
    BY <1>4, <1>5, <1>6, <2>1, <2>2, <2>3 DEF BatchInv
<1>8. ASSUME NEW x, AddsRow(x), x.tbl = m.tbl, x.val = m.val,
             x.req = m.req, x.i = m.i, x.j = m.j
      PROVE  BatchInv'
  <2>1. /\ StoredFor(m.req)' = StoredFor(m.req) \cup {x}
        /\ \A q : q # m.req => StoredFor(q)' = StoredFor(q)
    BY <1>8 DEF AddsRow, StoredFor
  <2>2. KeysOnce' /\ UniquesOnce'
    BY <1>8, InsertKeys
  <2>3. \A n \in adrift' : AdriftOnce(n)'
    BY <1>3, <1>4, <2>1
  <2>4. StoredAt(m.req)'
    <3>1. \A y \in StoredFor(m.req) : ~(y.i = x.i /\ y.j = x.j)
      BY <1>3, <1>8 DEF AdriftOnce, Precedes
    <3>2. \A y, z \in StoredFor(m.req) : y.i = z.i /\ y.j = z.j => y = z
      BY <1>3 DEF BatchInv, StoredAt
    <3>3. ASSUME NEW y \in StoredFor(m.req)
          PROVE  InsertedAs(m.req, y)'
      <4>1. InsertedAs(m.req, y)
        BY <1>3 DEF BatchInv, StoredAt
      <4> QED
        BY <1>1, <2>1, <4>1 DEF InsertedAs
    <3>4. InsertedAs(m.req, x)'
      <4>1. InsertedAs(m.req, m)
        BY <1>3 DEF AdriftOnce
      <4> QED
        BY <1>1, <1>8, <2>1, <4>1 DEF InsertedAs
    <3> QED
      BY <2>1, <3>1, <3>2, <3>3, <3>4 DEF StoredAt
  <2>5. AnsweredAt(m.req)'
    BY <1>1, <1>3 DEF BatchInv, AnsweredAt, AdriftOnce
  <2>6. ASSUME NEW t \in Server PROVE BatchAt(t)'
    <3>1. CASE task[t] # m.req
      <4>1. StoredFor(task[t])' = StoredFor(task[t])
        BY <1>1, <2>1, <3>1 DEF StoredFor
      <4> QED
        BY <1>6, <4>1
    <3>2. CASE task[t] = m.req /\ Creates(t)
      <4>1. /\ pc[t] = "result" /\ Failed(t) /\ conn[t] = "bad"
            /\ m.i = pos[t] /\ m.j = sub[t]
        BY <1>3, <3>2 DEF AdriftOnce, Creates
      <4>2. StoredFor(task[t])' = StoredFor(m.req) \cup {x} /\ StoredFor(task[t]) = StoredFor(m.req)
        BY <1>1, <2>1, <3>2 DEF StoredFor
      <4>3. Failed(t)'
        BY <1>1, <4>1 DEF Failed
      <4>4. \A k \in 1..Len(ids[t]) : \E y \in StoredFor(m.req) :
              y.i = k /\ y.j = 0 /\ y.id = ids[t][k]
        BY <3>2, <4>2 DEF BatchInv, BatchAt
      <4>5. \A y \in StoredFor(m.req) :
              Precedes(y.i, y.j, pos[t], sub[t]) \/ (y.i = pos[t] /\ y.j = sub[t])
        BY <3>2, <4>2 DEF BatchInv, BatchAt
      <4> QED
        BY <1>1, <1>8, <4>1, <4>2, <4>3, <4>4, <4>5 DEF BatchAt
    <3>3. CASE ~Creates(t)
      <4>1. ~Creates(t)'
        BY <1>1, <3>3 DEF Creates, Active, Job
      <4> QED
        BY <4>1 DEF BatchAt
    <3> QED
      BY <3>1, <3>2, <3>3
  <2>7. \A q \in Request : StoredAt(q)' /\ AnsweredAt(q)'
    BY <1>5, <2>1, <2>4, <2>5
  <2> QED
    BY <2>2, <2>3, <2>6, <2>7 DEF BatchInv
<1> QED
  BY <1>7, <1>8, LateInserts

\* A worker sends a statement and waits for its result.
LEMMA ExecBatch ==
  ASSUME IInv, BatchInv, IInv', NEW s \in Server,
         ExecuteOnDead(s) \/ Execute(s) \/ ExecuteLost(s)
  PROVE  BatchInv'
<1>1. /\ pc[s] = "exec" /\ pc'[s] = "result" /\ UNCHANGED requestVars
      /\ task' = task /\ pos' = pos /\ sub' = sub /\ ids' = ids
      /\ \A t \in Server \ {s} : Keeps(t) /\ conn'[t] = conn[t]
  BY ExecEffect
<1>2. CASE StoresNothing /\ (Creates(s) => reply'[s].status = "fatal")
  <2>1. ask' = ask /\ phase' = phase /\ answer' = answer
    BY <1>1 DEF requestVars
  <2>2. Job(s)' = Job(s) /\ (Creates(s)' <=> Creates(s))
    BY <1>1, <2>1 DEF Job, Creates, Active
  <2>3. StoredFor(task[s])' = StoredFor(task[s])
    BY <1>1, <1>2 DEF StoredFor, StoresNothing
  <2>4. BatchAt(s)'
    BY <1>1, <1>2, <2>2, <2>3 DEF BatchInv, BatchAt, Failed
  <2>5. OnceHolds'
    <3>1. CASE ExecuteOnDead(s) \/ Execute(s)
      <4>1. adrift' = adrift /\ rows' = rows
        BY <1>2, <3>1 DEF ExecuteOnDead, Execute, ExecOnDead, ExecReplied, dbVars, StoresNothing
      <4>2. \A m \in adrift : m.req # task[s]
        BY <1>1 DEF BatchInv, AdriftOnce, Active
      <4> QED
        BY <1>1, <2>1, <4>1, <4>2, OnceFrame DEF BatchInv, AdriftOnce
    <3>2. CASE ExecuteLost(s)
      <4>1. /\ GoesAdrift(Sent(Statement(s)), task[s], pos[s], sub[s])
            /\ rows' = rows /\ conn'[s] = "bad" /\ Failed(s)'
        BY <3>2 DEF ExecuteLost, ExecLost, Fatal, Failed, IInv, TypeOK
      <4> QED
        BY <1>1, <2>1, <4>1, OnceJoins
    <3> QED
      BY <3>1, <3>2
  <2> QED
    BY <1>1, <1>2, <2>1, <2>4, <2>5, QuietStep
<1>3. CASE /\ Creates(s)
           /\ \E x : /\ Inserts(s, x)
                     /\ \/ reply'[s].status = "fatal" /\ conn'[s] = "bad"
                        \/ reply'[s].status = "tuples" /\ reply'[s].data = x.id
  <2>1. PICK x : /\ Inserts(s, x)
                 /\ \/ reply'[s].status = "fatal" /\ conn'[s] = "bad"
                    \/ reply'[s].status = "tuples" /\ reply'[s].data = x.id
    BY <1>3
  <2>2. x \in rows' /\ x \notin rows
    <3>1. x.tbl \in Tables /\ x.id = serial[x.tbl] /\ rows' = rows \cup {x}
      BY <2>1 DEF Inserts, AddsRow
    <3> QED
      BY <3>1, ConstantsAssumption DEF BatchInv, KeysOnce, IInv, TypeOK
  <2>3. adrift' = adrift
    BY <2>2 DEF ExecuteOnDead, Execute, ExecuteLost, ExecOnDead, ExecReplied,
                ExecLost, dbVars
  <2> QED
    BY <1>1, <1>3, <2>1, <2>3, InsertBatch
<1> QED
  BY <1>2, <1>3, ExecEffect

\* What is known when an INSERT has returned its key: the keys are those of
\* the entities up to this one.
LEMMA HeldKeys ==
  ASSUME IInv, BatchInv, NEW s \in Server, InsertSucceeded(s)
  PROVE  /\ Creates(s) /\ Active(s) /\ pc[s] = "result" /\ ~Failed(s)
         /\ task[s] \in Request /\ Job(s) \in Offers
         /\ IsPlace(Job(s), pos[s], sub[s])
         /\ pos[s] \in Nat /\ sub[s] \in Nat
         /\ IdsAfter(s) \in Seq(1..MaxInt) /\ Len(IdsAfter(s)) = pos[s]
         /\ \A k \in 1..pos[s] : \E x \in StoredFor(task[s]) :
              x.i = k /\ x.j = 0 /\ x.id = IdsAfter(s)[k]
<1>1. /\ Creates(s) /\ Active(s) /\ pc[s] = "result" /\ ~Failed(s)
      /\ task[s] \in Request /\ Job(s) \in Offers
  <2>1. pc[s] = "result" /\ ~Failed(s) /\ IsCreate(Job(s))
    BY DEF InsertSucceeded
  <2> QED
    BY <2>1, JobType DEF Active, Creates, IInv
<1>2. /\ IsPlace(Job(s), pos[s], sub[s]) /\ reply[s].data \in 1..MaxInt
      /\ Len(ids[s]) = IF sub[s] = 0 THEN pos[s] - 1 ELSE pos[s]
      /\ ids[s] \in Seq(1..MaxInt)
  BY <1>1 DEF IInv, WorkerAt, TypeOK
<1>3. pos[s] \in Nat /\ sub[s] \in Nat
  BY DEF IInv, TypeOK
<1>4. /\ \A k \in 1..Len(ids[s]) : \E x \in StoredFor(task[s]) :
           x.i = k /\ x.j = 0 /\ x.id = ids[s][k]
      /\ \E x \in StoredFor(task[s]) :
           x.i = pos[s] /\ x.j = sub[s] /\ x.id = reply[s].data
  BY <1>1 DEF BatchInv, BatchAt
<1>5. CASE sub[s] = 0
  <2>1. IdsAfter(s) = Append(ids[s], reply[s].data) /\ pos[s] >= 1
    BY <1>1, <1>2, <1>5, PlaceType DEF IdsAfter
  <2>2. IdsAfter(s) \in Seq(1..MaxInt) /\ Len(IdsAfter(s)) = pos[s]
    BY <1>2, <1>3, <1>5, <2>1, AppendProperties
  <2>3. /\ \A k \in 1..Len(ids[s]) : IdsAfter(s)[k] = ids[s][k]
        /\ IdsAfter(s)[pos[s]] = reply[s].data
    BY <1>2, <1>3, <1>5, <2>1, AppendProperties
  <2>4. \A k \in 1..pos[s] : k \in 1..Len(ids[s]) \/ k = pos[s]
    BY <1>2, <1>3, <1>5, <2>1
  <2> QED
    BY <1>1, <1>2, <1>3, <1>4, <1>5, <2>2, <2>3, <2>4
<1>6. CASE sub[s] # 0
  BY <1>1, <1>2, <1>3, <1>4, <1>6 DEF IdsAfter
<1> QED
  BY <1>5, <1>6

\* The cursor moves on to the next place.
LEMMA ContinueBatch ==
  ASSUME IInv, BatchInv, IInv', NEW s \in Server, NextSubentity(s) \/ NextEntity(s)
  PROVE  BatchInv'
<1>1. InsertSucceeded(s)
  BY DEF NextSubentity, NextEntity
<1>2. PICK p, q :
        /\ ContinueAt(s, p, q)
        /\ \/ p = pos[s] /\ q = sub[s] + 1
           \/ p = pos[s] + 1 /\ q = 0
  BY DEF NextSubentity, NextEntity
<1>3. /\ rows' = rows /\ serial' = serial /\ conn' = conn /\ task' = task
      /\ ask' = ask /\ phase' = phase /\ host' = host /\ answer' = answer
      /\ pc'[s] = "exec" /\ pos'[s] = p /\ sub'[s] = q /\ ids'[s] = IdsAfter(s)
  BY <1>2 DEF IInv, TypeOK, ContinueAt, requestVars, dbVars
<1>4. StoresNothing
  BY <1>3, ConstantsAssumption DEF StoresNothing, IInv, TypeOK
<1>5. \A t \in Server \ {s} : Keeps(t) /\ conn'[t] = conn[t]
  BY <1>2, <1>3 DEF IInv, TypeOK, Keeps, ContinueAt
<1>6. BatchAt(s)'
  <2>1. StoredFor(task[s])' = StoredFor(task[s])
    BY <1>3 DEF StoredFor
  <2>2. \A x \in StoredFor(task[s]) : Precedes(x.i, x.j, p, q)
    <3>1. \A x \in StoredFor(task[s]) : x.i \in Nat /\ x.j \in Nat
      BY DEF IInv, TypeOK, IsRow, RowOf, StoredFor
    <3>2. \A x \in StoredFor(task[s]) :
            Precedes(x.i, x.j, pos[s], sub[s]) \/ (x.i = pos[s] /\ x.j = sub[s])
      BY <1>1, HeldKeys DEF BatchInv, BatchAt
    <3>3. pos[s] \in Nat /\ sub[s] \in Nat
      BY DEF IInv, TypeOK
    <3> QED
      BY <1>2, <3>1, <3>2, <3>3 DEF Precedes
  <2>3. \A k \in 1..Len(IdsAfter(s)) : \E x \in StoredFor(task[s]) :
          x.i = k /\ x.j = 0 /\ x.id = IdsAfter(s)[k]
    BY <1>1, HeldKeys
  <2> QED
    BY <1>3, <2>1, <2>2, <2>3 DEF BatchAt
<1>7. OnceHolds'
  <2>1. adrift' = adrift
    BY <1>2 DEF ContinueAt, dbVars
  <2>2. \A m \in adrift : m.req # task[s]
    BY <1>1, HeldKeys DEF BatchInv, AdriftOnce
  <2> QED
    BY <1>3, <1>5, <2>1, <2>2, OnceFrame DEF BatchInv, AdriftOnce
<1> QED
  BY <1>3, <1>4, <1>5, <1>6, <1>7, QuietStep

\* When the last place of a body is stored, all of it is, and the response is
\* made of the rows.
LEMMA BatchIsComplete ==
  ASSUME IInv, BatchInv, NEW s \in Server,
         InsertSucceeded(s), ~MoreSubentities(s), ~MoreEntities(s)
  PROVE  /\ BodyOutcome(Job(s)) = "ok" /\ Complete(task[s])
         /\ Created(s) = Reported(task[s])
<1> DEFINE b == Batch(Job(s))
<1>1. /\ Len(b) \in Nat /\ pos[s] \in 1..Len(b) /\ pos[s] \in Nat
      /\ sub[s] \in Nat /\ sub[s] =< Len(b[pos[s]].subs)
      /\ \A k \in 1..Len(b) : Len(b[k].subs) \in Nat
  BY HeldKeys, PlaceType
<1>2. BodyOutcome(Job(s)) = "ok"
  BY HeldKeys DEF IsPlace
<1>3. pos[s] = Len(b) /\ sub[s] = Len(b[pos[s]].subs)
  BY <1>1 DEF MoreSubentities, MoreEntities
<1>4. Complete(task[s])
  <2>1. /\ IsStored(task[s], pos[s], sub[s])
        /\ \A i \in 1..pos[s] : \A j \in 0..Len(b[i].subs) :
             Precedes(i, j, pos[s], sub[s]) => IsStored(task[s], i, j)
    BY HeldKeys DEF IInv, CursorAt
  <2>2. \A i \in 1..Len(b) : \A j \in 0..Len(b[i].subs) :
          Precedes(i, j, pos[s], sub[s]) \/ (i = pos[s] /\ j = sub[s])
    <3> HIDE DEF b
    <3> QED
      BY <1>1, <1>3 DEF Precedes
  <2>3. \A i \in 1..Len(b) : \A j \in 0..Len(b[i].subs) : IsStored(task[s], i, j)
    <3> HIDE DEF b
    <3> QED
      BY <1>3, <2>1, <2>2
  <2> QED
    BY <2>3 DEF Complete, Job
<1>5. Created(s) = Reported(task[s])
  <2>1. Created(s) = {[id |-> IdsAfter(s)[k], val |-> b[k].val] : k \in 1..Len(b)}
    BY DEF Created
  <2>2. Reported(task[s]) =
          {[id |-> x.id, val |-> b[x.i].val] : x \in {y \in StoredFor(task[s]) : y.j = 0}}
    BY DEF Reported, Job
  <2>3. \A k \in 1..Len(b) : \E x \in {y \in StoredFor(task[s]) : y.j = 0} :
          x.i = k /\ x.id = IdsAfter(s)[k]
    BY <1>3, HeldKeys
  <2>4. ASSUME NEW x \in {y \in StoredFor(task[s]) : y.j = 0}
        PROVE  x.i \in 1..Len(b) /\ x.id = IdsAfter(s)[x.i]
    <3>1. x.i \in 1..Len(b)
      BY HeldKeys DEF IInv, OrderOf, IsPlace, Job
    <3>2. PICK y \in StoredFor(task[s]) : y.i = x.i /\ y.j = 0 /\ y.id = IdsAfter(s)[x.i]
      BY <2>3, <3>1
    <3>3. x = y
      BY <2>4, <3>2, HeldKeys DEF BatchInv, StoredAt
    <3> QED
      BY <3>1, <3>2, <3>3
  <2> HIDE DEF b
  <2> QED
    BY <2>1, <2>2, <2>3, <2>4
<1> QED
  BY <1>2, <1>4, <1>5

\* POST /courses answers with the courses.
LEMMA CreatedObjects ==
  ASSUME NEW a, a.path = "courses", NEW entities
  PROVE  CreatedBody(a, entities).objects = entities
<1>1. CreatedBody(a, entities) = ToJson(entities)
  BY DEF CreatedBody, Target
<1> QED
  BY <1>1 DEF ToJson

-----------------------------------------------------------------------------
(* The actions. *)

\* A worker that turns to a request.
LEMMA DispatchBatch ==
  ASSUME IInv, BatchInv, IInv', NEW s \in Server, NEW r \in Request, Dispatch(s, r)
  PROVE  BatchInv'
<1>1. CASE AnswerAtOnce(s, r)
  BY <1>1, RespondBatch DEF AnswerAtOnce, Takes, IsFixed
<1>2. CASE RejectBody(s, r)
  BY <1>2, RespondBatch DEF RejectBody, Throw, Takes
<1>3. CASE AbortOnBody(s, r)
  BY <1>3, StopsByItself DEF AbortOnBody
<1>4. CASE CreateNothing(s, r)
  <2> DEFINE body == CreatedBody(ask[r], {})
  <2>1. /\ Respond(s, r, 201, body) /\ host[r] = s /\ phase[r] = "pending"
        /\ BodyOutcome(ask[r]) = "ok" /\ Len(Batch(ask[r])) = 0
    BY <1>4 DEF CreateNothing, Takes
  <2>2. Complete(r)
    BY <2>1 DEF Complete
  <2>3. Reported(r) = {}
    BY <2>1 DEF IInv, RequestAt, Reported
  <2>4. ask[r].path = "courses" => body.objects = Reported(r)
    BY <2>3, CreatedObjects
  <2> HIDE DEF body
  <2> QED
    BY <2>1, <2>2, <2>4, RespondBatch
<1>5. CASE StartQuery(s, r) \/ StartCreate(s, r)
  BY <1>5, StartBatch DEF StartQuery, StartCreate
<1> QED
  BY <1>1, <1>2, <1>3, <1>4, <1>5 DEF Dispatch

\* A worker that is done with its request, or ends over it.
LEMMA FinishBatch ==
  ASSUME IInv, BatchInv, IInv', NEW s \in Server,
         \/ LogThrows(s) \/ LogCrashes(s) \/ StatementFailed(s)
         \/ UserNotFound(s) \/ QueryDone(s) \/ BatchDone(s)
  PROVE  BatchInv'
<1>1. Active(s)
  BY DEF LogThrows, LogCrashes, StatementFailed, UserNotFound, QueryDone,
         BatchDone, InsertSucceeded, Active
<1>2. task[s] \in Request /\ host[task[s]] = s /\ phase[task[s]] = "running"
  BY <1>1 DEF IInv, WorkerAt
<1>3. CASE LogCrashes(s)
  BY <1>3, StopsByItself DEF LogCrashes
<1>4. CASE LogThrows(s) \/ StatementFailed(s) \/ UserNotFound(s)
  <2>1. Respond(s, task[s], 500, NoBody)
    BY <1>4 DEF LogThrows, StatementFailed, UserNotFound, Throw
  <2> QED
    BY <1>2, <2>1, RespondBatch
<1>5. CASE QueryDone(s)
  <2>1. Respond(s, task[s], QueryCode(s), QueryBody(s)) /\ ~IsCreate(ask[task[s]])
    BY <1>5 DEF QueryDone, IsQuery, IsCreate, Job
  <2> QED
    BY <1>2, <2>1, RespondBatch
<1>6. CASE BatchDone(s)
  <2> DEFINE body == CreatedBody(Job(s), Created(s))
  <2>1. Respond(s, task[s], 201, body)
    BY <1>6 DEF BatchDone
  <2>2. /\ BodyOutcome(Job(s)) = "ok" /\ Complete(task[s])
        /\ Created(s) = Reported(task[s])
    BY <1>6, BatchIsComplete DEF BatchDone
  <2>3. Job(s).path = "courses" => body.objects = Reported(task[s])
    BY <2>2, CreatedObjects
  <2> HIDE DEF body
  <2> QED
    BY <1>2, <2>1, <2>2, <2>3, RespondBatch DEF Job
<1> QED
  BY <1>3, <1>4, <1>5, <1>6

-----------------------------------------------------------------------------
(* The invariant. *)

\* Nothing is stored for a request at the start, and no two rows share a key.
LEMMA InitBatchInv == Init => BatchInv
<1> SUFFICES ASSUME Init PROVE BatchInv
  OBVIOUS
<1>1. \A r \in Request : StoredFor(r) = {}
  BY DatabaseAssumption DEF Init, DbInit, StoredFor
<1>2. KeysOnce /\ UniquesOnce
  BY DatabaseAssumption DEF Init, DbInit, KeysOnce, UniquesOnce
<1>3. \A r \in Request : StoredAt(r) /\ AnsweredAt(r)
  BY <1>1 DEF Init, StoredAt, AnsweredAt, NoAnswer
<1>4. \A s \in Server : BatchAt(s)
  BY DEF Init, BatchAt, Creates, Active
<1> QED
  BY <1>2, <1>3, <1>4 DEF Init, DbInit, BatchInv

\* Every step preserves the invariant.
LEMMA StepBatchInv == IInv /\ IInv' /\ BatchInv /\ [Next]_vars => BatchInv'
<1> SUFFICES ASSUME IInv, IInv', BatchInv, [Next]_vars PROVE BatchInv'
  OBVIOUS
<1>1. ASSUME NEW s \in Server, Work(s) PROVE BatchInv'
  <2>1. ASSUME NEW r \in Request, Dispatch(s, r) PROVE BatchInv'
    BY <2>1, DispatchBatch
  <2>2. CASE ExecuteOnDead(s) \/ Execute(s) \/ ExecuteLost(s)
    BY <2>2, ExecBatch
  <2>3. CASE \/ LogThrows(s) \/ LogCrashes(s) \/ StatementFailed(s)
             \/ UserNotFound(s) \/ QueryDone(s) \/ BatchDone(s)
    BY <2>3, FinishBatch
  <2>4. CASE NextSubentity(s) \/ NextEntity(s)
    BY <2>4, ContinueBatch
  <2> QED
    BY <1>1, <2>1, <2>2, <2>3, <2>4 DEF Work
<1>2. ASSUME NEW s \in Server, Crash(s) PROVE BatchInv'
  BY <1>2, CrashBatch
<1>3. ASSUME NEW s \in Server, Boot(s) PROVE BatchInv'
  BY <1>3, BootBatch
<1>4. ASSUME NEW r \in Request, NEW s \in Server, NEW a \in Offers, Send(r, s, a)
      PROVE  BatchInv'
  BY <1>4, SendBatch
<1>5. CASE UNCHANGED vars
  <2>1. /\ rows' = rows /\ serial' = serial /\ conn' = conn /\ reply' = reply
        /\ phase' = phase /\ ask' = ask /\ host' = host /\ answer' = answer
        /\ pc' = pc /\ task' = task /\ pos' = pos /\ sub' = sub /\ ids' = ids
        /\ adrift' = adrift
    BY <1>5 DEF vars, dbVars, connVars, requestVars, workerVars
  <2>2. KeysOnce' /\ UniquesOnce'
    BY <2>1 DEF BatchInv, KeysOnce, UniquesOnce
  <2>3. \A q : StoredFor(q)' = StoredFor(q)
    BY <2>1 DEF StoredFor
  <2>4. ASSUME NEW r \in Request PROVE StoredAt(r)' /\ AnsweredAt(r)'
    BY <2>1, <2>3, StoredFrame, AnsweredFrame DEF BatchInv
  <2>5. ASSUME NEW t \in Server PROVE BatchAt(t)'
    <3>1. StoredFor(task[t])' = StoredFor(task[t])
      BY <2>1 DEF StoredFor
    <3> QED
      BY <2>1, <3>1, BatchFrame DEF BatchInv, Keeps
  <2>6. OnceHolds'
    BY <2>1, OnceFrame DEF BatchInv, AdriftOnce, Keeps
  <2> QED
    BY <2>2, <2>4, <2>5, <2>6 DEF BatchInv, OnceHolds
<1>6. ASSUME NEW m \in adrift, RunLate(m) PROVE BatchInv'
  BY <1>6, LateBatch
<1> QED
  BY <1>1, <1>2, <1>3, <1>4, <1>5, <1>6 DEF Next

\* What is stored of the body of a request is stored once, as it was sent, and
\* under keys of its own, in every state of every behaviour.
THEOREM BatchInvariance == Spec => []BatchInv
<1>1. Init => BatchInv
  BY InitBatchInv
<1>2. IInv /\ IInv' /\ BatchInv /\ [Next]_vars => BatchInv'
  BY StepBatchInv
<1> QED
  BY <1>1, <1>2, Invariance, PTL DEF Spec

-----------------------------------------------------------------------------
(* What follows for the rows. *)

\* The request a row is of is a creation, and the row's place is one of its body.
LEMMA RowPlace ==
  ASSUME IInv, NEW r \in Request, NEW x \in StoredFor(r)
  PROVE  /\ ask[r] \in Offers /\ IsCreate(ask[r]) /\ IsPlace(ask[r], x.i, x.j)
         /\ x \in rows /\ x.req = r /\ IsRow(x) /\ x.i \in Nat /\ x.j \in Nat
<1>1. IsPlace(ask[r], x.i, x.j)
  BY DEF IInv, OrderOf
<1>2. x \in rows /\ x.req = r /\ IsRow(x)
  BY DEF StoredFor, IInv, TypeOK
<1> QED
  BY <1>1, <1>2, NoAskIsNone DEF IsPlace, IInv, TypeOK, IsRow, RowOf

\* No entity of a body is stored twice, whichever replies are lost.
THEOREM EntitiesAreStoredOnce == Spec => []StoredOnce
<1>1. BatchInv => StoredOnce
  BY DEF BatchInv, StoredAt, StoredOnce
<1> QED
  BY <1>1, BatchInvariance, PTL

\* Modules are stored under the key their own course was given, whatever keys
\* other processes draw from the sequence meanwhile.
THEOREM ModulesAreUnderTheirCourse == Spec => []ModulesUnderTheirCourse
<1>1. IInv /\ BatchInv => ModulesUnderTheirCourse
  <2> SUFFICES ASSUME IInv, BatchInv, NEW r \in Request, NEW x \in StoredFor(r), x.j > 0
               PROVE  /\ x.tbl = "modules"
                      /\ \E y \in StoredFor(r) :
                           /\ y.tbl = "courses" /\ y.i = x.i /\ y.j = 0
                           /\ x.val["course_id"] = y.id
    BY DEF ModulesUnderTheirCourse
  <2> DEFINE v == Batch(ask[r])[x.i].subs[x.j]
  <2>1. /\ ask[r] \in Offers /\ IsPlace(ask[r], x.i, x.j) /\ x.j \in Nat /\ x.j # 0
    BY RowPlace
  <2>2. x.tbl = "modules"
    BY <2>1 DEF BatchInv, StoredAt, InsertedAs
  <2>3. PICK y \in StoredFor(r) : y.i = x.i /\ y.j = 0 /\ x.val = Arguments(Linked(v, y.id))
    BY <2>1 DEF BatchInv, StoredAt, InsertedAs
  <2>4. y.tbl = "courses"
    <3>1. y.tbl = Target(ask[r])
      BY <2>3 DEF BatchInv, StoredAt, InsertedAs
    <3> QED
      BY <2>1, <3>1, OnlyCoursesHaveModules
  <2>5. x.val["course_id"] = y.id
    <3>1. v \in [InsertColumns("modules") -> Value]
      <4>1. Batch(ask[r])[x.i].subs \in Seq([InsertColumns("modules") -> Value])
        BY <2>1, PlaceType
      <4>2. x.j \in 1..Len(Batch(ask[r])[x.i].subs)
        BY <2>1, <4>1, PlaceType
      <4> QED
        BY <4>1, <4>2
    <3>2. y.id \in Int
      BY RowPlace, ConstantsAssumption DEF IsRow, RowOf
    <3> QED
      BY <2>3, <3>1, <3>2, LinkedKey
  <2> QED
    BY <2>2, <2>3, <2>4, <2>5
<1> QED
  BY <1>1, Invariance, BatchInvariance, PTL

\* A 201 to a POST is true: all of its body, entities and modules, is stored
\* as from_json read it, and the response of POST /courses tells the keys of
\* the rows of the courses.
THEOREM CreatedMeansStored == Spec => []CreatedIsStored
<1>1. IInv /\ BatchInv => CreatedIsStored
  <2> SUFFICES ASSUME IInv, BatchInv, NEW r \in Request,
                      IsCreate(ask[r]), answer[r].code = 201
               PROVE  /\ Complete(r)
                      /\ \A x \in StoredFor(r) : x.j = 0 =>
                           /\ x.tbl = Target(ask[r])
                           /\ x.val = Arguments(Batch(ask[r])[x.i].val)
                           /\ x.tbl = "courses" =>
                                [id |-> x.id, val |-> Batch(ask[r])[x.i].val]
                                  \in answer[r].body.objects
                      /\ \A x, y \in StoredFor(r) : x.j > 0 /\ y.i = x.i /\ y.j = 0 =>
                           /\ x.tbl = "modules"
                           /\ x.val = Arguments(Linked(Batch(ask[r])[x.i].subs[x.j], y.id))
    BY DEF CreatedIsStored
  <2>1. Complete(r)
    BY DEF BatchInv, AnsweredAt
  <2>2. ASSUME NEW x \in StoredFor(r), x.j = 0
        PROVE  /\ x.tbl = Target(ask[r])
               /\ x.val = Arguments(Batch(ask[r])[x.i].val)
    BY <2>2 DEF BatchInv, StoredAt, InsertedAs
  <2>3. ASSUME NEW x \in StoredFor(r), x.j = 0, x.tbl = "courses"
        PROVE  [id |-> x.id, val |-> Batch(ask[r])[x.i].val] \in answer[r].body.objects
    <3>1. ask[r].path = "courses"
      BY <2>2, <2>3 DEF IsCreate, Target
    <3>2. answer[r].body.objects = Reported(r)
      BY <3>1 DEF BatchInv, AnsweredAt
    <3> QED
      BY <2>3, <3>2 DEF Reported
  <2>4. ASSUME NEW x \in StoredFor(r), NEW y \in StoredFor(r),
               x.j > 0, y.i = x.i, y.j = 0
        PROVE  /\ x.tbl = "modules"
               /\ x.val = Arguments(Linked(Batch(ask[r])[x.i].subs[x.j], y.id))
    <3>1. x.j # 0 /\ InsertedAs(r, x)
      BY <2>4, RowPlace DEF BatchInv, StoredAt
    <3>2. PICK z \in StoredFor(r) :
            /\ z.i = x.i /\ z.j = 0
            /\ x.val = Arguments(Linked(Batch(ask[r])[x.i].subs[x.j], z.id))
      BY <3>1 DEF InsertedAs
    <3>3. y = z
      BY <2>4, <3>2 DEF BatchInv, StoredAt
    <3> QED
      BY <3>1, <3>2, <3>3 DEF InsertedAs
  <2> QED
    BY <2>1, <2>2, <2>3, <2>4
<1> QED
  BY <1>1, Invariance, BatchInvariance, PTL

\* What an answer to POST /courses reports are the keys of the rows of its
\* entities.
LEMMA ReportedRows ==
  ASSUME IInv, BatchInv, NEW r \in Request, ReportedKeys(r) # {}
  PROVE  /\ ReportedKeys(r) = {x.id : x \in {y \in StoredFor(r) : y.j = 0}}
         /\ \A x \in StoredFor(r) : x.j = 0 => x.tbl = "courses"
         /\ Complete(r) /\ BodyOutcome(ask[r]) = "ok"
         /\ ask[r] \in Offers /\ IsCreate(ask[r])
<1>1. /\ IsCreate(ask[r]) /\ ask[r].path = "courses" /\ answer[r].code = 201
      /\ ReportedKeys(r) = {e.id : e \in answer[r].body.objects}
  BY DEF ReportedKeys
<1>2. ask[r] \in Offers
  BY <1>1, NoAskIsNone DEF IInv, TypeOK
<1>3. Complete(r) /\ BodyOutcome(ask[r]) = "ok"
  BY <1>1 DEF BatchInv, AnsweredAt
<1>5. answer[r].body.objects = Reported(r)
  BY <1>1 DEF BatchInv, AnsweredAt
<1>6. ReportedKeys(r) = {x.id : x \in {y \in StoredFor(r) : y.j = 0}}
  <2> DEFINE R == {y \in StoredFor(r) : y.j = 0}
             value(x) == Batch(ask[r])[x.i].val
  <2>1. Reported(r) = {[id |-> x.id, val |-> value(x)] : x \in R}
    BY DEF Reported
  <2> HIDE DEF R, value
  <2>2. {e.id : e \in Reported(r)} = {x.id : x \in R}
    <3>1. \A e \in Reported(r) : \E x \in R : e.id = x.id
      BY <2>1
    <3>2. ASSUME NEW x \in R
          PROVE  \E e \in Reported(r) : e.id = x.id
      <4> DEFINE e == [id |-> x.id, val |-> value(x)]
      <4>1. e \in Reported(r)
        BY <2>1
      <4>2. e.id = x.id
        OBVIOUS
      <4> HIDE DEF e
      <4> QED
        BY <4>1, <4>2
    <3> QED
      BY <3>1, <3>2
  <2> QED
    BY <1>1, <1>5, <2>2 DEF R
<1>7. \A x \in StoredFor(r) : x.j = 0 => x.tbl = "courses"
  BY <1>1 DEF BatchInv, StoredAt, InsertedAs, Target
<1> QED
  BY <1>1, <1>2, <1>3, <1>6, <1>7

\* An answer to POST /courses reports as many keys as its body has courses.
LEMMA ReportedCount ==
  ASSUME IInv, BatchInv, NEW r \in Request, ReportedKeys(r) # {}
  PROVE  Cardinality(ReportedKeys(r)) = Len(Batch(ask[r]))
<1> DEFINE n == Len(Batch(ask[r]))
           K == {x.id : x \in {y \in StoredFor(r) : y.j = 0}}
<1>1. /\ ReportedKeys(r) = K /\ Complete(r)
      /\ \A x \in StoredFor(r) : x.j = 0 => x.tbl = "courses"
      /\ ask[r] \in Offers /\ IsCreate(ask[r]) /\ BodyOutcome(ask[r]) = "ok"
  BY ReportedRows
<1>2. Batch(ask[r]) \in Seq(Entity(Target(ask[r])))
  BY <1>1, BatchType
<1>3. n \in Nat
  BY <1>2
<1>4. \A k \in 1..n : \E x \in StoredFor(r) : x.i = k /\ x.j = 0
  <2> TAKE k \in 1..n
  <2>1. Batch(ask[r])[k] \in Entity(Target(ask[r]))
    BY <1>2, ElementOfSeq
  <2>2. Len(Batch(ask[r])[k].subs) \in Nat
    BY <2>1 DEF Entity
  <2>3. 0 \in 0..Len(Batch(ask[r])[k].subs)
    BY <2>2
  <2> QED
    BY <1>1, <2>3 DEF Complete, IsStored
<1>5. \A x \in StoredFor(r) : x.i \in 1..n
  BY RowPlace DEF IsPlace
<1>6. \A x, y \in StoredFor(r) : x.j = 0 /\ y.j = 0 /\ (x.i = y.i \/ x.id = y.id) => x = y
  BY <1>1, RowPlace DEF BatchInv, StoredAt, KeysOnce
<1> DEFINE row(k) == CHOOSE x \in StoredFor(r) : x.i = k /\ x.j = 0
           f == [k \in 1..n |-> row(k).id]
<1> HIDE DEF n
<1>7. \A k \in 1..n : row(k) \in StoredFor(r) /\ row(k).i = k /\ row(k).j = 0
  BY <1>4
<1>8. \A x \in StoredFor(r) : x.j = 0 => row(x.i) = x
  BY <1>5, <1>6, <1>7
<1> HIDE DEF row
<1>9. f \in Bijection(1..n, K)
  <2>1. f \in [1..n -> K]
    BY <1>7
  <2>2. \A k, l \in 1..n : f[k] = f[l] => k = l
    BY <1>6, <1>7
  <2>3. \A id \in K : \E k \in 1..n : f[k] = id
    BY <1>5, <1>8
  <2> HIDE DEF f
  <2> QED
    BY <2>1, <2>2, <2>3, Zenon DEF Bijection, Injection, Surjection, IsInjective
<1>10. ExistsBijection(1..n, K)
  BY <1>9 DEF ExistsBijection
<1> QED
  BY <1>1, <1>3, <1>10, FS_CountingElements DEF n

\* A repeated POST /courses gets courses of its own: no key is told twice.
THEOREM RepeatedCoursesGetNewKeys == Spec => []RepeatedCoursesAreNew
<1>1. IInv /\ BatchInv => RepeatedCoursesAreNew
  <2> SUFFICES ASSUME IInv, BatchInv, NEW r \in Request, ReportedKeys(r) # {}
               PROVE  /\ Cardinality(ReportedKeys(r)) = Len(Batch(ask[r]))
                      /\ \A q \in Request \ {r} :
                           ReportedKeys(q) \cap ReportedKeys(r) = {}
    BY DEF RepeatedCoursesAreNew
  <2>1. ASSUME NEW q \in Request \ {r}, NEW id \in ReportedKeys(q), id \in ReportedKeys(r)
        PROVE  FALSE
    <3>1. PICK x \in StoredFor(r) : x.j = 0 /\ x.id = id /\ x.tbl = "courses"
      BY <2>1, ReportedRows
    <3>2. PICK y \in StoredFor(q) : y.j = 0 /\ y.id = id /\ y.tbl = "courses"
      BY <2>1, ReportedRows
    <3>3. x = y
      BY <3>1, <3>2 DEF BatchInv, KeysOnce, StoredFor
    <3> QED
      BY <2>1, <3>3 DEF StoredFor
  <2> QED
    BY <2>1, ReportedCount
<1> QED
  BY <1>1, Invariance, BatchInvariance, PTL

\* Of two POST /users with one body at most one stores anything if one of them
\* is answered 201.
THEOREM UsersAreNotDuplicated == Spec => []UsersNotDuplicated
<1>1. IInv /\ BatchInv => UsersNotDuplicated
  <2> SUFFICES ASSUME IInv, BatchInv, NEW q \in Request, NEW r \in Request,
                      q # r, ask[q] = ask[r], ask[q].path = "users", IsCreate(ask[q]),
                      answer[q].code = 201, NEW x \in StoredFor(r)
               PROVE  FALSE
    BY DEF UsersNotDuplicated
  <2>1. /\ ask[r] \in Offers /\ IsPlace(ask[r], x.i, x.j) /\ x.i \in Nat /\ x.j \in Nat
    BY RowPlace
  <2>2. /\ Batch(ask[r]) \in Seq(Entity("users"))
        /\ 1 \in 1..Len(Batch(ask[r])) /\ 1 \in 1..x.i
    BY <2>1, BatchType, PlaceType DEF IsPlace, Target
  <2>3. 0 \in 0..Len(Batch(ask[r])[1].subs)
    <3>1. Batch(ask[r])[1] \in Entity("users")
      BY <2>2, ElementOfSeq
    <3> QED
      BY <3>1 DEF Entity
  <2>4. PICK y \in StoredFor(r) : y.i = 1 /\ y.j = 0
    <3>1. Precedes(1, 0, x.i, x.j) \/ (x.i = 1 /\ x.j = 0)
      BY <2>1, <2>2 DEF Precedes
    <3>2. Precedes(1, 0, x.i, x.j) => IsStored(r, 1, 0)
      BY <2>2, <2>3 DEF IInv, OrderOf
    <3> QED
      BY <3>1, <3>2 DEF IsStored
  <2>5. PICK z \in StoredFor(q) : z.i = 1 /\ z.j = 0
    <3>1. Complete(q)
      BY DEF BatchInv, AnsweredAt
    <3> QED
      BY <2>2, <2>3, <3>1 DEF Complete, IsStored
  <2>6. /\ y.tbl = "users" /\ y.val = Arguments(Batch(ask[r])[1].val)
        /\ z.tbl = "users" /\ z.val = Arguments(Batch(ask[r])[1].val)
    BY <2>4, <2>5 DEF BatchInv, StoredAt, InsertedAs, Target
  <2>7. y = z
    <3>1. "email" \in Uniques["users"]
      BY DEF Uniques
    <3> QED
      BY <2>6, <3>1 DEF BatchInv, UniquesOnce, StoredFor
  <2> QED
    BY <2>7 DEF StoredFor
<1> QED
  BY <1>1, Invariance, BatchInvariance, PTL

-----------------------------------------------------------------------------
(* What follows for the answers. *)

\* The steps in which process s answers request r.
LEMMA AnswerSteps ==
  ASSUME IInv, [Next]_vars, NEW s \in Server, NEW r \in Request, Answers(s, r)
  PROVE  \/ AnswerAtOnce(s, r) \/ RejectBody(s, r) \/ CreateNothing(s, r)
         \/ /\ Active(s) /\ r = task[s]
            /\ \/ LogThrows(s) \/ StatementFailed(s) \/ UserNotFound(s)
               \/ QueryDone(s) \/ BatchDone(s)
<1>1. phase[r] # "answered" /\ phase'[r] = "answered" /\ host[r] = s
  BY DEF Answers
<1>2. /\ phase \in [Request -> {"unsent", "pending", "running", "answered", "reset"}]
      /\ Server \cap {} = {}
  BY DEF IInv, TypeOK
<1>3. ASSUME NEW t \in Server, Stop(t) PROVE FALSE
  BY <1>1, <1>3 DEF Stop
<1>4. ASSUME NEW t \in Server, NEW q \in Request, NEW code, NEW body,
             Respond(t, q, code, body)
      PROVE  q = r
  BY <1>1, <1>2, <1>4 DEF Respond
<1>5. ASSUME NEW t \in Server, NEW q \in Request, Dispatch(t, q)
      PROVE  AnswerAtOnce(s, r) \/ RejectBody(s, r) \/ CreateNothing(s, r)
  <2>1. CASE AbortOnBody(t, q)
    BY <1>3, <2>1 DEF AbortOnBody
  <2>2. CASE StartQuery(t, q) \/ StartCreate(t, q)
    BY <1>1, <1>2, <2>2 DEF StartQuery, StartCreate, StartWork
  <2>3. CASE AnswerAtOnce(t, q) \/ RejectBody(t, q) \/ CreateNothing(t, q)
    <3>1. q = r
      BY <1>4, <2>3 DEF AnswerAtOnce, RejectBody, CreateNothing, Throw
    <3>2. t = s
      BY <1>1, <2>3, <3>1 DEF AnswerAtOnce, RejectBody, CreateNothing, Takes
    <3> QED
      BY <2>3, <3>1, <3>2
  <2> QED
    BY <1>5, <2>1, <2>2, <2>3 DEF Dispatch
<1>6. ASSUME NEW t \in Server,
             \/ LogThrows(t) \/ StatementFailed(t) \/ UserNotFound(t)
             \/ QueryDone(t) \/ BatchDone(t)
      PROVE  /\ Active(s) /\ r = task[s] /\ t = s
  <2>1. Active(t)
    BY <1>6 DEF LogThrows, StatementFailed, UserNotFound, QueryDone, BatchDone,
                InsertSucceeded, Active
  <2>2. task[t] \in Request /\ host[task[t]] = t
    BY <2>1 DEF IInv, WorkerAt
  <2>3. task[t] = r
    BY <1>4, <1>6, <2>2 DEF LogThrows, StatementFailed, UserNotFound, QueryDone,
                            BatchDone, Throw
  <2> QED
    BY <1>1, <2>1, <2>2, <2>3
<1>7. ASSUME NEW t \in Server,
             \/ ExecuteOnDead(t) \/ Execute(t) \/ ExecuteLost(t)
             \/ NextSubentity(t) \/ NextEntity(t) \/ Boot(t)
      PROVE  FALSE
  <2>1. phase' = phase
    BY <1>7 DEF ExecuteOnDead, Execute, ExecuteLost, AwaitsReply, NextSubentity,
                NextEntity, ContinueAt, Boot, requestVars
  <2> QED
    BY <1>1, <2>1
<1>8. ASSUME NEW q \in Request, NEW t \in Server, NEW a \in Offers, Send(q, t, a)
      PROVE  FALSE
  BY <1>1, <1>2, <1>8 DEF Send
<1>9. CASE UNCHANGED vars
  BY <1>1, <1>9 DEF vars, requestVars
<1>10. ASSUME NEW m \in adrift, RunLate(m) PROVE FALSE
  BY <1>1, <1>10 DEF RunLate, requestVars
<1> QED
  BY <1>3, <1>5, <1>6, <1>7, <1>8, <1>9, <1>10 DEF Next, Work, Crash, LogCrashes

\* The answer a step gives.
LEMMA AnswerGiven ==
  ASSUME IInv, NEW s \in Server, NEW r \in Request, NEW code, NEW body,
         Respond(s, r, code, body)
  PROVE  answer'[r] = [code |-> code, body |-> body]
  BY DEF IInv, TypeOK, Respond

\* A 500 to a POST over a connection that works means that something of its
\* body is not stored.
THEOREM FailuresAreIncomplete == Spec => FailedIsIncomplete
<1>1. ASSUME IInv, BatchInv, [Next]_vars, NEW s \in Server, NEW r \in Request,
             Answers(s, r), IsCreate(ask[r]), answer'[r].code = 500,
             BodyOutcome(ask[r]) = "ok", conn[s] = "ok"
      PROVE  ~Complete(r)
  <2>1. CASE AnswerAtOnce(s, r) \/ RejectBody(s, r)
    BY <1>1, <2>1 DEF AnswerAtOnce, RejectBody, IsFixed
  <2>2. CASE CreateNothing(s, r)
    <3>1. answer'[r] = [code |-> 201, body |-> CreatedBody(ask[r], {})]
      BY <1>1, <2>2, AnswerGiven DEF CreateNothing
    <3> QED
      BY <1>1, <3>1
  <2>3. CASE Active(s) /\ r = task[s] /\ BatchDone(s)
    <3>1. answer'[r] = [code |-> 201, body |-> CreatedBody(Job(s), Created(s))]
      BY <1>1, <2>3, AnswerGiven DEF BatchDone
    <3> QED
      BY <1>1, <3>1
  <2>4. CASE Active(s) /\ r = task[s] /\ (QueryDone(s) \/ UserNotFound(s))
    BY <1>1, <2>4 DEF QueryDone, UserNotFound, IsQuery, IsCreate, Job
  <2>5. CASE Active(s) /\ r = task[s] /\ (LogThrows(s) \/ StatementFailed(s))
    <3>1. Creates(s)
      BY <1>1, <2>5 DEF Creates, Job
    <3>2. \A x \in StoredFor(r) : Precedes(x.i, x.j, pos[s], sub[s])
      BY <1>1, <2>5, <3>1 DEF BatchInv, BatchAt, LogThrows, StatementFailed
    <3>3. IsPlace(ask[r], pos[s], sub[s])
      BY <1>1, <2>5, <3>1 DEF IInv, WorkerAt, Job
    <3>4. ~Precedes(pos[s], sub[s], pos[s], sub[s])
      <4>1. pos[s] \in Nat /\ sub[s] \in Nat
        BY <1>1 DEF IInv, TypeOK
      <4> QED
        BY <4>1 DEF Precedes
    <3> QED
      BY <3>2, <3>3, <3>4 DEF Complete, IsStored, IsPlace
  <2> QED
    BY <1>1, <2>1, <2>2, <2>3, <2>4, <2>5, AnswerSteps
<1>2. IInv /\ BatchInv /\ [Next]_vars =>
        [\A s \in Server, r \in Request :
           /\ Answers(s, r) /\ IsCreate(ask[r]) /\ answer'[r].code = 500
           /\ BodyOutcome(ask[r]) = "ok" /\ conn[s] = "ok"
           => ~Complete(r)]_vars
  BY <1>1
<1> QED
  BY <1>2, Invariance, BatchInvariance, PTL DEF Spec, FailedIsIncomplete
=============================================================================
