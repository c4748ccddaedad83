-------------------------- MODULE BackendAppProofs --------------------------
(***************************************************************************)
(* Theorems about BackendApp for any number of processes and requests, any *)
(* requests clients may make, and any contents of the database: every      *)
(* variable has its type, and what is stored of the body of a request is   *)
(* a beginning of it.  Both follow from the inductive invariant IInv.      *)
(***************************************************************************)
EXTENDS BackendInvariants, EntitiesProofs

-----------------------------------------------------------------------------
(* Bodies and statements. *)

\* The body of a POST that is accepted decodes to entities of its target.
LEMMA BatchType ==
  ASSUME NEW a \in Offers, IsCreate(a), BodyOutcome(a) = "ok"
  PROVE  Target(a) \in Tables /\ Batch(a) \in Seq(Entity(Target(a)))
<1>1. Target(a) \in Tables
  BY DEF IsCreate, Target, Tables
<1>2. Outcome(Target(a), a.body) = "ok"
  BY DEF BodyOutcome, BodyOutcomes
<1>3. Batch(a) = Deserialize(Target(a), a.body)
  BY <1>2 DEF BodyOutcome, Batch, Batches, BodyOutcomes
<1>4. IsBody(Target(a), a.body)
  BY OffersAssumption
<1> QED
  BY <1>1, <1>2, <1>3, <1>4, DeserializeType

\* The shape of a batch at one of its places.
LEMMA PlaceType ==
  ASSUME NEW a \in Offers, NEW i, NEW j, IsPlace(a, i, j)
  PROVE  /\ Len(Batch(a)) \in Nat /\ i \in 1..Len(Batch(a)) /\ i \in Nat
         /\ j \in Nat /\ j =< Len(Batch(a)[i].subs)
         /\ Batch(a)[i].val \in [InsertColumns(Target(a)) -> Value]
         /\ \A k \in 1..Len(Batch(a)) :
              Batch(a)[k].subs \in Seq([InsertColumns("modules") -> Value])
<1>1. Batch(a) \in Seq(Entity(Target(a)))
  BY BatchType DEF IsPlace
<1>2. Len(Batch(a)) \in Nat /\ i \in 1..Len(Batch(a)) /\ i \in Nat
  BY <1>1 DEF IsPlace
<1>3. \A k \in 1..Len(Batch(a)) : Batch(a)[k] \in Entity(Target(a))
  BY <1>1
<1>4. \A k \in 1..Len(Batch(a)) :
        Batch(a)[k].subs \in Seq([InsertColumns("modules") -> Value])
  BY <1>3 DEF Entity
<1>5. Batch(a)[i].val \in [InsertColumns(Target(a)) -> Value]
  BY <1>2, <1>3 DEF Entity
<1>6. Len(Batch(a)[i].subs) \in Nat
  BY <1>2, <1>4
<1> QED
  BY <1>2, <1>4, <1>5, <1>6 DEF IsPlace

\* NoAsk is none of the requests clients make, and neither a query nor a
\* creation.
LEMMA NoAskIsNone ==
  NoAsk \notin Offers /\ ~IsQuery(NoAsk) /\ ~IsCreate(NoAsk)
<1>1. "none" \notin Routes
  BY DEF Routes
<1> QED
  BY <1>1, OffersAssumption DEF NoAsk, IsQuery, IsCreate

\* A worker that is active handles a request clients make, which is a query
\* or a creation and not both.
LEMMA JobType ==
  ASSUME TypeOK, NEW s \in Server, WorkerAt(s), Active(s)
  PROVE  /\ task[s] \in Request /\ Job(s) \in Offers
         /\ IsQuery(Job(s)) <=> ~IsCreate(Job(s))
BY NoAskIsNone DEF TypeOK, WorkerAt, Job, IsQuery, IsCreate

\* Whatever becomes of its argument, the server gets a SELECT as a SELECT.
LEMMA SentSelect ==
  ASSUME NEW op \in {"select", "exists"}, NEW T, NEW column, NEW value
  PROVE  Sent([op |-> op, tbl |-> T, column |-> column, value |-> value]).op = op
BY DEF Sent

\* A query is answered by a SELECT.
LEMMA QueryType ==
  ASSUME NEW a, a.path \in Routes \ {"test"}
  PROVE  Sent(Query(a)).op \in {"select", "exists"}
<1>1. CASE a.path = "users"
  BY <1>1, SentSelect DEF Query, Select
<1>2. CASE a.path = "courses"
  BY <1>2, SentSelect DEF Query, Select
<1>3. CASE a.path = "users_search"
  BY <1>3, SentSelect DEF Query, Select
<1>4. CASE a.path = "user"
  BY <1>4, SentSelect DEF Query, Select
<1>5. CASE a.path = "user_exists"
  <2>1. Query(a) = [op |-> "exists", tbl |-> "users", column |-> "id", value |-> a.arg]
    BY <1>5 DEF Query, Select
  <2> QED
    BY <2>1, SentSelect
<1>6. CASE a.path = "course"
  BY <1>6, SentSelect DEF Query, Select
<1> QED
  BY <1>1, <1>2, <1>3, <1>4, <1>5, <1>6 DEF Routes

\* The server gets an INSERT as an INSERT, of values of the same types.
LEMMA SentInsert ==
  ASSUME NEW T \in Tables, NEW v \in [InsertColumns(T) -> Value], NEW stmt,
         stmt = [op |-> "insert", tbl |-> T, val |-> v]
  PROVE  /\ Sent(stmt).op = "insert" /\ Sent(stmt).tbl = T
         /\ Sent(stmt).val \in [InsertColumns(T) -> Value]
<1>1. /\ Sent(stmt).op = "insert" /\ Sent(stmt).tbl = T
      /\ Sent(stmt).val = Arguments(v)
  BY DEF Sent
<1>2. \A x \in Value : Argument(x) \in Value
  BY ArgumentsAssumption DEF Argument, Value
<1> QED
  BY <1>1, <1>2 DEF Arguments

\* The statement the server gets from a worker: an INSERT of typed values, or
\* a SELECT.
LEMMA StatementType ==
  ASSUME TypeOK, NEW s \in Server, WorkerAt(s), Active(s)
  PROVE  /\ Creates(s) => /\ Sent(Statement(s)).op = "insert"
                          /\ Sent(Statement(s)).tbl \in Tables
                          /\ Sent(Statement(s)).val
                               \in [InsertColumns(Sent(Statement(s)).tbl) -> Value]
         /\ ~Creates(s) => Sent(Statement(s)).op \in {"select", "exists"}
<1>1. Job(s) \in Offers /\ (IsQuery(Job(s)) <=> ~IsCreate(Job(s)))
  BY JobType
<1>2. ASSUME Creates(s)
      PROVE  /\ Sent(Statement(s)).op = "insert"
             /\ Sent(Statement(s)).tbl \in Tables
             /\ Sent(Statement(s)).val
                  \in [InsertColumns(Sent(Statement(s)).tbl) -> Value]
  <2> DEFINE e == Batch(Job(s))[pos[s]]
  <2>1. Statement(s) = InsertStatement(s)
    BY <1>2 DEF Creates, Statement
  <2>2. IsPlace(Job(s), pos[s], sub[s])
    BY <1>2 DEF WorkerAt
  <2>3. Target(Job(s)) \in Tables
    BY <1>1, <1>2, <2>2, BatchType DEF Creates, IsPlace
  <2>4. CASE sub[s] = 0
    <3>1. Statement(s) = [op |-> "insert", tbl |-> Target(Job(s)), val |-> e.val]
      BY <2>1, <2>4 DEF InsertStatement
    <3>2. e.val \in [InsertColumns(Target(Job(s))) -> Value]
      BY <1>1, <2>2, PlaceType
    <3> QED
      BY <2>3, <3>1, <3>2, SentInsert
  <2>5. CASE sub[s] # 0
    <3>1. Statement(s) = [op |-> "insert", tbl |-> "modules",
                          val |-> Linked(e.subs[sub[s]], ids[s][pos[s]])]
      BY <2>1, <2>5 DEF InsertStatement
    <3>2. e.subs \in Seq([InsertColumns("modules") -> Value])
      BY <1>1, <2>2, PlaceType
    <3>3. sub[s] \in 1..Len(e.subs)
      BY <1>1, <2>2, <2>5, <3>2, PlaceType
    <3>4. e.subs[sub[s]] \in [InsertColumns("modules") -> Value]
      BY <3>2, <3>3
    <3>5. ids[s][pos[s]] \in Value
      <4>1. ids[s] \in Seq(1..MaxInt) /\ Len(ids[s]) = pos[s]
        BY <1>2, <2>5 DEF TypeOK, WorkerAt
      <4>2. pos[s] \in 1..Len(ids[s])
        BY <1>1, <2>2, <4>1, PlaceType
      <4>3. ids[s][pos[s]] \in 1..MaxInt
        BY <4>1, <4>2, ElementOfSeq
      <4> QED
        BY <4>3, ConstantsAssumption DEF Value
    <3>6. Linked(e.subs[sub[s]], ids[s][pos[s]])
            \in [InsertColumns("modules") -> Value]
      BY <3>4, <3>5 DEF Linked
    <3> QED
      BY <3>1, <3>6, SentInsert DEF Tables
  <2> QED
    BY <2>4, <2>5
<1>3. ASSUME ~Creates(s)
      PROVE  Sent(Statement(s)).op \in {"select", "exists"}
  <2>1. IsQuery(Job(s)) /\ Statement(s) = Query(Job(s))
    BY <1>1, <1>3 DEF Creates, Statement
  <2>2. Job(s).path \in Routes /\ Job(s).path # "test"
    BY <1>1, <2>1, OffersAssumption DEF IsQuery
  <2> QED
    BY <2>1, <2>2, QueryType
<1> QED
  BY <1>2, <1>3

-----------------------------------------------------------------------------
(***************************************************************************)
(* What a step leaves alone.  Most of the step proofs are that the other   *)
(* workers, the other requests and the rows already stored are as before.  *)
(***************************************************************************)

\* The step leaves worker t, and the request it handles, as they are.
Keeps(t) ==
  /\ pc'[t] = pc[t] /\ task'[t] = task[t] /\ pos'[t] = pos[t]
  /\ sub'[t] = sub[t] /\ ids'[t] = ids[t] /\ reply'[t] = reply[t]
  /\ Active(t) => /\ ask'[task[t]] = ask[task[t]]
                  /\ phase'[task[t]] = phase[task[t]]
                  /\ host'[task[t]] = host[task[t]]

\* A worker that is left alone stays well formed.
LEMMA WorkerFrame ==
  ASSUME NEW t \in Server, WorkerAt(t), CursorAt(t), Keeps(t), rows \subseteq rows'
  PROVE  WorkerAt(t)' /\ CursorAt(t)'
<1>1. Active(t)' <=> Active(t)
  BY DEF Active, Keeps
<1>2. Active(t) => Job(t)' = Job(t)
  BY DEF Keeps, Job
<1>3. Creates(t)' <=> Creates(t)
  BY <1>1, <1>2 DEF Creates
<1>4. Failed(t)' <=> Failed(t)
  BY DEF Failed, Keeps
<1>5. \A r, i, j : IsStored(r, i, j) => IsStored(r, i, j)'
  BY DEF IsStored, StoredFor
<1>6. WorkerAt(t)'
  BY <1>1, <1>2, <1>3, <1>4 DEF WorkerAt, Keeps, Creates
<1>7. CursorAt(t)'
  BY <1>2, <1>3, <1>4, <1>5 DEF CursorAt, Keeps, Creates
<1> QED
  BY <1>6, <1>7

\* A worker that is not active is well formed once it has forgotten its batch.
LEMMA WorkerIdle ==
  ASSUME NEW t \in Server, pc'[t] \in {"down", "idle"},
         sub'[t] = 0, ids'[t] = <<>>
  PROVE  WorkerAt(t)' /\ CursorAt(t)'
  BY DEF WorkerAt, CursorAt, Active, Creates

\* The rows of a request that the step neither stores for nor asks anew.
LEMMA OrderFrame ==
  ASSUME NEW r \in Request, OrderOf(r), StoredFor(r)' = StoredFor(r),
         ask'[r] = ask[r] \/ StoredFor(r) = {}
  PROVE  OrderOf(r)'
<1>1. CASE StoredFor(r) = {}
  BY <1>1 DEF OrderOf
<1>2. CASE ask'[r] = ask[r]
  BY <1>2 DEF OrderOf, IsStored
<1> QED
  BY <1>1, <1>2

\* What is adrift is well formed.
AdriftHolds == \A m \in adrift : IsAdrift(m) /\ AdriftAt(m)

\* A request that a worker has turned to once stays what it is.
Settled(r) == phase[r] \notin {"unsent", "pending"}

\* Rows are only added, so what is adrift stays well formed, or is gone.
LEMMA AdriftFrame ==
  ASSUME IInv, adrift' \subseteq adrift, rows \subseteq rows',
         \A r \in Request : Settled(r) => ask'[r] = ask[r] /\ Settled(r)'
  PROVE  AdriftHolds'
<1> SUFFICES ASSUME NEW m \in adrift PROVE IsAdrift(m)' /\ AdriftAt(m)'
  BY DEF AdriftHolds
<1>1. IsAdrift(m) /\ AdriftAt(m)
  BY DEF IInv, TypeOK
<1>2. m.req \in Request
  BY <1>1 DEF IsAdrift, AdriftOf
<1>3. ask'[m.req] = ask[m.req] /\ Settled(m.req)'
  BY <1>1, <1>2 DEF AdriftAt, Settled
<1>4. \A i, j : IsStored(m.req, i, j) => IsStored(m.req, i, j)'
  BY DEF IsStored, StoredFor
<1>5. IsAdrift(m)'
  BY <1>1 DEF IsAdrift, AdriftOf
<1> QED
  BY <1>1, <1>3, <1>4, <1>5 DEF AdriftAt, Settled

\* The statement of a worker goes adrift: before its place all is stored.
LEMMA AdriftJoins ==
  ASSUME IInv, NEW s \in Server, Active(s), rows' = rows, ask' = ask,
         \A r \in Request : Settled(r) => Settled(r)',
         GoesAdrift(Sent(Statement(s)), task[s], pos[s], sub[s])
  PROVE  AdriftHolds'
<1> DEFINE stmt == Sent(Statement(s))
<1>1. WorkerAt(s) /\ CursorAt(s) /\ TypeOK
  BY DEF IInv
<1>2. \A m \in adrift : IsAdrift(m)' /\ AdriftAt(m)'
  <2>1. ASSUME NEW m \in adrift
        PROVE  IsAdrift(m)' /\ AdriftAt(m)'
    <3>1. IsAdrift(m) /\ AdriftAt(m)
      BY DEF IInv, TypeOK
    <3>2. m.req \in Request
      BY <3>1 DEF IsAdrift, AdriftOf
    <3>3. Settled(m.req)'
      BY <3>1, <3>2 DEF AdriftAt, Settled
    <3>4. \A i, j : IsStored(m.req, i, j)' <=> IsStored(m.req, i, j)
      BY DEF IsStored, StoredFor
    <3>5. IsAdrift(m)'
      BY <3>1 DEF IsAdrift, AdriftOf
    <3> QED
      BY <3>1, <3>3, <3>4, <3>5 DEF AdriftAt, Settled
  <2> QED
    BY <2>1
<1>3. CASE Creates(s)
  <2>1. /\ stmt.op = "insert" /\ stmt.tbl \in Tables
        /\ stmt.val \in [InsertColumns(stmt.tbl) -> Value]
    BY <1>1, <1>3, StatementType
  <2>2. PICK x : x = [tbl |-> stmt.tbl, val |-> stmt.val, req |-> task[s],
                      i |-> pos[s], j |-> sub[s]]
    OBVIOUS
  <2>3. adrift' = adrift \cup {x}
    BY <2>1, <2>2 DEF GoesAdrift
  <2>4. task[s] \in Request /\ pos[s] \in Nat /\ sub[s] \in Nat
    BY <1>1 DEF WorkerAt, TypeOK
  <2>5. /\ x.tbl = stmt.tbl /\ x.val = stmt.val
        /\ x.req = task[s] /\ x.i = pos[s] /\ x.j = sub[s]
    BY <2>2
  <2>6. x \in AdriftOf(stmt.tbl)
    BY <2>1, <2>2, <2>4 DEF AdriftOf
  <2> HIDE DEF stmt
  <2>7. IsAdrift(x)'
    <3>1. stmt.tbl \in Tables /\ x \in AdriftOf(stmt.tbl)
      BY <2>1, <2>6
    <3>2. IsAdrift(x)
      BY <3>1 DEF IsAdrift
    <3> QED
      BY <3>2
  <2>8. AdriftAt(x)'
    <3>1. IsPlace(ask[x.req], x.i, x.j) /\ phase[x.req] = "running"
      BY <1>1, <1>3, <2>5 DEF WorkerAt, Job
    <3>2. \A i \in 1..x.i : \A j \in 0..Len(Batch(ask[x.req])[i].subs) :
            Precedes(i, j, x.i, x.j) => IsStored(x.req, i, j)
      BY <1>1, <1>3, <2>5 DEF CursorAt, Job
    <3>3. \A i, j : IsStored(x.req, i, j)' <=> IsStored(x.req, i, j)
      BY DEF IsStored, StoredFor
    <3>4. phase'[x.req] \notin {"unsent", "pending"}
      BY <2>4, <2>5, <3>1 DEF Settled
    <3> QED
      BY <3>1, <3>2, <3>3, <3>4 DEF AdriftAt
  <2> QED
    BY <1>2, <2>3, <2>7, <2>8 DEF AdriftHolds
<1>4. CASE ~Creates(s)
  <2>1. stmt.op # "insert"
    BY <1>1, <1>4, StatementType
  <2>2. adrift' = adrift
    BY <2>1 DEF GoesAdrift
  <2> QED
    BY <1>2, <2>2 DEF AdriftHolds
<1> QED
  BY <1>3, <1>4

-----------------------------------------------------------------------------
(* The steps, by what they have in common. *)

\* A worker answers a request it was sent, at once or after work.
LEMMA RespondStep ==
  ASSUME IInv, NEW s \in Server, NEW r \in Request, NEW code \in Codes, NEW body,
         Respond(s, r, code, body), host[r] = s, phase[r] \in {"pending", "running"}
  PROVE  IInv'
<1>1. TypeOK'
  BY DEF IInv, TypeOK, Respond, Forget, NoReply, dbVars
<1>2. rows' = rows /\ ask' = ask
  BY DEF Respond, dbVars
<1>3. ASSUME NEW t \in Server
      PROVE  WorkerAt(t)' /\ CursorAt(t)'
  <2>1. CASE t = s
    BY <2>1, WorkerIdle DEF IInv, TypeOK, Respond, Forget
  <2>2. CASE t # s
    <3>1. Keeps(t)
      BY <2>2 DEF IInv, TypeOK, WorkerAt, Keeps, Respond, Forget
    <3> QED
      BY <1>2, <3>1, WorkerFrame DEF IInv
  <2> QED
    BY <2>1, <2>2
<1>4. ASSUME NEW q \in Request
      PROVE  RequestAt(q)' /\ OrderOf(q)'
  <2>1. StoredFor(q)' = StoredFor(q)
    BY <1>2 DEF StoredFor
  <2>2. RequestAt(q)'
    BY <1>2, <2>1 DEF IInv, TypeOK, RequestAt, Respond
  <2> QED
    BY <1>2, <2>1, <2>2, OrderFrame DEF IInv
<1>5. AdriftHolds'
  BY <1>2, AdriftFrame DEF IInv, TypeOK, Respond, Settled, dbVars
<1> QED
  BY <1>1, <1>3, <1>4, <1>5 DEF IInv, AdriftHolds

\* A process ends.
LEMMA StopStep ==
  ASSUME IInv, NEW s \in Server, Stop(s), AdriftHolds'
  PROVE  IInv'
<1>1. TypeOK'
  BY DEF IInv, TypeOK, Stop, Forget, NoReply, AdriftHolds
<1>2. rows' = rows /\ ask' = ask
  BY DEF Stop
<1>3. ASSUME NEW t \in Server
      PROVE  WorkerAt(t)' /\ CursorAt(t)'
  <2>1. CASE t = s
    BY <2>1, WorkerIdle DEF IInv, TypeOK, Stop, Forget
  <2>2. CASE t # s
    <3>1. Keeps(t)
      BY <2>2 DEF IInv, TypeOK, WorkerAt, Keeps, Stop, Forget
    <3> QED
      BY <1>2, <3>1, WorkerFrame DEF IInv
  <2> QED
    BY <2>1, <2>2
<1>4. ASSUME NEW q \in Request
      PROVE  RequestAt(q)' /\ OrderOf(q)'
  <2>1. StoredFor(q)' = StoredFor(q)
    BY <1>2 DEF StoredFor
  <2>2. RequestAt(q)'
    BY <1>2, <2>1 DEF IInv, TypeOK, RequestAt, Stop
  <2> QED
    BY <1>2, <2>1, <2>2, OrderFrame DEF IInv
<1> QED
  BY <1>1, <1>3, <1>4 DEF IInv, AdriftHolds

\* A process that ends by itself leaves no statement behind.
LEMMA StopByItself ==
  ASSUME IInv, NEW s \in Server, Stop(s), UNCHANGED adrift
  PROVE  IInv'
<1>1. AdriftHolds'
  BY AdriftFrame DEF IInv, TypeOK, Stop, Settled
<1> QED
  BY <1>1, StopStep

\* One that is killed may, if it was waiting for its result.
LEMMA CrashStep ==
  ASSUME IInv, NEW s \in Server, Crash(s)
  PROVE  IInv'
<1>1. CASE UNCHANGED adrift
  BY <1>1, StopByItself DEF Crash
<1>2. CASE pc[s] = "exec" /\ GoesAdrift(Sent(Statement(s)), task[s], pos[s], sub[s])
  <2>1. Stop(s) /\ Active(s)
    BY <1>2 DEF Crash, Active
  <2>2. rows' = rows /\ ask' = ask /\ \A r \in Request : Settled(r) => Settled(r)'
    BY <2>1 DEF IInv, TypeOK, Stop, Settled
  <2> QED
    BY <1>2, <2>1, <2>2, AdriftJoins, StopStep
<1> QED
  BY <1>1, <1>2 DEF Crash

\* A process starts and connects, or fails to.
LEMMA BootStep ==
  ASSUME IInv, NEW s \in Server, Boot(s)
  PROVE  IInv'
<1>1. TypeOK'
  BY DEF IInv, TypeOK, Boot, Connect, dbVars, requestVars
<1>2. rows' = rows /\ ask' = ask /\ phase' = phase
  BY DEF Boot, dbVars, requestVars
<1>3. ASSUME NEW t \in Server
      PROVE  WorkerAt(t)' /\ CursorAt(t)'
  <2>1. CASE t = s
    BY <2>1, WorkerIdle DEF IInv, TypeOK, WorkerAt, Active, Boot
  <2>2. CASE t # s
    <3>1. Keeps(t)
      BY <2>2 DEF IInv, TypeOK, Keeps, Boot, Connect, requestVars
    <3> QED
      BY <1>2, <3>1, WorkerFrame DEF IInv
  <2> QED
    BY <2>1, <2>2
<1>4. ASSUME NEW q \in Request
      PROVE  RequestAt(q)' /\ OrderOf(q)'
  <2>1. StoredFor(q)' = StoredFor(q)
    BY <1>2 DEF StoredFor
  <2>2. RequestAt(q)'
    BY <1>2, <2>1 DEF IInv, RequestAt
  <2> QED
    BY <1>2, <2>1, <2>2, OrderFrame DEF IInv
<1>5. AdriftHolds'
  BY <1>2, AdriftFrame DEF Boot, Settled, dbVars
<1> QED
  BY <1>1, <1>3, <1>4, <1>5 DEF IInv, AdriftHolds

\* A client sends a request.
LEMMA SendStep ==
  ASSUME IInv, NEW r \in Request, NEW s \in Server, NEW a \in Offers, Send(r, s, a)
  PROVE  IInv'
<1>1. TypeOK'
  BY DEF IInv, TypeOK, Send, dbVars, connVars, workerVars
<1>2. rows' = rows
  BY DEF Send, dbVars
<1>3. ASSUME NEW t \in Server
      PROVE  WorkerAt(t)' /\ CursorAt(t)'
  <2>1. Keeps(t)
    BY DEF IInv, TypeOK, WorkerAt, Keeps, Send, connVars, workerVars
  <2> QED
    BY <1>2, <2>1, WorkerFrame DEF IInv
<1>4. ASSUME NEW q \in Request
      PROVE  RequestAt(q)' /\ OrderOf(q)'
  <2>1. StoredFor(q)' = StoredFor(q)
    BY <1>2 DEF StoredFor
  <2>2. RequestAt(q)' /\ (ask'[q] = ask[q] \/ StoredFor(q) = {})
    BY <2>1, NoAskIsNone DEF IInv, TypeOK, RequestAt, Send
  <2> QED
    BY <2>1, <2>2, OrderFrame DEF IInv
<1>5. AdriftHolds'
  BY <1>2, AdriftFrame DEF IInv, TypeOK, Send, Settled, dbVars
<1> QED
  BY <1>1, <1>3, <1>4, <1>5 DEF IInv, AdriftHolds

\* A worker turns to a request: a query, or a POST whose body is not empty.
LEMMA StartStep ==
  ASSUME IInv, NEW s \in Server, NEW r \in Request, StartQuery(s, r) \/ StartCreate(s, r)
  PROVE  IInv'
<1>1. PICK first \in Nat :
        /\ StartWork(s, r, first) /\ Takes(s, r)
        /\ \/ IsQuery(ask[r]) /\ first = 0
           \/ /\ IsCreate(ask[r]) /\ first = 1 /\ BodyOutcome(ask[r]) = "ok"
              /\ Len(Batch(ask[r])) > 0
  BY DEF StartQuery, StartCreate
<1>2. /\ rows' = rows /\ ask' = ask /\ sub' = sub /\ ids' = ids
      /\ pc'[s] = "exec" /\ task'[s] = r /\ pos'[s] = first
      /\ phase'[r] = "running" /\ host' = host
  BY <1>1 DEF IInv, TypeOK, StartWork, dbVars
<1>3. /\ pc[s] = "idle" /\ phase[r] = "pending" /\ host[r] = s
      /\ sub[s] = 0 /\ ids[s] = <<>> /\ ask[r] \in Offers
  <2>1. pc[s] = "idle" /\ phase[r] = "pending" /\ host[r] = s
    BY <1>1 DEF Takes
  <2>2. sub[s] = 0 /\ ids[s] = <<>>
    BY <2>1 DEF IInv, WorkerAt, Active
  <2>3. ask[r] \in Offers
    BY <2>1 DEF IInv, RequestAt, TypeOK
  <2> QED
    BY <2>1, <2>2, <2>3
<1>4. TypeOK'
  BY <1>1 DEF IInv, TypeOK, StartWork, dbVars, connVars
<1>5. ASSUME NEW t \in Server
      PROVE  WorkerAt(t)' /\ CursorAt(t)'
  <2>1. CASE t = s
    <3>1. Active(s)' /\ Job(s)' = ask[r]
      BY <1>2 DEF Active, Job
    <3>2. CASE IsQuery(ask[r])
      <4>1. ~Creates(s)'
        BY <3>1, <3>2 DEF Creates, IsQuery, IsCreate
      <4> QED
        BY <1>2, <1>3, <2>1, <3>1, <3>2, <4>1 DEF WorkerAt, CursorAt
    <3>3. CASE IsCreate(ask[r]) /\ first = 1 /\ BodyOutcome(ask[r]) = "ok"
                 /\ Len(Batch(ask[r])) > 0
      <4>1. Batch(ask[r]) \in Seq(Entity(Target(ask[r])))
        BY <1>3, <3>3, BatchType
      <4>2. 1 \in 1..Len(Batch(ask[r])) /\ Len(Batch(ask[r])[1].subs) \in Nat
        <5>1. 1 \in 1..Len(Batch(ask[r]))
          BY <3>3, <4>1
        <5>2. Batch(ask[r])[1] \in Entity(Target(ask[r]))
          BY <4>1, <5>1, ElementOfSeq
        <5> QED
          BY <5>1, <5>2 DEF Entity
      <4>3. IsPlace(ask[r], 1, 0)
        BY <3>3, <4>2 DEF IsPlace
      <4>4. WorkerAt(s)'
        BY <1>2, <1>3, <3>1, <3>3, <4>3 DEF WorkerAt
      <4>5. CursorAt(s)'
        BY <1>2, <1>3, <3>1, <3>3, <4>2 DEF CursorAt, Precedes
      <4> QED
        BY <2>1, <4>4, <4>5
    <3> QED
      BY <1>1, <3>2, <3>3
  <2>2. CASE t # s
    <3>1. Keeps(t)
      BY <1>1, <1>3, <2>2 DEF IInv, TypeOK, WorkerAt, Keeps, StartWork, connVars
    <3> QED
      BY <1>2, <3>1, WorkerFrame DEF IInv
  <2> QED
    BY <2>1, <2>2
<1>6. ASSUME NEW q \in Request
      PROVE  RequestAt(q)' /\ OrderOf(q)'
  <2>1. StoredFor(q)' = StoredFor(q)
    BY <1>2 DEF StoredFor
  <2>2. RequestAt(q)'
    BY <1>1, <1>2, <1>3, <2>1 DEF IInv, TypeOK, RequestAt, StartWork
  <2> QED
    BY <1>2, <2>1, <2>2, OrderFrame DEF IInv
<1>7. AdriftHolds'
  BY <1>1, <1>2, <1>3, AdriftFrame DEF IInv, TypeOK, StartWork, Settled, dbVars
<1> QED
  BY <1>4, <1>5, <1>6, <1>7 DEF IInv, AdriftHolds

\* The row an INSERT of worker s stores.
Stores(s, x) ==
  /\ IsRow(x) /\ x.req = task[s] /\ x.i = pos[s] /\ x.j = sub[s]
  /\ rows' = rows \cup {x}

\* A statement of worker s runs: it stores the row of the worker's place or
\* nothing, and its result is a key if it stored one.
LEMMA RunsEffect ==
  ASSUME IInv, NEW s \in Server, Active(s),
         Runs(Sent(Statement(s)), task[s], pos[s], sub[s])
  PROVE  /\ serial' \in [Tables -> 1..(MaxInt + 1)]
         /\ rows' = rows \/ (Creates(s) /\ \E x : Stores(s, x))
         /\ Result(Sent(Statement(s))).status \in {"tuples", "fatal"}
         /\ Creates(s) /\ Result(Sent(Statement(s))).status = "tuples" =>
              /\ Result(Sent(Statement(s))).data \in 1..MaxInt
              /\ \E x : Stores(s, x)
<1> DEFINE stmt == Sent(Statement(s))
<1>1. WorkerAt(s) /\ TypeOK
  BY DEF IInv
<1>2. /\ task[s] \in Request /\ pos[s] \in Nat /\ sub[s] \in Nat
      /\ serial \in [Tables -> 1..(MaxInt + 1)] /\ MaxInt \in Nat
  BY <1>1, ConstantsAssumption DEF TypeOK, WorkerAt
<1>3. CASE Creates(s)
  <2>1. /\ stmt.op = "insert" /\ stmt.tbl \in Tables
        /\ stmt.val \in [InsertColumns(stmt.tbl) -> Value]
    BY <1>1, <1>3, StatementType
  <2> HIDE DEF stmt
  <2>2. serial[stmt.tbl] \in 1..(MaxInt + 1)
    BY <1>2, <2>1
  <2>3. CASE Accepts(stmt.tbl, stmt.val)
    <3>1. Insert(stmt.tbl, stmt.val, task[s], pos[s], sub[s])
      BY <2>1, <2>3 DEF Runs, stmt
    <3>2. serial[stmt.tbl] \in 1..MaxInt
      BY <1>2, <2>2, <2>3 DEF Accepts
    <3>3. serial' \in [Tables -> 1..(MaxInt + 1)]
      BY <1>2, <2>1, <3>1, <3>2 DEF Insert
    <3> DEFINE x == [tbl |-> stmt.tbl, id |-> serial[stmt.tbl], val |-> stmt.val,
                     req |-> task[s], i |-> pos[s], j |-> sub[s]]
    <3>4. x \in RowOf(stmt.tbl)
      BY <1>2, <2>1, <3>2 DEF RowOf
    <3>5. Stores(s, x)
      BY <2>1, <3>1, <3>4 DEF Stores, Insert, IsRow
    <3>6. Result(stmt) = Tuples(serial[stmt.tbl])
      BY <2>1, <2>3 DEF Result
    <3> QED
      BY <1>3, <3>2, <3>3, <3>5, <3>6 DEF Tuples, stmt
  <2>4. CASE ~Accepts(stmt.tbl, stmt.val)
    <3>1. Refuse(stmt.tbl)
      BY <2>1, <2>4 DEF Runs, stmt
    <3>2. serial' \in [Tables -> 1..(MaxInt + 1)]
      BY <1>2, <2>1, <2>2, <3>1 DEF Refuse
    <3>3. Result(stmt) = Fatal
      BY <2>1, <2>4 DEF Result
    <3> QED
      BY <3>1, <3>2, <3>3 DEF Refuse, Fatal, stmt
  <2> QED
    BY <2>3, <2>4
<1>4. CASE ~Creates(s)
  <2>1. stmt.op \in {"select", "exists"}
    BY <1>1, <1>4, StatementType
  <2> HIDE DEF stmt
  <2>2. rows' = rows /\ serial' = serial
    BY <2>1 DEF Runs, dbVars, stmt
  <2>3. Result(stmt).status = "tuples"
    <3>1. CASE stmt.op = "select"
      BY <3>1 DEF Result, Tuples
    <3>2. CASE stmt.op = "exists"
      BY <3>2 DEF Result, Tuples
    <3> QED
      BY <2>1, <3>1, <3>2
  <2> QED
    BY <1>2, <1>4, <2>2, <2>3 DEF stmt
<1> QED
  BY <1>3, <1>4

\* The cursor moves on to the result of the statement at its place.  What is
\* stored, if anything is, is the row of that place, and all places before it
\* are stored already.
LEMMA StatementStep ==
  ASSUME IInv, NEW s \in Server, AwaitsReply(s), NEW result,
         reply' = [reply EXCEPT ![s] = result],
         conn' \in [Server -> {"closed", "ok", "bad"}],
         serial' \in [Tables -> 1..(MaxInt + 1)],
         rows' = rows \/ (Creates(s) /\ \E x : Stores(s, x)),
         AdriftHolds',
         result.status \in {"tuples", "fatal"},
         Creates(s) /\ result.status = "tuples" =>
           result.data \in 1..MaxInt /\ \E x : Stores(s, x)
  PROVE  IInv'
<1>1. /\ pc[s] = "exec" /\ pc'[s] = "result" /\ reply'[s] = result
      /\ ask' = ask /\ phase' = phase /\ host' = host
      /\ task' = task /\ pos' = pos /\ sub' = sub /\ ids' = ids
  BY DEF IInv, TypeOK, AwaitsReply, requestVars
<1>2. Active(s) /\ Active(s)' /\ Job(s)' = Job(s) /\ (Creates(s)' <=> Creates(s))
  BY <1>1 DEF Active, Job, Creates
<1>3. TypeOK'
  <2>1. \A x \in rows' : IsRow(x)
    BY DEF IInv, TypeOK, Stores
  <2>2. \A x : IsRow(x)' <=> IsRow(x)
    BY DEF IsRow, RowOf
  <2> QED
    BY <1>1, <2>1, <2>2 DEF IInv, TypeOK, AwaitsReply, AdriftHolds, requestVars
<1>4. rows \subseteq rows'
  BY DEF Stores
<1>5. ASSUME NEW t \in Server
      PROVE  WorkerAt(t)' /\ CursorAt(t)'
  <2>1. CASE t = s
    <3>1. WorkerAt(s)'
      <4>1. WorkerAt(s)
        BY DEF IInv
      <4> QED
        BY <1>1, <1>2, <4>1 DEF WorkerAt, Failed, Active
    <3>2. CursorAt(s)'
      <4>1. CursorAt(s)
        BY DEF IInv
      <4>2. \A r, i, j : IsStored(r, i, j) => IsStored(r, i, j)'
        BY <1>4 DEF IsStored, StoredFor
      <4>3. Creates(s) /\ ~Failed(s)' => IsStored(task[s], pos[s], sub[s])'
        BY <1>1 DEF Failed, Stores, IsStored, StoredFor
      <4> QED
        BY <1>1, <1>2, <4>1, <4>2, <4>3 DEF CursorAt
    <3> QED
      BY <2>1, <3>1, <3>2
  <2>2. CASE t # s
    <3>1. Keeps(t)
      BY <1>1, <2>2 DEF IInv, TypeOK, Keeps, AwaitsReply
    <3> QED
      BY <1>4, <3>1, WorkerFrame DEF IInv
  <2> QED
    BY <2>1, <2>2
<1>6. ASSUME NEW q \in Request
      PROVE  RequestAt(q)' /\ OrderOf(q)'
  <2>1. CASE StoredFor(q)' = StoredFor(q)
    BY <1>1, <2>1, OrderFrame DEF IInv, RequestAt
  <2>2. CASE StoredFor(q)' # StoredFor(q)
    <3>1. PICK x : Creates(s) /\ Stores(s, x)
      BY <2>2 DEF StoredFor
    <3>2. q = task[s] /\ StoredFor(q)' = StoredFor(q) \cup {x}
      BY <2>2, <3>1 DEF StoredFor, Stores
    <3>3. /\ IsPlace(ask[q], pos[s], sub[s]) /\ phase[q] = "running"
          /\ ask[q] \in Offers /\ ask[q] # NoAsk
      BY <1>2, <3>1, <3>2, JobType, NoAskIsNone DEF IInv, WorkerAt, Job
    <3>4. RequestAt(q)'
      BY <1>1, <3>3 DEF IInv, RequestAt
    <3>5. \A i, j : IsStored(q, i, j) => IsStored(q, i, j)'
      BY <3>2 DEF IsStored
    <3>6. ASSUME NEW y \in StoredFor(q)'
          PROVE  /\ IsPlace(ask[q], y.i, y.j)
                 /\ \A i \in 1..y.i : \A j \in 0..Len(Batch(ask[q])[i].subs) :
                      Precedes(i, j, y.i, y.j) => IsStored(q, i, j)'
      <4>1. CASE y \in StoredFor(q)
        BY <3>5, <4>1 DEF IInv, OrderOf
      <4>2. CASE y = x
        <5>1. y.i = pos[s] /\ y.j = sub[s]
          BY <3>1, <4>2 DEF Stores
        <5> QED
          BY <3>1, <3>2, <3>3, <3>5, <5>1 DEF IInv, CursorAt, Job
      <4> QED
        BY <3>2, <4>1, <4>2
    <3>7. OrderOf(q)'
      BY <1>1, <3>6 DEF OrderOf
    <3> QED
      BY <3>4, <3>7
  <2> QED
    BY <2>1, <2>2
<1> QED
  BY <1>3, <1>5, <1>6 DEF IInv, AdriftHolds

\* The cursor advances from a place that is stored to the next place.
LEMMA ContinueStep ==
  ASSUME IInv, NEW s \in Server, NextSubentity(s) \/ NextEntity(s)
  PROVE  IInv'
<1> DEFINE b == Batch(Job(s))
<1>1. /\ pc[s] = "result" /\ Active(s) /\ Creates(s) /\ ~Failed(s)
      /\ Job(s) \in Offers /\ task[s] \in Request
  <2>1. pc[s] = "result" /\ ~Failed(s) /\ IsCreate(Job(s))
    BY DEF NextSubentity, NextEntity, InsertSucceeded
  <2> QED
    BY <2>1, JobType DEF Active, Creates, IInv
<1>2. /\ IsPlace(Job(s), pos[s], sub[s]) /\ reply[s].data \in 1..MaxInt
      /\ Len(ids[s]) = IF sub[s] = 0 THEN pos[s] - 1 ELSE pos[s]
      /\ ids[s] \in Seq(1..MaxInt)
  BY <1>1 DEF IInv, WorkerAt, TypeOK
<1>3. /\ Len(b) \in Nat /\ pos[s] \in 1..Len(b) /\ pos[s] \in Nat
      /\ sub[s] \in Nat /\ sub[s] =< Len(b[pos[s]].subs)
      /\ \A k \in 1..Len(b) : Len(b[k].subs) \in Nat
  BY <1>1, <1>2, PlaceType
<1>4. /\ IdsAfter(s) \in Seq(1..MaxInt)
      /\ Len(IdsAfter(s)) = pos[s]
  <2>1. CASE sub[s] = 0
    <3>1. IdsAfter(s) = Append(ids[s], reply[s].data)
      BY <2>1 DEF IdsAfter
    <3> QED
      BY <1>2, <1>3, <2>1, <3>1, AppendProperties
  <2>2. CASE sub[s] # 0
    BY <1>2, <2>2 DEF IdsAfter
  <2> QED
    BY <2>1, <2>2
<1> DEFINE Advances(p, q) ==
             /\ ContinueAt(s, p, q) /\ IsPlace(Job(s), p, q)
             /\ (q = 0 => p - 1 = pos[s]) /\ (q # 0 => p = pos[s])
             /\ \A i \in 1..p : \A j \in 0..Len(b[i].subs) :
                  Precedes(i, j, p, q) =>
                    Precedes(i, j, pos[s], sub[s]) \/ (i = pos[s] /\ j = sub[s])
<1>5. PICK p \in Nat, q \in Nat : Advances(p, q)
  <2>1. CASE NextSubentity(s)
    <3>1. ContinueAt(s, pos[s], sub[s] + 1) /\ sub[s] + 1 =< Len(b[pos[s]].subs)
      BY <1>3, <2>1 DEF NextSubentity, MoreSubentities
    <3>2. IsPlace(Job(s), pos[s], sub[s] + 1)
      BY <1>2, <1>3, <3>1 DEF IsPlace
    <3>3. \A i \in 1..pos[s] : \A j \in 0..Len(b[i].subs) :
            Precedes(i, j, pos[s], sub[s] + 1) =>
              Precedes(i, j, pos[s], sub[s]) \/ (i = pos[s] /\ j = sub[s])
      BY <1>3 DEF Precedes
    <3>4. Advances(pos[s], sub[s] + 1)
      <4>1. sub[s] + 1 # 0
        BY <1>3
      <4> HIDE DEF b
      <4> QED
        BY <3>1, <3>2, <3>3, <4>1, Zenon
    <3>5. pos[s] \in Nat /\ sub[s] + 1 \in Nat
      BY <1>3
    <3> HIDE DEF Advances
    <3> QED
      BY <3>4, <3>5
  <2>2. CASE NextEntity(s)
    <3>1. /\ ContinueAt(s, pos[s] + 1, 0) /\ pos[s] + 1 =< Len(b)
          /\ sub[s] = Len(b[pos[s]].subs)
      BY <1>3, <2>2 DEF NextEntity, MoreSubentities, MoreEntities
    <3>2. IsPlace(Job(s), pos[s] + 1, 0)
      BY <1>2, <1>3, <3>1 DEF IsPlace
    <3>3. \A i \in 1..(pos[s] + 1) : \A j \in 0..Len(b[i].subs) :
            Precedes(i, j, pos[s] + 1, 0) =>
              Precedes(i, j, pos[s], sub[s]) \/ (i = pos[s] /\ j = sub[s])
      BY <1>3, <3>1 DEF Precedes
    <3>4. Advances(pos[s] + 1, 0)
      <4>1. (pos[s] + 1) - 1 = pos[s]
        BY <1>3
      <4> HIDE DEF b
      <4> QED
        BY <3>1, <3>2, <3>3, <4>1, Zenon
    <3>5. pos[s] + 1 \in Nat /\ 0 \in Nat
      BY <1>3
    <3> HIDE DEF Advances
    <3> QED
      BY <3>4, <3>5
  <2> QED
    BY <2>1, <2>2
<1>6. /\ rows' = rows /\ ask' = ask /\ phase' = phase /\ host' = host
      /\ task' = task /\ pc'[s] = "exec" /\ pos'[s] = p /\ sub'[s] = q
      /\ ids'[s] = IdsAfter(s)
  BY <1>5 DEF IInv, TypeOK, ContinueAt, requestVars, dbVars
<1>7. TypeOK'
  BY <1>4, <1>5 DEF IInv, TypeOK, ContinueAt, NoReply, requestVars, dbVars
<1>8. ASSUME NEW t \in Server
      PROVE  WorkerAt(t)' /\ CursorAt(t)'
  <2>1. CASE t = s
    <3>1. Active(s)' /\ Job(s)' = Job(s) /\ Creates(s)'
      BY <1>1, <1>6 DEF Active, Job, Creates
    <3>2. WorkerAt(s)'
      <4>1. Len(ids[s])' = IF q = 0 THEN p - 1 ELSE p
        BY <1>4, <1>5, <1>6
      <4> QED
        BY <1>1, <1>5, <1>6, <3>1, <4>1 DEF IInv, WorkerAt
    <3>3. CursorAt(s)'
      <4>1. \A r, i, j : IsStored(r, i, j)' <=> IsStored(r, i, j)
        BY <1>6 DEF IsStored, StoredFor
      <4>2. \A i \in 1..p : \A j \in 0..Len(b[i].subs) :
              Precedes(i, j, p, q) => IsStored(task[s], i, j)
        <5>1. IsStored(task[s], pos[s], sub[s])
          BY <1>1 DEF IInv, CursorAt
        <5>2. \A i \in 1..pos[s] : \A j \in 0..Len(b[i].subs) :
                Precedes(i, j, pos[s], sub[s]) => IsStored(task[s], i, j)
          BY <1>1 DEF IInv, CursorAt
        <5> HIDE DEF b
        <5> TAKE i \in 1..p
        <5> TAKE j \in 0..Len(b[i].subs)
        <5> HAVE Precedes(i, j, p, q)
        <5>3. CASE i = pos[s] /\ j = sub[s]
          BY <5>1, <5>3
        <5>4. CASE Precedes(i, j, pos[s], sub[s])
          <6>1. i \in 1..pos[s]
            BY <1>3, <5>4 DEF Precedes
          <6> QED
            BY <5>2, <5>4, <6>1
        <5> QED
          BY <1>5, <5>3, <5>4
      <4> QED
        BY <1>6, <3>1, <4>1, <4>2 DEF CursorAt
    <3> QED
      BY <2>1, <3>2, <3>3
  <2>2. CASE t # s
    <3>1. Keeps(t)
      BY <1>5, <1>6, <2>2 DEF IInv, TypeOK, Keeps, ContinueAt
    <3> QED
      BY <1>6, <3>1, WorkerFrame DEF IInv
  <2> QED
    BY <2>1, <2>2
<1>9. ASSUME NEW r \in Request
      PROVE  RequestAt(r)' /\ OrderOf(r)'
  <2>1. StoredFor(r)' = StoredFor(r)
    BY <1>6 DEF StoredFor
  <2>2. RequestAt(r)'
    BY <1>6, <2>1 DEF IInv, RequestAt
  <2> QED
    BY <1>6, <2>1, <2>2, OrderFrame DEF IInv
<1>10. AdriftHolds'
  BY <1>5, <1>6, AdriftFrame DEF ContinueAt, Settled, dbVars
<1> QED
  BY <1>7, <1>8, <1>9, <1>10 DEF IInv, AdriftHolds

-----------------------------------------------------------------------------
(* The actions. *)

\* A worker that turns to a request.
LEMMA DispatchStep ==
  ASSUME IInv, NEW s \in Server, NEW r \in Request, Dispatch(s, r)
  PROVE  IInv'
<1>1. CASE AnswerAtOnce(s, r)
  <2>1. FixedCode(ask[r]) \in Codes
    BY DEF FixedCode, Codes
  <2> QED
    BY <1>1, <2>1, RespondStep DEF AnswerAtOnce, Takes
<1>2. CASE RejectBody(s, r)
  BY <1>2, RespondStep DEF RejectBody, Throw, Takes, Codes
<1>3. CASE AbortOnBody(s, r)
  BY <1>3, StopByItself DEF AbortOnBody
<1>4. CASE CreateNothing(s, r)
  BY <1>4, RespondStep DEF CreateNothing, Takes, Codes
<1>5. CASE StartQuery(s, r)
  BY <1>5, StartStep
<1>6. CASE StartCreate(s, r)
  BY <1>6, StartStep
<1> QED
  BY <1>1, <1>2, <1>3, <1>4, <1>5, <1>6 DEF Dispatch

\* A worker that sends a statement and waits for its result.
LEMMA ExecStep ==
  ASSUME IInv, NEW s \in Server, ExecuteOnDead(s) \/ Execute(s) \/ ExecuteLost(s)
  PROVE  IInv'
<1>1. AwaitsReply(s) /\ Active(s)
  BY DEF ExecuteOnDead, Execute, ExecuteLost, AwaitsReply, Active
<1>2. /\ conn \in [Server -> {"closed", "ok", "bad"}]
      /\ serial \in [Tables -> 1..(MaxInt + 1)]
      /\ ask' = ask /\ phase' = phase
  BY <1>1 DEF IInv, TypeOK, AwaitsReply, requestVars
<1>3. Fatal.status = "fatal"
  BY DEF Fatal
<1>4. CASE ExecuteOnDead(s)
  <2>1. /\ reply' = [reply EXCEPT ![s] = Fatal]
        /\ conn' = conn /\ rows' = rows /\ serial' = serial /\ adrift' = adrift
    BY <1>4 DEF ExecuteOnDead, ExecOnDead, dbVars
  <2>2. AdriftHolds'
    BY <1>2, <2>1, AdriftFrame DEF Settled
  <2> QED
    BY <1>1, <1>2, <1>3, <2>1, <2>2, StatementStep
<1>5. CASE Execute(s)
  <2>1. /\ Runs(Sent(Statement(s)), task[s], pos[s], sub[s])
        /\ reply' = [reply EXCEPT ![s] = Result(Sent(Statement(s)))]
        /\ conn' = conn /\ adrift' = adrift
    BY <1>5 DEF Execute, ExecReplied
  <2>2. rows \subseteq rows'
    BY <1>1, <2>1, RunsEffect DEF Stores
  <2>3. AdriftHolds'
    BY <1>2, <2>1, <2>2, AdriftFrame DEF Settled
  <2> QED
    BY <1>1, <1>2, <2>1, <2>3, RunsEffect, StatementStep
<1>6. CASE ExecuteLost(s)
  <2>1. /\ GoesAdrift(Sent(Statement(s)), task[s], pos[s], sub[s])
        /\ rows' = rows /\ serial' = serial
        /\ reply' = [reply EXCEPT ![s] = Fatal]
        /\ conn' = [conn EXCEPT ![s] = "bad"]
    BY <1>6 DEF ExecuteLost, ExecLost
  <2>2. conn' \in [Server -> {"closed", "ok", "bad"}]
    BY <1>2, <2>1
  <2>3. AdriftHolds'
    BY <1>1, <1>2, <2>1, AdriftJoins DEF Settled
  <2> QED
    BY <1>1, <1>2, <1>3, <2>1, <2>2, <2>3, StatementStep
<1> QED
  BY <1>4, <1>5, <1>6

\* The server runs an INSERT that is adrift: it stores the row of its place,
\* or nothing.
LEMMA LateEffect ==
  ASSUME IInv, NEW m \in adrift, RunLate(m)
  PROVE  /\ serial' \in [Tables -> 1..(MaxInt + 1)]
         /\ rows' = rows \/ \E x : /\ IsRow(x) /\ rows' = rows \cup {x}
                                  /\ x.req = m.req /\ x.i = m.i /\ x.j = m.j
<1> DEFINE stmt == [op |-> "insert", tbl |-> m.tbl, val |-> m.val]
<1>1. /\ m.tbl \in Tables /\ m.val \in [InsertColumns(m.tbl) -> Value]
      /\ m.req \in Request /\ m.i \in Nat /\ m.j \in Nat
  <2>1. PICK T \in Tables : m \in AdriftOf(T)
    BY DEF IInv, TypeOK, IsAdrift
  <2>2. m.tbl = T
    BY <2>1 DEF AdriftOf
  <2> QED
    BY <2>1, <2>2 DEF AdriftOf
<1>2. serial \in [Tables -> 1..(MaxInt + 1)] /\ MaxInt \in Nat
  BY ConstantsAssumption DEF IInv, TypeOK
<1>3. Runs(stmt, m.req, m.i, m.j) /\ stmt.op = "insert" /\ stmt.tbl = m.tbl /\ stmt.val = m.val
  BY DEF RunLate, RunsAdrift
<1> HIDE DEF stmt
<1>4. CASE Accepts(m.tbl, m.val)
  <2>1. Insert(m.tbl, m.val, m.req, m.i, m.j)
    BY <1>3, <1>4 DEF Runs
  <2>2. serial[m.tbl] \in 1..MaxInt
    BY <1>1, <1>2, <1>4 DEF Accepts
  <2>3. serial' \in [Tables -> 1..(MaxInt + 1)]
    BY <1>1, <1>2, <2>1, <2>2 DEF Insert
  <2> DEFINE x == [tbl |-> m.tbl, id |-> serial[m.tbl], val |-> m.val,
                   req |-> m.req, i |-> m.i, j |-> m.j]
  <2>4. x \in RowOf(m.tbl)
    BY <1>1, <2>2 DEF RowOf
  <2>5. IsRow(x) /\ rows' = rows \cup {x} /\ x.req = m.req /\ x.i = m.i /\ x.j = m.j
    BY <1>1, <2>1, <2>4 DEF Insert, IsRow
  <2> QED
    BY <2>3, <2>5
<1>5. CASE ~Accepts(m.tbl, m.val)
  <2>1. Refuse(m.tbl)
    BY <1>3, <1>5 DEF Runs
  <2>2. serial' \in [Tables -> 1..(MaxInt + 1)]
    BY <1>1, <1>2, <2>1 DEF Refuse
  <2> QED
    BY <2>1, <2>2 DEF Refuse
<1> QED
  BY <1>4, <1>5

\* All places before that of an INSERT that is adrift are stored already.
LEMMA LateStep ==
  ASSUME IInv, NEW m \in adrift, RunLate(m)
  PROVE  IInv'
<1>1. /\ adrift' = adrift \ {m} /\ conn' = conn /\ reply' = reply
      /\ phase' = phase /\ ask' = ask /\ host' = host /\ answer' = answer
      /\ known' = known /\ pc' = pc /\ task' = task /\ pos' = pos
      /\ sub' = sub /\ ids' = ids
  BY DEF RunLate, RunsAdrift, connVars, requestVars, workerVars
<1>2. AdriftAt(m) /\ m.req \in Request
  BY DEF IInv, TypeOK, IsAdrift, AdriftOf
<1>3. rows \subseteq rows'
  BY LateEffect
<1>4. AdriftHolds'
  BY <1>1, <1>3, AdriftFrame DEF Settled
<1>5. TypeOK'
  <2>1. \A x \in rows' : IsRow(x)
    BY LateEffect DEF IInv, TypeOK
  <2> QED
    BY <1>1, <1>4, <2>1, LateEffect DEF IInv, TypeOK, AdriftHolds
<1>6. \A t \in Server : WorkerAt(t)' /\ CursorAt(t)'
  BY <1>1, <1>3, WorkerFrame DEF IInv, Keeps
<1>7. ASSUME NEW q \in Request
      PROVE  RequestAt(q)' /\ OrderOf(q)'
  <2>1. CASE StoredFor(q)' = StoredFor(q)
    BY <1>1, <2>1, OrderFrame DEF IInv, RequestAt
  <2>2. CASE StoredFor(q)' # StoredFor(q)
    <3>1. PICK x : /\ IsRow(x) /\ rows' = rows \cup {x}
                   /\ x.req = m.req /\ x.i = m.i /\ x.j = m.j
      BY <2>2, LateEffect DEF StoredFor
    <3>2. q = m.req /\ StoredFor(q)' = StoredFor(q) \cup {x}
      BY <2>2, <3>1 DEF StoredFor
    <3>3. RequestAt(q)'
      BY <1>1, <1>2, <3>2 DEF IInv, RequestAt, AdriftAt
    <3>4. \A i, j : IsStored(q, i, j) => IsStored(q, i, j)'
      BY <3>2 DEF IsStored
    <3>5. ASSUME NEW y \in StoredFor(q)'
          PROVE  /\ IsPlace(ask[q], y.i, y.j)
                 /\ \A i \in 1..y.i : \A j \in 0..Len(Batch(ask[q])[i].subs) :
                      Precedes(i, j, y.i, y.j) => IsStored(q, i, j)'
      <4>1. CASE y \in StoredFor(q)
        BY <3>4, <4>1 DEF IInv, OrderOf
      <4>2. CASE y = x
        BY <1>2, <3>1, <3>2, <3>4, <4>2 DEF AdriftAt
      <4> QED
        BY <3>2, <4>1, <4>2
    <3>6. OrderOf(q)'
      BY <1>1, <3>5 DEF OrderOf
    <3> QED
      BY <3>3, <3>6
  <2> QED
    BY <2>1, <2>2
<1> QED
  BY <1>4, <1>5, <1>6, <1>7 DEF IInv, AdriftHolds

\* A worker that is done with its request, or ends over it.
LEMMA FinishStep ==
  ASSUME IInv, NEW s \in Server,
         \/ LogThrows(s) \/ LogCrashes(s) \/ StatementFailed(s)
         \/ UserNotFound(s) \/ QueryDone(s) \/ BatchDone(s)
  PROVE  IInv'
<1>1. Active(s) => /\ task[s] \in Request /\ host[task[s]] = s
                   /\ phase[task[s]] = "running"
  BY DEF IInv, WorkerAt
<1>2. Active(s)
  BY DEF LogThrows, LogCrashes, StatementFailed, UserNotFound, QueryDone,
         BatchDone, InsertSucceeded, Active
<1>3. {200, 201, 204, 500} \subseteq Codes
  BY DEF Codes
<1>4. CASE LogThrows(s)
  BY <1>1, <1>2, <1>3, <1>4, RespondStep DEF LogThrows, Throw
<1>5. CASE LogCrashes(s)
  BY <1>5, StopByItself DEF LogCrashes
<1>6. CASE StatementFailed(s)
  BY <1>1, <1>2, <1>3, <1>6, RespondStep DEF StatementFailed, Throw
<1>7. CASE UserNotFound(s)
  BY <1>1, <1>2, <1>3, <1>7, RespondStep DEF UserNotFound, Throw
<1>8. CASE QueryDone(s)
  <2>1. QueryCode(s) \in Codes
    BY <1>3 DEF QueryCode
  <2> QED
    BY <1>1, <1>2, <1>8, <2>1, RespondStep DEF QueryDone
<1>9. CASE BatchDone(s)
  BY <1>1, <1>2, <1>3, <1>9, RespondStep DEF BatchDone
<1> QED
  BY <1>4, <1>5, <1>6, <1>7, <1>8, <1>9

-----------------------------------------------------------------------------
(* The invariant and what follows from it. *)

\* Nothing is stored for a request, and no worker is active, at the start.
LEMMA InitIInv == Init => IInv
<1> SUFFICES ASSUME Init PROVE IInv
  OBVIOUS
<1>1. TypeOK
  BY DatabaseAssumption, ConstantsAssumption
     DEF Init, DbInit, ConnInit, NoReply, NoAnswer, TypeOK
<1>2. \A s \in Server : WorkerAt(s) /\ CursorAt(s)
  BY DEF Init, WorkerAt, CursorAt, Active, Creates
<1>3. \A r \in Request : StoredFor(r) = {}
  BY DatabaseAssumption DEF Init, DbInit, StoredFor
<1>4. \A r \in Request : RequestAt(r) /\ OrderOf(r)
  BY <1>3 DEF Init, RequestAt, OrderOf
<1>5. adrift = {}
  BY DEF Init, DbInit
<1> QED
  BY <1>1, <1>2, <1>4, <1>5 DEF IInv

\* Every step preserves the invariant.
LEMMA StepIInv == IInv /\ [Next]_vars => IInv'
<1> SUFFICES ASSUME IInv, [Next]_vars PROVE IInv'
  OBVIOUS
<1>1. CASE Next
  <2>1. ASSUME NEW s \in Server, Work(s) PROVE IInv'
    <3>1. ASSUME NEW r \in Request, Dispatch(s, r) PROVE IInv'
      BY <3>1, DispatchStep
    <3>2. CASE ExecuteOnDead(s) \/ Execute(s) \/ ExecuteLost(s)
      BY <3>2, ExecStep
    <3>3. CASE \/ LogThrows(s) \/ LogCrashes(s) \/ StatementFailed(s)
               \/ UserNotFound(s) \/ QueryDone(s) \/ BatchDone(s)
      BY <3>3, FinishStep
    <3>4. CASE NextSubentity(s) \/ NextEntity(s)
      BY <3>4, ContinueStep
    <3> QED
      BY <2>1, <3>1, <3>2, <3>3, <3>4 DEF Work
  <2>2. ASSUME NEW s \in Server, Crash(s) PROVE IInv'
    BY <2>2, CrashStep
  <2>3. ASSUME NEW s \in Server, Boot(s) PROVE IInv'
    BY <2>3, BootStep
  <2>4. ASSUME NEW r \in Request, NEW s \in Server, NEW a \in Offers, Send(r, s, a)
        PROVE  IInv'
    BY <2>4, SendStep
  <2>5. ASSUME NEW m \in adrift, RunLate(m) PROVE IInv'
    BY <2>5, LateStep
  <2> QED
    BY <1>1, <2>1, <2>2, <2>3, <2>4, <2>5 DEF Next
<1>2. CASE UNCHANGED vars
  <2>1. /\ rows' = rows /\ serial' = serial /\ adrift' = adrift
        /\ conn' = conn /\ reply' = reply
        /\ phase' = phase /\ ask' = ask /\ host' = host /\ answer' = answer
        /\ known' = known /\ pc' = pc /\ task' = task /\ pos' = pos
        /\ sub' = sub /\ ids' = ids
    BY <1>2 DEF vars, dbVars, connVars, requestVars, workerVars
  <2>2. TypeOK'
    BY <2>1 DEF IInv, TypeOK
  <2>3. ASSUME NEW t \in Server PROVE WorkerAt(t)' /\ CursorAt(t)'
    BY <2>1, WorkerFrame DEF IInv, Keeps
  <2>4. ASSUME NEW r \in Request PROVE RequestAt(r)' /\ OrderOf(r)'
    <3>1. StoredFor(r)' = StoredFor(r)
      BY <2>1 DEF StoredFor
    <3> QED
      BY <2>1, <3>1, OrderFrame DEF IInv, RequestAt
  <2>5. AdriftHolds'
    BY <2>1, AdriftFrame DEF Settled
  <2> QED
    BY <2>2, <2>3, <2>4, <2>5 DEF IInv, AdriftHolds
<1> QED
  BY <1>1, <1>2

\* The invariant holds in every state of every behaviour.
THEOREM Invariance == Spec => []IInv
<1>1. Init => IInv
  BY InitIInv
<1>2. IInv /\ [Next]_vars => IInv'
  BY StepIInv
<1> QED
  BY <1>1, <1>2, PTL DEF Spec

\* Every variable of the processes, of their connections, of the requests and
\* of the database always has its type.
THEOREM TypeCorrect == Spec => []TypeOK
<1>1. IInv => TypeOK
  BY DEF IInv
<1> QED
  BY <1>1, Invariance, PTL

\* create_entities leaves a beginning of the body of its request in the
\* database at every moment, however processes interleave, crash and lose
\* their connections, and whichever statements the database refuses.
THEOREM BatchesAreStoredInOrder == Spec => []StoredInOrder
<1>1. IInv => StoredInOrder
  BY DEF IInv, StoredInOrder
<1> QED
  BY <1>1, Invariance, PTL
=============================================================================
