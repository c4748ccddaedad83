------------------------ MODULE BackendRefinesProofs ------------------------
(***************************************************************************)
(* BackendApp implements Lifecycle: what BackendApp does with the          *)
(* processes and their connections is one of Start, Lose and End, or       *)
(* nothing.                                                                *)
(***************************************************************************)
EXTENDS BackendRefines, BackendBatchProofs

Up == [s \in Server |-> pc[s] # "down"]

Shape ==
  /\ pc \in [Server -> {"down", "idle", "exec", "result"}]
  /\ conn \in [Server -> {"closed", "ok", "bad"}]

\* All that the mapping to Lifecycle needs of the invariant.
LEMMA TypeShape == IInv => Shape
  BY DEF IInv, TypeOK, Shape

\* A worker that goes on keeps its process up.
LEMMA GoesOn ==
  ASSUME Shape, NEW s \in Server, pc[s] # "down",
         NEW p \in {"idle", "exec", "result"}, pc' = [pc EXCEPT ![s] = p]
  PROVE  Up' = Up
<1>1. \A t \in Server : (pc'[t] # "down") <=> (pc[t] # "down")
  BY DEF Shape
<1> QED
  BY <1>1 DEF Up

\* A step that leaves what others see of the processes is no step of Lifecycle.
LEMMA Stutters ==
  ASSUME Up' = Up, conn' = conn
  PROVE  [Process!Next]_(Process!vars)
  BY DEF Up, Process!vars

\* A process that stops comes to an End.
LEMMA StopEnds ==
  ASSUME Shape, NEW s \in Server, pc[s] # "down", Stop(s)
  PROVE  [Process!Next]_(Process!vars)
<1>1. Up[s] /\ Up' = [Up EXCEPT ![s] = FALSE]
  <2>1. pc' = [pc EXCEPT ![s] = "down"]
    BY DEF Stop
  <2>2. \A t \in Server : (pc'[t] # "down") <=> (t # s /\ pc[t] # "down")
    BY <2>1 DEF Shape
  <2> QED
    BY <2>2 DEF Up
<1>2. conn' = [conn EXCEPT ![s] = "closed"]
  BY DEF Stop
<1>3. Process!End(s)
  BY <1>1, <1>2 DEF Process!End, Up
<1> QED
  BY <1>3 DEF Process!Next

\* A process that boots makes a Start, connected or not.
LEMMA BootStarts ==
  ASSUME Shape, NEW s \in Server, Boot(s)
  PROVE  [Process!Next]_(Process!vars)
<1>1. ~Up[s] /\ Up' = [Up EXCEPT ![s] = TRUE]
  <2>1. pc[s] = "down" /\ pc' = [pc EXCEPT ![s] = "idle"]
    BY DEF Boot
  <2>2. \A t \in Server : (pc'[t] # "down") <=> (t = s \/ pc[t] # "down")
    BY <2>1 DEF Shape
  <2> QED
    BY <2>1, <2>2 DEF Up
<1>2. \E status \in {"ok", "bad"} : conn' = [conn EXCEPT ![s] = status]
  BY DEF Boot, Connect
<1>3. Process!Start(s)
  BY <1>1, <1>2 DEF Process!Start, Up
<1> QED
  BY <1>3 DEF Process!Next

\* A statement leaves the connection, or breaks it: a Lose.
LEMMA ExecLoses ==
  ASSUME Shape, NEW s \in Server, ExecuteOnDead(s) \/ Execute(s) \/ ExecuteLost(s)
  PROVE  [Process!Next]_(Process!vars)
<1>1. pc[s] = "exec" /\ pc' = [pc EXCEPT ![s] = "result"]
  BY DEF ExecuteOnDead, Execute, ExecuteLost, AwaitsReply
<1>2. Up' = Up /\ Up[s]
  BY <1>1, GoesOn DEF Up
<1>3. CASE ExecuteOnDead(s) \/ Execute(s)
  <2>1. conn' = conn
    BY <1>3 DEF ExecuteOnDead, Execute, ExecOnDead, ExecReplied
  <2> QED
    BY <1>2, <2>1, Stutters
<1>4. CASE ExecuteLost(s)
  <2>1. conn[s] = "ok" /\ conn' = [conn EXCEPT ![s] = "bad"]
    BY <1>4 DEF ExecuteLost, ExecLost
  <2>2. Process!Lose(s)
    BY <1>2, <2>1 DEF Process!Lose, Up
  <2> QED
    BY <2>2 DEF Process!Next
<1> QED
  BY <1>3, <1>4

\* A request that is answered, turned to or continued changes no process.
LEMMA OthersStutter ==
  ASSUME Shape, NEW s \in Server,
         \/ \E r \in Request : \E code, body : pc[s] # "down" /\ Respond(s, r, code, body)
         \/ \E r \in Request : \E first : pc[s] # "down" /\ StartWork(s, r, first)
         \/ \E p, q : pc[s] # "down" /\ ContinueAt(s, p, q)
  PROVE  [Process!Next]_(Process!vars)
<1>1. /\ pc[s] # "down" /\ conn' = conn
      /\ \E p \in {"idle", "exec", "result"} : pc' = [pc EXCEPT ![s] = p]
  BY DEF Respond, StartWork, ContinueAt, connVars
<1>2. Up' = Up
  BY <1>1, GoesOn
<1> QED
  BY <1>1, <1>2, Stutters

\* Turning to a request, if it does not end the process, is not seen.
LEMMA DispatchMaps ==
  ASSUME Shape, NEW s \in Server, NEW r \in Request, Dispatch(s, r)
  PROVE  [Process!Next]_(Process!vars)
<1>1. pc[s] # "down"
  BY DEF Dispatch, AnswerAtOnce, RejectBody, AbortOnBody, CreateNothing, StartQuery,
         StartCreate, Takes
<1>2. CASE AbortOnBody(s, r)
  BY <1>1, <1>2, StopEnds DEF AbortOnBody
<1>3. CASE AnswerAtOnce(s, r) \/ RejectBody(s, r) \/ CreateNothing(s, r)
  BY <1>1, <1>3, OthersStutter DEF AnswerAtOnce, RejectBody, CreateNothing, Throw
<1>4. CASE StartQuery(s, r) \/ StartCreate(s, r)
  BY <1>1, <1>4, OthersStutter DEF StartQuery, StartCreate
<1> QED
  BY <1>2, <1>3, <1>4 DEF Dispatch

\* What a worker does is an End, a Lose, or not seen.
LEMMA WorkMaps ==
  ASSUME IInv, NEW s \in Server, Work(s)
  PROVE  [Process!Next]_(Process!vars)
<1>1. Shape
  BY TypeShape
<1>2. Active(s) => task[s] \in Request /\ pc[s] # "down"
  BY DEF IInv, WorkerAt, Active
<1>3. ASSUME NEW r \in Request, Dispatch(s, r) PROVE [Process!Next]_(Process!vars)
  BY <1>1, <1>3, DispatchMaps
<1>4. CASE LogCrashes(s)
  BY <1>1, <1>4, StopEnds DEF LogCrashes
<1>5. CASE ExecuteOnDead(s) \/ Execute(s) \/ ExecuteLost(s)
  BY <1>1, <1>5, ExecLoses
<1>6. CASE \/ LogThrows(s) \/ StatementFailed(s) \/ UserNotFound(s)
           \/ QueryDone(s) \/ BatchDone(s)
  <2>1. Active(s)
    BY <1>6 DEF LogThrows, StatementFailed, UserNotFound, QueryDone, BatchDone,
                InsertSucceeded, Active
  <2>2. \E code, body : Respond(s, task[s], code, body)
    BY <1>6 DEF LogThrows, StatementFailed, UserNotFound, QueryDone, BatchDone, Throw
  <2> QED
    BY <1>1, <1>2, <2>1, <2>2, OthersStutter
<1>7. CASE NextSubentity(s) \/ NextEntity(s)
  <2>1. Active(s)
    BY <1>7 DEF NextSubentity, NextEntity, InsertSucceeded, Active
  <2>2. \E p, q : ContinueAt(s, p, q)
    BY <1>7 DEF NextSubentity, NextEntity
  <2> QED
    BY <1>1, <1>2, <2>1, <2>2, OthersStutter
<1> QED
  BY <1>3, <1>4, <1>5, <1>6, <1>7 DEF Work

\* At the start no process is up.
LEMMA InitMaps == Init => Process!Init
  BY DEF Init, ConnInit, Process!Init

\* Every step of the handlers is a step of Lifecycle, or not seen.
LEMMA NextMaps == IInv /\ [Next]_vars => [Process!Next]_(Process!vars)
<1> SUFFICES ASSUME IInv, [Next]_vars PROVE [Process!Next]_(Process!vars)
  OBVIOUS
<1>1. Shape
  BY TypeShape
<1>2. ASSUME NEW s \in Server, Work(s) PROVE [Process!Next]_(Process!vars)
  BY <1>2, WorkMaps
<1>3. ASSUME NEW s \in Server, Crash(s) PROVE [Process!Next]_(Process!vars)
  BY <1>1, <1>3, StopEnds DEF Crash
<1>4. ASSUME NEW s \in Server, Boot(s) PROVE [Process!Next]_(Process!vars)
  BY <1>1, <1>4, BootStarts
<1>5. ASSUME NEW r \in Request, NEW s \in Server, NEW a \in Offers, Send(r, s, a)
      PROVE  [Process!Next]_(Process!vars)
  BY <1>5, Stutters DEF Send, connVars, workerVars, Up
<1>6. ASSUME NEW m \in adrift, RunLate(m) PROVE [Process!Next]_(Process!vars)
  BY <1>6, Stutters DEF RunLate, connVars, workerVars, Up
<1>7. CASE UNCHANGED vars
  BY <1>7, Stutters DEF vars, connVars, workerVars, Up
<1> QED
  BY <1>2, <1>3, <1>4, <1>5, <1>6, <1>7 DEF Next

\* A process has the connection it was constructed with until it ends: it is
\* started with one that works or not, may lose it, and never gets another.
THEOREM ImplementsLifecycle == Spec => ProcessSpec
  BY InitMaps, NextMaps, Invariance, PTL DEF Spec, ProcessSpec, Process!Spec
-----------------------------------------------------------------------------
(***************************************************************************)
(* BackendApp implements BatchCreate: of its steps, sending a creation is  *)
(* Ask, an INSERT that stores a row is Make, an answer is End, the end of  *)
(* a process is CutOff, the refusal of an INSERT nobody waits for is Forgo, *)
(* and all others are nothing.                                             *)
(***************************************************************************)
Body == [r \in Request |-> Places(ask[r])]

Outcomes == [r \in Request |-> OutcomeOf(r)]

Made == {MadeRow(x) : x \in UNION {StoredFor(r) : r \in Request}}

Adrifts(r) == \E m \in adrift : m.req = r

IsLate(r) == OutcomeOf(r) \in {"failed", "cut"} /\ Adrifts(r)

Late == {r \in Request : IsLate(r)}

\* A pair is a place of a body in Places as it is in IsPlace.
LEMMA PlacesArePlaces ==
  ASSUME NEW a
  PROVE  /\ \A i, j : IsPlace(a, i, j) => <<i, j>> \in Places(a)
         /\ \A p \in Places(a) : \E i, j : p = <<i, j>> /\ IsPlace(a, i, j)
<1>1. CASE IsCreate(a) /\ BodyOutcome(a) = "ok"
  <2> DEFINE B == Batch(a)
  <2>1. Places(a) = UNION {{<<i, j>> : j \in 0..Len(B[i].subs)} : i \in 1..Len(B)}
    BY <1>1 DEF Places
  <2>2. \A i, j : IsPlace(a, i, j) <=> i \in 1..Len(B) /\ j \in 0..Len(B[i].subs)
    BY <1>1 DEF IsPlace
  <2> HIDE DEF B
  <2> QED
    BY <2>1, <2>2
<1>2. CASE ~(IsCreate(a) /\ BodyOutcome(a) = "ok")
  BY <1>2 DEF Places, IsPlace
<1> QED
  BY <1>1, <1>2

\* What was made for a request are its rows.
LEMMA MadeForRows ==
  ASSUME NEW r \in Request
  PROVE  /\ Creation!MadeFor(r) = {MadeRow(x) : x \in StoredFor(r)}
         /\ Creation!Done(r) = {<<x.i, x.j>> : x \in StoredFor(r)}
<1>1. \A x : MadeRow(x).req = x.req /\ MadeRow(x).place = <<x.i, x.j>>
  BY DEF MadeRow
<1>2. \A q \in Request : \A x \in StoredFor(q) : x.req = q
  BY DEF StoredFor
<1>3. Creation!MadeFor(r) = {y \in Made : y.req = r}
  BY DEF Creation!MadeFor, Made
<1>4. Creation!MadeFor(r) = {MadeRow(x) : x \in StoredFor(r)}
  BY <1>1, <1>2, <1>3 DEF Made
<1>5. Creation!Done(r) = {y.place : y \in Creation!MadeFor(r)}
  BY DEF Creation!Done
<1>6. \A p \in Creation!Done(r) : \E x \in StoredFor(r) : p = <<x.i, x.j>>
  BY <1>1, <1>4, <1>5
<1>7. ASSUME NEW x \in StoredFor(r)
      PROVE  <<x.i, x.j>> \in Creation!Done(r)
  <2>1. MadeRow(x) \in Creation!MadeFor(r) /\ MadeRow(x).place = <<x.i, x.j>>
    BY <1>1, <1>4
  <2> QED
    BY <1>5, <2>1
<1> QED
  BY <1>4, <1>6, <1>7

\* A step that changes no rows, no request for creation and no outcome of one,
\* nor which of them may get one more row.
LEMMA CreationStutters ==
  ASSUME rows' = rows, Body' = Body, Outcomes' = Outcomes, Late' = Late
  PROVE  [Creation!Next]_(Creation!vars)
<1>1. Made' = Made
  BY DEF Made, MadeRow, StoredFor
<1> QED
  BY <1>1 DEF Creation!vars, Body, Outcomes, Made, Late, IsLate, Adrifts

\* An answer is the end of a request for creation.
LEMMA RespondEnds ==
  ASSUME IInv, BatchInv, BatchInv', NEW s \in Server, NEW r \in Request,
         NEW code, NEW body,
         Respond(s, r, code, body), phase[r] \in {"pending", "running"}
  PROVE  [Creation!Next]_(Creation!vars)
<1>1. /\ rows' = rows /\ ask' = ask /\ answer'[r] = [code |-> code, body |-> body]
      /\ phase' = [phase EXCEPT ![r] = "answered"]
      /\ \A q \in Request \ {r} : answer'[q] = answer[q]
  BY DEF Respond, IInv, TypeOK, dbVars
<1>2. \A q \in Request \ {r} : OutcomeOf(q)' = OutcomeOf(q)
  BY <1>1 DEF OutcomeOf, IInv, TypeOK
<1>3. Body' = Body
  BY <1>1 DEF Body
<1>7. /\ \A q \in Request : Adrifts(q)' <=> Adrifts(q)
      /\ \A q \in Request \ {r} : IsLate(q)' <=> IsLate(q)
  <2>1. adrift' = adrift
    BY DEF Respond, dbVars
  <2> QED
    BY <1>2, <2>1 DEF Adrifts, IsLate
<1>4. CASE ~IsCreate(ask[r])
  <2>1. OutcomeOf(r)' = OutcomeOf(r)
    BY <1>1, <1>4 DEF OutcomeOf
  <2>2. Outcomes' = Outcomes
    BY <1>2, <2>1 DEF Outcomes
  <2>3. Late' = Late
    BY <1>7, <2>1 DEF Late, IsLate
  <2> QED
    BY <1>1, <1>3, <2>2, <2>3, CreationStutters
<1>5. CASE IsCreate(ask[r])
  <2> DEFINE result == IF code = 201 THEN "created" ELSE "failed"
  <2>1. OutcomeOf(r) = "waiting"
    BY <1>5 DEF OutcomeOf
  <2>2. OutcomeOf(r)' = result
    BY <1>1, <1>5 DEF OutcomeOf, IInv, TypeOK
  <2>3. Outcomes' = [Outcomes EXCEPT ![r] = result]
    <3> HIDE DEF result
    <3>1. \A q \in Request : OutcomeOf(q)' = IF q = r THEN result ELSE OutcomeOf(q)
      BY <1>2, <2>2
    <3> QED
      BY <3>1 DEF Outcomes
  <2>4. ASSUME code = 201
        PROVE  Creation!Done(r) = Places(ask[r])
    <3>1. answer'[r].code = 201
      BY <1>1, <2>4
    <3>2. Complete(r)' /\ BodyOutcome(ask[r]) = "ok"
      BY <1>1, <1>5, <3>1 DEF BatchInv, AnsweredAt
    <3>3. Complete(r)
      BY <1>1, <3>2 DEF Complete, IsStored, StoredFor
    <3>4. \A i, j : IsPlace(ask[r], i, j) => \E x \in StoredFor(r) : x.i = i /\ x.j = j
      BY <3>3 DEF Complete, IsStored, IsPlace
    <3>5. \A x \in StoredFor(r) : IsPlace(ask[r], x.i, x.j)
      BY DEF IInv, OrderOf
    <3>6. Creation!Done(r) = {<<x.i, x.j>> : x \in StoredFor(r)}
      BY MadeForRows
    <3>7. Places(ask[r]) \subseteq Creation!Done(r)
      BY <3>4, <3>6, PlacesArePlaces
    <3>8. Creation!Done(r) \subseteq Places(ask[r])
      BY <3>5, <3>6, PlacesArePlaces
    <3> QED
      BY <3>7, <3>8
  <2>5. Made' = Made
    BY <1>1 DEF Made, MadeRow, StoredFor
  <2>6. IF result = "created" THEN Late' = Late ELSE Late' \in {Late, Late \cup {r}}
    <3>1. ~IsLate(r)
      BY <2>1 DEF IsLate
    <3>2. Late' = IF IsLate(r)' THEN Late \cup {r} ELSE Late
      BY <1>7, <3>1 DEF Late
    <3>3. result = "created" => ~IsLate(r)'
      BY <2>2 DEF IsLate
    <3> QED
      BY <3>2, <3>3
  <2>7. Creation!End(r, result)
    BY <1>3, <2>1, <2>3, <2>4, <2>5, <2>6
       DEF Creation!End, Body, Outcomes, Made, Late, IsLate, Adrifts
  <2> QED
    BY <2>7 DEF Creation!Next
<1> QED
  BY <1>4, <1>5

\* The end of a process cuts off the requests it had, one of which may leave
\* an INSERT adrift.
LEMMA StopCutsOff ==
  ASSUME IInv, NEW s \in Server, Stop(s),
         \A q \in Request : (Adrifts(q)' <=> Adrifts(q)) \/
           (IsCreate(ask[q]) /\ host[q] = s /\ phase[q] = "running")
  PROVE  [Creation!Next]_(Creation!vars)
<1> DEFINE cut == {r \in Request : /\ IsCreate(ask[r]) /\ host[r] = s
                                   /\ phase[r] \in {"pending", "running"}}
<1>1. /\ rows' = rows /\ ask' = ask /\ answer' = answer
      /\ \A r \in Request : phase'[r] = IF host[r] = s /\ phase[r] \in {"pending", "running"}
                                        THEN "reset" ELSE phase[r]
  BY DEF Stop
<1>2. Body' = Body
  BY <1>1 DEF Body
<1>3. \A r \in cut : OutcomeOf(r) = "waiting" /\ OutcomeOf(r)' = "cut"
  BY <1>1 DEF OutcomeOf
<1>4. \A r \in Request \ cut : OutcomeOf(r)' = OutcomeOf(r)
  BY <1>1 DEF OutcomeOf
<1>5. Outcomes' = [r \in Request |-> IF r \in cut THEN "cut" ELSE Outcomes[r]]
  BY <1>3, <1>4 DEF Outcomes
<1>8. \A r \in Request \ cut : IsLate(r)' <=> IsLate(r)
  BY <1>4 DEF IsLate
<1>9. \A r \in cut : ~IsLate(r)
  BY <1>3 DEF IsLate
<1>6. CASE cut = {}
  <2>1. Outcomes' = Outcomes
    BY <1>4, <1>6 DEF Outcomes
  <2>2. Late' = Late
    BY <1>6, <1>8 DEF Late
  <2> QED
    BY <1>1, <1>2, <2>1, <2>2, CreationStutters
<1>7. CASE cut # {}
  <2>1. Made' = Made
    BY <1>1 DEF Made, MadeRow, StoredFor
  <2>2. \A r \in cut : Outcomes[r] = "waiting"
    BY <1>3 DEF Outcomes
  <2>3. cut \in SUBSET Request
    OBVIOUS
  <2> HIDE DEF cut
  <2>4. \E rest \in SUBSET cut : Late' = Late \cup rest
    <3> DEFINE rest == {r \in cut : IsLate(r)'}
    <3>1. Late' = Late \cup rest
      BY <1>8, <1>9, <2>3 DEF Late
    <3>2. rest \in SUBSET cut
      OBVIOUS
    <3> QED
      BY <3>1, <3>2
  <2>5. PICK c \in SUBSET Request : c = cut
    BY <2>3
  <2>6. Creation!CutOff(c)
    BY <1>2, <1>5, <1>7, <2>1, <2>2, <2>4, <2>5
       DEF Creation!CutOff, Body, Outcomes, Made, Late, IsLate, Adrifts
  <2> QED
    BY <2>6 DEF Creation!Next
<1> QED
  BY <1>6, <1>7

\* What goes adrift is of the request a worker handles.
LEMMA JoinsOwn ==
  ASSUME IInv, NEW s \in Server, Active(s),
         GoesAdrift(Sent(Statement(s)), task[s], pos[s], sub[s]), NEW q \in Request
  PROVE  \/ Adrifts(q)' <=> Adrifts(q)
         \/ /\ q = task[s] /\ IsCreate(ask[q]) /\ host[q] = s /\ phase[q] = "running"
<1> DEFINE stmt == Sent(Statement(s))
<1>1. WorkerAt(s) /\ TypeOK
  BY DEF IInv
<1>2. CASE Creates(s)
  <2>1. IsCreate(ask[task[s]]) /\ host[task[s]] = s /\ phase[task[s]] = "running"
    BY <1>1, <1>2 DEF Creates, Job, WorkerAt
  <2>2. adrift \subseteq adrift' /\ \A m \in adrift' : m \in adrift \/ m.req = task[s]
    BY DEF GoesAdrift
  <2> QED
    BY <2>1, <2>2 DEF Adrifts
<1>3. CASE ~Creates(s)
  <2>1. stmt.op # "insert"
    BY <1>1, <1>3, StatementType
  <2>2. adrift' = adrift
    BY <2>1 DEF GoesAdrift
  <2> QED
    BY <2>2 DEF Adrifts
<1> QED
  BY <1>2, <1>3

\* A process that is killed, perhaps while the server has its statement.
LEMMA CrashCutsOff ==
  ASSUME IInv, NEW s \in Server, Crash(s)
  PROVE  [Creation!Next]_(Creation!vars)
<1>1. CASE UNCHANGED adrift
  BY <1>1, StopCutsOff DEF Crash, Adrifts
<1>2. CASE pc[s] = "exec" /\ GoesAdrift(Sent(Statement(s)), task[s], pos[s], sub[s])
  BY <1>2, JoinsOwn, StopCutsOff DEF Crash, Active
<1> QED
  BY <1>1, <1>2 DEF Crash

\* A client that sends a creation asks for it.
LEMMA SendAsks ==
  ASSUME IInv, NEW r \in Request, NEW s \in Server, NEW a \in Offers, Send(r, s, a)
  PROVE  [Creation!Next]_(Creation!vars)
<1>1. /\ rows' = rows /\ answer' = answer /\ ask[r] = NoAsk /\ ask'[r] = a
      /\ phase'[r] = "pending"
      /\ \A q \in Request \ {r} : ask'[q] = ask[q] /\ phase'[q] = phase[q]
  BY DEF Send, IInv, TypeOK, RequestAt, dbVars
<1>2. \A q \in Request \ {r} : OutcomeOf(q)' = OutcomeOf(q)
  BY <1>1 DEF OutcomeOf
<1>3. OutcomeOf(r) = "unasked" /\ OutcomeOf(r)' = IF IsCreate(a) THEN "waiting" ELSE "unasked"
  <2>1. OutcomeOf(r) = "unasked"
    <3>1. ~IsCreate(ask[r])
      BY <1>1, NoAskIsNone
    <3> QED
      BY <3>1 DEF OutcomeOf
  <2>2. CASE IsCreate(a)
    BY <1>1, <2>1, <2>2 DEF OutcomeOf
  <2>3. CASE ~IsCreate(a)
    BY <1>1, <2>1, <2>3 DEF OutcomeOf
  <2> QED
    BY <2>2, <2>3
<1>4. Body' = [Body EXCEPT ![r] = Places(a)]
  BY <1>1 DEF Body
<1>7. Late' = Late
  <2>1. \A q \in Request : Adrifts(q)' <=> Adrifts(q)
    BY DEF Send, dbVars, Adrifts
  <2>2. \A q \in Request : IsLate(q)' <=> IsLate(q)
    BY <1>2, <1>3, <2>1 DEF IsLate
  <2> QED
    BY <2>2 DEF Late
<1>5. CASE ~IsCreate(a)
  <2>1. Outcomes' = Outcomes
    BY <1>2, <1>3, <1>5 DEF Outcomes
  <2>2. Places(a) = {} /\ Places(NoAsk) = {}
    BY <1>5, NoAskIsNone DEF Places
  <2>3. Body' = Body
    BY <1>1, <1>4, <2>2 DEF Body
  <2> QED
    BY <1>1, <1>7, <2>1, <2>3, CreationStutters
<1>6. CASE IsCreate(a)
  <2>1. Outcomes[r] = "unasked" /\ Outcomes' = [Outcomes EXCEPT ![r] = "waiting"]
    BY <1>2, <1>3, <1>6 DEF Outcomes
  <2>2. Made' = Made
    BY <1>1 DEF Made, MadeRow, StoredFor
  <2>3. Places(a) \in {Places(b) : b \in Offers}
    OBVIOUS
  <2>4. Creation!Ask(r)
    BY <1>4, <1>7, <2>1, <2>2, <2>3
       DEF Creation!Ask, Body, Outcomes, Made, Late, IsLate, Adrifts
  <2> QED
    BY <2>4 DEF Creation!Next
<1> QED
  BY <1>5, <1>6

\* A step that leaves rows and requests alone, and what requests came to; what
\* goes adrift is of a request that is being handled.
LEMMA QuietMaps ==
  ASSUME rows' = rows, ask' = ask, answer' = answer,
         \A q \in Request : \/ phase'[q] = phase[q]
                            \/ phase[q] = "pending" /\ phase'[q] = "running",
         \A q \in Request : (Adrifts(q)' <=> Adrifts(q)) \/ phase[q] = "running"
  PROVE  [Creation!Next]_(Creation!vars)
<1>1. \A q \in Request : OutcomeOf(q)' = OutcomeOf(q)
  BY DEF OutcomeOf
<1>2. Body' = Body /\ Outcomes' = Outcomes
  BY <1>1 DEF Body, Outcomes
<1>3. \A q \in Request : IsLate(q)' <=> IsLate(q)
  <2>1. \A q \in Request : phase[q] = "running" => OutcomeOf(q) \in {"unasked", "waiting"}
    BY DEF OutcomeOf
  <2> QED
    BY <1>1, <2>1 DEF IsLate
<1>4. Late' = Late
  BY <1>3 DEF Late
<1> QED
  BY <1>2, <1>4, CreationStutters

\* The row a module is made under is that of the course its key was sent with.
LEMMA RowUnder ==
  ASSUME IInv, BatchInv, NEW r \in Request, NEW x, InsertedAs(r, x),
         IsPlace(ask[r], x.i, x.j), ask[r] \in Offers, x.i \in Nat, x.j \in Nat
  PROVE  MadeRow(x).under \in Creation!Under(r, <<x.i, x.j>>)
<1> DEFINE e == Batch(ask[r])[x.i]
           p == <<x.i, x.j>>
<1>1. p[1] = x.i /\ p[2] = x.j
  OBVIOUS
<1>2. CASE x.j = 0
  <2>1. MadeRow(x).under = NULL
    BY <1>2 DEF MadeRow
  <2>2. Creation!Under(r, p) = {NULL}
    BY <1>1, <1>2 DEF Creation!Under
  <2> QED
    BY <2>1, <2>2
<1>3. CASE x.j # 0
  <2> DEFINE v == e.subs[x.j]
  <2>1. PICK y \in StoredFor(r) : y.i = x.i /\ y.j = 0 /\ x.val = Arguments(Linked(v, y.id))
    BY <1>3 DEF InsertedAs
  <2>2. v \in [InsertColumns("modules") -> Value]
    <3>1. e.subs \in Seq([InsertColumns("modules") -> Value])
      BY PlaceType
    <3>2. x.j \in 1..Len(e.subs)
      BY <1>3, <3>1, PlaceType
    <3> QED
      BY <3>1, <3>2
  <2>3. y.id \in Int
    BY RowPlace, ConstantsAssumption DEF IsRow, RowOf
  <2>4. x.val["course_id"] = y.id
    BY <2>1, <2>2, <2>3, LinkedKey
  <2>5. MadeRow(x).under = <<"courses", y.id>>
    BY <1>3, <2>4 DEF MadeRow
  <2>6. y.tbl = "courses"
    <3>1. y.tbl = Target(ask[r])
      BY <2>1 DEF BatchInv, StoredAt, InsertedAs
    <3> QED
      BY <1>3, <3>1, OnlyCoursesHaveModules
  <2>7. /\ MadeRow(y) \in Creation!MadeFor(r) /\ MadeRow(y).place = <<x.i, 0>>
        /\ MadeRow(y).key = <<"courses", y.id>>
    BY <2>1, <2>6, MadeForRows DEF MadeRow
  <2>8. Creation!Under(r, p) =
          {z.key : z \in {w \in Creation!MadeFor(r) : w.place = <<x.i, 0>>}}
    BY <1>1, <1>3 DEF Creation!Under
  <2> QED
    BY <2>5, <2>7, <2>8
<1> QED
  BY <1>2, <1>3

\* A row that is stored is made for the next place of a body, while its request
\* waits or may get one more.
LEMMA RowMakes ==
  ASSUME IInv, BatchInv, IInv', NEW r \in Request, NEW x, AddsRow(x), x.req = r,
         Outcomes[r] = "waiting" \/ r \in Late,
         IsPlace(ask[r], x.i, x.j), InsertedAs(r, x),
         \A y \in StoredFor(r) : Precedes(y.i, y.j, x.i, x.j),
         \A i \in 1..x.i : \A j \in 0..Len(Batch(ask[r])[i].subs) :
           Precedes(i, j, x.i, x.j) => IsStored(r, i, j),
         ask' = ask, phase' = phase, answer' = answer, Late' = Late \ {r}
  PROVE  [Creation!Next]_(Creation!vars)
<1> DEFINE p == <<x.i, x.j>>
           k == <<x.tbl, x.id>>
<1>2. rows' = rows \cup {x} /\ x.tbl \in Tables /\ x.id = serial[x.tbl]
  BY DEF AddsRow
<1>1. /\ ask[r] \in Offers /\ x.i \in Nat /\ x.j \in Nat /\ IsRow(x)
  <2>1. IsRow(x)
    BY <1>2 DEF IInv, TypeOK
  <2>2. ask[r] \in Offers
    BY NoAskIsNone DEF IsPlace, IInv, TypeOK
  <2> QED
    BY <2>1, <2>2 DEF IsRow, RowOf
<1>3. Body' = Body /\ Outcomes' = Outcomes
  BY DEF Body, Outcomes, OutcomeOf
<1>4. p \in Places(ask[r]) /\ Body[r] = Places(ask[r])
  BY PlacesArePlaces DEF Body
<1>5. k \in Tables \X (1..MaxInt)
  BY <1>1, <1>2 DEF IsRow, RowOf
<1>6. Creation!Done(r) = {<<y.i, y.j>> : y \in StoredFor(r)}
  BY MadeForRows
<1>7. p \notin Creation!Done(r)
  <2>1. \A y \in StoredFor(r) : <<y.i, y.j>> # p
    BY <1>1 DEF Precedes
  <2> QED
    BY <1>6, <2>1
<1>8. ASSUME NEW q \in Places(ask[r]), Creation!Before(q, p)
      PROVE  q \in Creation!Done(r)
  <2>1. PICK i, j : q = <<i, j>> /\ IsPlace(ask[r], i, j)
    BY PlacesArePlaces
  <2>2. Precedes(i, j, x.i, x.j)
    BY <1>8, <2>1 DEF Creation!Before, Precedes
  <2>3. i \in 1..x.i /\ j \in 0..Len(Batch(ask[r])[i].subs)
    BY <1>1, <2>1, <2>2, PlaceType DEF IsPlace, Precedes
  <2>4. IsStored(r, i, j)
    BY <2>2, <2>3
  <2> QED
    BY <1>6, <2>1, <2>4 DEF IsStored
<1>9. ASSUME NEW y \in Made
      PROVE  y.key # k
  <2>1. PICK z \in rows : y = MadeRow(z)
    BY DEF Made, StoredFor
  <2>2. z.id < serial[z.tbl] /\ z.id \in Int /\ serial[x.tbl] \in Int
    BY <1>2, ConstantsAssumption DEF BatchInv, KeysOnce, IInv, TypeOK, IsRow, RowOf
  <2>3. y.key = <<z.tbl, z.id>>
    BY <2>1 DEF MadeRow
  <2> QED
    BY <1>2, <2>2, <2>3
<1>10. Made' = Made \cup {MadeRow(x)}
  <2>1. Made = {MadeRow(z) : z \in {y \in rows : y.req \in Request}}
    BY DEF Made, StoredFor
  <2>2. Made' = {MadeRow(z) : z \in {y \in rows' : y.req \in Request}}
    BY DEF Made, StoredFor, MadeRow
  <2>3. {y \in rows' : y.req \in Request} = {y \in rows : y.req \in Request} \cup {x}
    BY <1>2
  <2> QED
    BY <2>1, <2>2, <2>3
<1>11. MadeRow(x) = [req |-> r, place |-> p, key |-> k, under |-> MadeRow(x).under]
  BY DEF MadeRow
<1>12. MadeRow(x).under \in Creation!Under(r, p)
  BY <1>1, RowUnder
<1>13. Creation!Make(r, p)
  <2>1. k \in (Tables \X (1..MaxInt)) \ {y.key : y \in Made}
    BY <1>5, <1>9
  <2>2. \E n \in (Tables \X (1..MaxInt)) \ {y.key : y \in Made}, w \in Creation!Under(r, p) :
          Made' = Made \cup {[req |-> r, place |-> p, key |-> n, under |-> w]}
    BY <1>10, <1>11, <1>12, <2>1
  <2> HIDE DEF p, k
  <2> QED
    BY <1>3, <1>4, <1>7, <1>8, <2>2
       DEF Creation!Make, Body, Outcomes, Made, Late, IsLate, Adrifts
<1> HIDE DEF p, k
<1> QED
  BY <1>4, <1>13 DEF Creation!Next, Body

\* An INSERT that stores its row makes the row of the place it is for.
LEMMA InsertMakes ==
  ASSUME IInv, BatchInv, IInv', NEW s \in Server, Creates(s), pc[s] = "exec",
         NEW x, Inserts(s, x), UNCHANGED requestVars, adrift' = adrift
  PROVE  [Creation!Next]_(Creation!vars)
<1> DEFINE r == task[s]
<1>1. /\ r \in Request /\ phase[r] = "running" /\ IsCreate(ask[r])
      /\ IsPlace(ask[r], pos[s], sub[s])
      /\ ask' = ask /\ phase' = phase /\ answer' = answer
  BY DEF IInv, TypeOK, WorkerAt, Creates, requestVars, Job
<1>2. AddsRow(x) /\ x.req = r /\ x.i = pos[s] /\ x.j = sub[s] /\ InsertedAs(r, x)
  BY PlaceInserted DEF Inserts
<1>3. OutcomeOf(r) = "waiting" /\ Outcomes[r] = "waiting"
  BY <1>1 DEF OutcomeOf, Outcomes
<1>4. Late' = Late /\ r \notin Late
  <2>1. \A q \in Request : OutcomeOf(q)' = OutcomeOf(q) /\ (Adrifts(q)' <=> Adrifts(q))
    BY <1>1 DEF OutcomeOf, Adrifts
  <2> QED
    BY <1>3, <2>1 DEF Late, IsLate
<1>5. \A y \in StoredFor(r) : Precedes(y.i, y.j, x.i, x.j)
  BY <1>2 DEF BatchInv, BatchAt
<1>6. \A i \in 1..x.i : \A j \in 0..Len(Batch(ask[r])[i].subs) :
        Precedes(i, j, x.i, x.j) => IsStored(r, i, j)
  BY <1>2 DEF IInv, CursorAt, Job
<1> HIDE DEF r
<1> QED
  BY <1>1, <1>2, <1>3, <1>4, <1>5, <1>6, RowMakes

\* An INSERT the server runs late makes the row its request was at, or none.
LEMMA LateMakes ==
  ASSUME IInv, BatchInv, IInv', NEW m \in adrift, RunLate(m)
  PROVE  [Creation!Next]_(Creation!vars)
<1> DEFINE r == m.req
<1>1. /\ adrift' = adrift \ {m} /\ ask' = ask /\ phase' = phase /\ answer' = answer
  BY DEF RunLate, RunsAdrift, requestVars
<1>2. AdriftAt(m) /\ AdriftOnce(m) /\ r \in Request
  BY DEF IInv, TypeOK, IsAdrift, AdriftOf, BatchInv
<1>3. Outcomes[r] = "waiting" \/ r \in Late
  <2>1. IsCreate(ask[r]) /\ answer[r].code # 201
    BY <1>2 DEF AdriftAt, AdriftOnce, IsPlace
  <2>2. OutcomeOf(r) \in {"waiting", "failed", "cut"}
    BY <2>1 DEF OutcomeOf
  <2> QED
    BY <1>2, <2>2 DEF Outcomes, Late, IsLate, Adrifts
<1>4. Late' = Late \ {r}
  <2>1. \A q \in Request : OutcomeOf(q)' = OutcomeOf(q)
    BY <1>1 DEF OutcomeOf
  <2>2. ~Adrifts(r)'
    BY <1>1, <1>2 DEF AdriftOnce, Adrifts
  <2>3. \A q \in Request : q # r => (Adrifts(q)' <=> Adrifts(q))
    BY <1>1 DEF Adrifts
  <2>4. \A q \in Request : IsLate(q)' <=> (q # r /\ IsLate(q))
    <3> HIDE DEF r
    <3> QED
      BY <2>1, <2>2, <2>3 DEF IsLate
  <2> QED
    BY <2>4 DEF Late
<1>5. CASE StoresNothing
  <2>1. Body' = Body /\ Outcomes' = Outcomes /\ rows' = rows
    BY <1>1, <1>5 DEF Body, Outcomes, OutcomeOf, StoresNothing
  <2>2. CASE r \notin Late
    BY <1>4, <2>1, <2>2, CreationStutters
  <2>3. CASE r \in Late
    <3>1. Made' = Made
      BY <2>1 DEF Made, MadeRow, StoredFor
    <3>2. Creation!Forgo(r)
      <4> HIDE DEF r
      <4> QED
        BY <1>4, <2>1, <2>3, <3>1
           DEF Creation!Forgo, Body, Outcomes, Made, Late, IsLate, Adrifts
    <3> QED
      BY <1>2, <3>2 DEF Creation!Next
  <2> QED
    BY <2>2, <2>3
<1>6. ASSUME NEW x, AddsRow(x), x.tbl = m.tbl, x.val = m.val,
             x.req = m.req, x.i = m.i, x.j = m.j
      PROVE  [Creation!Next]_(Creation!vars)
  <2>1. InsertedAs(r, x)
    BY <1>2, <1>6 DEF AdriftOnce, InsertedAs
  <2>2. /\ IsPlace(ask[r], x.i, x.j)
        /\ \A y \in StoredFor(r) : Precedes(y.i, y.j, x.i, x.j)
        /\ \A i \in 1..x.i : \A j \in 0..Len(Batch(ask[r])[i].subs) :
             Precedes(i, j, x.i, x.j) => IsStored(r, i, j)
    BY <1>2, <1>6 DEF AdriftAt, AdriftOnce
  <2> HIDE DEF r
  <2>3. x.req = r
    BY <1>6 DEF r
  <2> QED
    BY <1>1, <1>2, <1>3, <1>4, <1>6, <2>1, <2>2, <2>3, RowMakes
<1> QED
  BY <1>5, <1>6, LateInserts

\* A statement makes at most one row.
LEMMA ExecMakes ==
  ASSUME IInv, BatchInv, IInv', NEW s \in Server,
         ExecuteOnDead(s) \/ Execute(s) \/ ExecuteLost(s)
  PROVE  [Creation!Next]_(Creation!vars)
<1>1. pc[s] = "exec" /\ UNCHANGED requestVars
  BY ExecEffect
<1>2. CASE ExecuteOnDead(s) \/ Execute(s)
  <2>1. adrift' = adrift /\ \A q \in Request : Adrifts(q)' <=> Adrifts(q)
    BY <1>2 DEF ExecuteOnDead, Execute, ExecOnDead, ExecReplied, dbVars, Adrifts
  <2>2. CASE StoresNothing
    BY <1>1, <2>1, <2>2, QuietMaps DEF StoresNothing, requestVars
  <2>3. ASSUME Creates(s), NEW x, Inserts(s, x) PROVE [Creation!Next]_(Creation!vars)
    BY <1>1, <2>1, <2>3, InsertMakes
  <2> QED
    BY <2>2, <2>3, ExecEffect
<1>3. CASE ExecuteLost(s)
  <2>1. Active(s) /\ rows' = rows /\ GoesAdrift(Sent(Statement(s)), task[s], pos[s], sub[s])
    BY <1>3 DEF ExecuteLost, AwaitsReply, Active, ExecLost
  <2>2. \A q \in Request : (Adrifts(q)' <=> Adrifts(q)) \/ phase[q] = "running"
    BY <2>1, JoinsOwn
  <2> QED
    BY <1>1, <2>1, <2>2, QuietMaps DEF requestVars
<1> QED
  BY <1>2, <1>3

\* A worker that turns to a request.
LEMMA DispatchCreates ==
  ASSUME IInv, BatchInv, BatchInv', NEW s \in Server, NEW r \in Request, Dispatch(s, r)
  PROVE  [Creation!Next]_(Creation!vars)
<1>1. phase[r] = "pending"
  BY DEF Dispatch, AnswerAtOnce, RejectBody, AbortOnBody, CreateNothing, StartQuery,
         StartCreate, Takes
<1>2. CASE AbortOnBody(s, r)
  BY <1>2, StopCutsOff DEF AbortOnBody, Adrifts
<1>3. CASE AnswerAtOnce(s, r) \/ RejectBody(s, r) \/ CreateNothing(s, r)
  BY <1>1, <1>3, RespondEnds DEF AnswerAtOnce, RejectBody, CreateNothing, Throw
<1>4. CASE StartQuery(s, r) \/ StartCreate(s, r)
  <2>1. /\ rows' = rows /\ ask' = ask /\ answer' = answer
        /\ phase' = [phase EXCEPT ![r] = "running"]
        /\ \A q \in Request : Adrifts(q)' <=> Adrifts(q)
    BY <1>4 DEF StartQuery, StartCreate, StartWork, dbVars, Adrifts
  <2>2. \A q \in Request : phase'[q] = phase[q] \/ (phase[q] = "pending" /\ phase'[q] = "running")
    BY <1>1, <2>1 DEF IInv, TypeOK
  <2> QED
    BY <2>1, <2>2, QuietMaps
<1> QED
  BY <1>2, <1>3, <1>4 DEF Dispatch

\* What a worker does.
LEMMA WorkCreates ==
  ASSUME IInv, BatchInv, IInv', BatchInv', NEW s \in Server, Work(s)
  PROVE  [Creation!Next]_(Creation!vars)
<1>1. ASSUME NEW r \in Request, Dispatch(s, r) PROVE [Creation!Next]_(Creation!vars)
  BY <1>1, DispatchCreates
<1>2. CASE LogCrashes(s)
  BY <1>2, StopCutsOff DEF LogCrashes, Adrifts
<1>3. CASE ExecuteOnDead(s) \/ Execute(s) \/ ExecuteLost(s)
  BY <1>3, ExecMakes
<1>4. CASE \/ LogThrows(s) \/ StatementFailed(s) \/ UserNotFound(s)
           \/ QueryDone(s) \/ BatchDone(s)
  <2>1. Active(s)
    BY <1>4 DEF LogThrows, StatementFailed, UserNotFound, QueryDone, BatchDone,
                InsertSucceeded, Active
  <2>2. task[s] \in Request /\ phase[task[s]] = "running"
    BY <2>1 DEF IInv, WorkerAt
  <2>3. \E code, body : Respond(s, task[s], code, body)
    BY <1>4 DEF LogThrows, StatementFailed, UserNotFound, QueryDone, BatchDone, Throw
  <2> QED
    BY <2>2, <2>3, RespondEnds
<1>5. CASE NextSubentity(s) \/ NextEntity(s)
  BY <1>5, QuietMaps DEF NextSubentity, NextEntity, ContinueAt, requestVars, dbVars, Adrifts
<1> QED
  BY <1>1, <1>2, <1>3, <1>4, <1>5 DEF Work

\* At the start nothing was asked, and nothing made.
LEMMA InitCreates == Init => Creation!Init
<1> SUFFICES ASSUME Init PROVE Creation!Init
  OBVIOUS
<1>1. \A r \in Request : ask[r] = NoAsk /\ ~IsCreate(ask[r])
  BY NoAskIsNone DEF Init
<1>2. \A r \in Request : Places(ask[r]) = {} /\ OutcomeOf(r) = "unasked"
  BY <1>1 DEF Places, OutcomeOf
<1>3. \A r \in Request : StoredFor(r) = {}
  BY DatabaseAssumption DEF Init, DbInit, StoredFor
<1>4. Made = {}
  BY <1>3 DEF Made
<1>5. Late = {}
  BY <1>2 DEF Late, IsLate
<1> QED
  BY <1>2, <1>4, <1>5 DEF Creation!Init, Made, Late, IsLate, Adrifts

\* Every step of the handlers is a step of BatchCreate, or not seen.
LEMMA NextCreates ==
  IInv /\ BatchInv /\ IInv' /\ BatchInv' /\ [Next]_vars => [Creation!Next]_(Creation!vars)
<1> SUFFICES ASSUME IInv, BatchInv, IInv', BatchInv', [Next]_vars
             PROVE  [Creation!Next]_(Creation!vars)
  OBVIOUS
<1>1. ASSUME NEW s \in Server, Work(s) PROVE [Creation!Next]_(Creation!vars)
  BY <1>1, WorkCreates
<1>2. ASSUME NEW s \in Server, Crash(s) PROVE [Creation!Next]_(Creation!vars)
  BY <1>2, CrashCutsOff
<1>3. ASSUME NEW s \in Server, Boot(s) PROVE [Creation!Next]_(Creation!vars)
  BY <1>3, QuietMaps DEF Boot, requestVars, dbVars, Adrifts
<1>4. ASSUME NEW r \in Request, NEW s \in Server, NEW a \in Offers, Send(r, s, a)
      PROVE  [Creation!Next]_(Creation!vars)
  BY <1>4, SendAsks
<1>5. CASE UNCHANGED vars
  BY <1>5, QuietMaps DEF vars, requestVars, dbVars, Adrifts
<1>6. ASSUME NEW m \in adrift, RunLate(m) PROVE [Creation!Next]_(Creation!vars)
  BY <1>6, LateMakes
<1> QED
  BY <1>1, <1>2, <1>3, <1>4, <1>5, <1>6 DEF Next

\* Whatever crashes, losses, refusals and other processes do in between, the
\* rows of a body are made in its order, each once, under a key of its own and
\* a module under its course, "created" is told of no incomplete body, and a
\* request that failed or was cut off gets at most one row more.
THEOREM ImplementsBatchCreate == Spec => CreationSpec
<1>1. Init => Creation!Init
  BY InitCreates
<1>2. IInv /\ BatchInv /\ IInv' /\ BatchInv' /\ [Next]_vars
        => [Creation!Next]_(Creation!vars)
  BY NextCreates
<1> QED
  BY <1>1, <1>2, Invariance, BatchInvariance, PTL
     DEF Spec, CreationSpec, Creation!Spec

-----------------------------------------------------------------------------
(* What follows from both: the handlers keep the promise of BatchCreate. *)

Kept ==
  INSTANCE BatchCreateProofs WITH
    Bodies  <- {Places(a) : a \in Offers},
    Key     <- Tables \X (1..MaxInt),
    NoKey   <- NULL,
    body    <- [r \in Request |-> Places(ask[r])],
    outcome <- [r \in Request |-> OutcomeOf(r)],
    made    <- {MadeRow(x) : x \in UNION {StoredFor(r) : r \in Request}},
    late    <- {r \in Request : /\ OutcomeOf(r) \in {"failed", "cut"}
                               /\ \E m \in adrift : m.req = r}

\* Of whatever requests the processes serve at the same time, each body is
\* stored from its beginning, no key is given to two rows, modules are under
\* their own course, and a body told to be created is there completely.
THEOREM HandlersKeepPromise == Spec => []Creation!Promise
<1>1. Creation!Init => Kept!PInv
  BY Kept!PInvInit DEF Creation!Init, Kept!Init
<1>2. Kept!PInv /\ [Creation!Next]_(Creation!vars) => Kept!PInv'
  BY Kept!PInvNext
     DEF Creation!Next, Creation!vars, Creation!Ask, Creation!Make, Creation!End,
         Creation!Forgo, Creation!CutOff, Creation!MadeFor, Creation!Done,
         Creation!Before, Creation!Under, Kept!Next, Kept!vars, Kept!Ask,
         Kept!Make, Kept!End, Kept!Forgo, Kept!CutOff, Kept!MadeFor, Kept!Done, Kept!Before, Kept!Under
<1>3. Kept!PInv => Creation!Promise
  BY Kept!PInvPromise
     DEF Kept!Promise, Kept!MadeFor, Kept!Done, Kept!Before, Creation!Promise,
         Creation!MadeFor, Creation!Done, Creation!Before
<1> QED
  BY <1>1, <1>2, <1>3, ImplementsBatchCreate, PTL DEF CreationSpec, Creation!Spec
=============================================================================
