-------------------------- MODULE BackendInvariants --------------------------
(***************************************************************************)
(* Inductive invariants of BackendApp: what has to be known of a state,    *)
(* beyond the properties themselves, for the next step to preserve them.   *)
(* They are stacked: each takes the ones before it for granted.            *)
(***************************************************************************)
EXTENDS BackendApp

-----------------------------------------------------------------------------
(***************************************************************************)
(* Why StoredInOrder holds: the cursor (pos, sub) of a worker is a place   *)
(* of the body it handles, all places before it are stored, and its own    *)
(* place is stored once its INSERT has returned a key.                     *)
(***************************************************************************)
Active(s) == pc[s] \in {"exec", "result"}

Creates(s) == Active(s) /\ IsCreate(Job(s))

WorkerAt(s) ==
  /\ ~Active(s) => sub[s] = 0 /\ ids[s] = <<>>
  /\ Active(s) => /\ task[s] \in Request /\ phase[task[s]] = "running"
                  /\ host[task[s]] = s
                  /\ IsQuery(Job(s)) \/ IsCreate(Job(s))
  /\ Creates(s) => /\ IsPlace(Job(s), pos[s], sub[s])
                   /\ Len(ids[s]) = IF sub[s] = 0 THEN pos[s] - 1 ELSE pos[s]
  /\ pc[s] = "result" => reply[s].status # "none"
  /\ pc[s] = "result" /\ Creates(s) /\ ~Failed(s) => reply[s].data \in 1..MaxInt

RequestAt(r) ==
  /\ phase[r] = "unsent" <=> ask[r] = NoAsk
  /\ phase[r] \in {"unsent", "pending"} => StoredFor(r) = {}

CursorAt(s) ==
  Creates(s) =>
    /\ \A i \in 1..pos[s] : \A j \in 0..Len(Batch(Job(s))[i].subs) :
         Precedes(i, j, pos[s], sub[s]) => IsStored(task[s], i, j)
    /\ pc[s] = "result" /\ ~Failed(s) => IsStored(task[s], pos[s], sub[s])

\* An INSERT that is adrift is of a place all places before which are stored.
AdriftAt(m) ==
  /\ phase[m.req] \notin {"unsent", "pending"}
  /\ IsPlace(ask[m.req], m.i, m.j)
  /\ \A i \in 1..m.i : \A j \in 0..Len(Batch(ask[m.req])[i].subs) :
       Precedes(i, j, m.i, m.j) => IsStored(m.req, i, j)

\* A worker is at a place of the body of the one request it handles, has
\* stored exactly what comes before it, and holds one key for each entity it
\* created; nothing is stored for a request before a worker turns to it, and
\* what is adrift can only store what comes next.
IInv ==
  /\ TypeOK
  /\ \A m \in adrift : AdriftAt(m)
  /\ \A s \in Server : WorkerAt(s) /\ CursorAt(s)
  /\ \A r \in Request : RequestAt(r) /\ OrderOf(r)

-----------------------------------------------------------------------------
(***************************************************************************)
(* What the rows say, once stored.  Keys come from a sequence and are not  *)
(* used again; a UNIQUE column tells a stored row from every other; a row  *)
(* of place (i, j) of a body has what the INSERT of that place wrote.      *)
(***************************************************************************)
KeysOnce ==
  /\ \A x \in rows : x.id < serial[x.tbl]
  /\ \A x, y \in rows : x.tbl = y.tbl /\ x.id = y.id => x = y

UniquesOnce ==
  \A x, y \in rows : \A c \in Uniques[x.tbl] :
    x.tbl = y.tbl /\ x.req \in Request /\ x.val[c] = y.val[c] => x = y

\* A module's row carries the key of the row of the entity it came under.
InsertedAs(r, x) ==
  LET e == Batch(ask[r])[x.i]
  IN  IF x.j = 0
      THEN x.tbl = Target(ask[r]) /\ x.val = Arguments(e.val)
      ELSE /\ x.tbl = "modules"
           /\ \E y \in StoredFor(r) :
                /\ y.i = x.i /\ y.j = 0
                /\ x.val = Arguments(Linked(e.subs[x.j], y.id))

StoredAt(r) ==
  /\ \A x, y \in StoredFor(r) : x.i = y.i /\ x.j = y.j => x = y
  /\ \A x \in StoredFor(r) : InsertedAs(r, x)

\* The rows of the entities of r, as the response of POST /courses shows them.
Reported(r) ==
  {[id |-> x.id, val |-> Batch(ask[r])[x.i].val] : x \in {y \in StoredFor(r) : y.j = 0}}

AnsweredAt(r) ==
  /\ answer[r].code # 0 => phase[r] = "answered"
  /\ IsCreate(ask[r]) /\ answer[r].code = 201 =>
       /\ BodyOutcome(ask[r]) = "ok" /\ Complete(r)
       /\ ask[r].path = "courses" => answer[r].body.objects = Reported(r)

\* A worker has stored nothing at its place or after it before its INSERT ran,
\* nor after it was refused over a connection that works; the keys it holds
\* are those of the rows of its entities, in their order.
BatchAt(s) ==
  Creates(s) =>
    /\ \A x \in StoredFor(task[s]) :
         \/ Precedes(x.i, x.j, pos[s], sub[s])
         \/ /\ x.i = pos[s] /\ x.j = sub[s] /\ pc[s] = "result"
            /\ ~Failed(s) \/ conn[s] = "bad"
    /\ \A k \in 1..Len(ids[s]) : \E x \in StoredFor(task[s]) :
         x.i = k /\ x.j = 0 /\ x.id = ids[s][k]
    /\ pc[s] = "result" /\ ~Failed(s) =>
         \E x \in StoredFor(task[s]) :
           x.i = pos[s] /\ x.j = sub[s] /\ x.id = reply[s].data

\* An INSERT that is adrift is the only one of its request, which has nothing
\* at its place or after it; the worker, if it still has the request, knows
\* that the connection is lost, and will not have reported success.
AdriftOnce(m) ==
  /\ \A n \in adrift : n.req = m.req => n = m
  /\ \A x \in StoredFor(m.req) : Precedes(x.i, x.j, m.i, m.j)
  /\ InsertedAs(m.req, m)
  /\ \A s \in Server : Active(s) /\ task[s] = m.req =>
       /\ pc[s] = "result" /\ Failed(s) /\ conn[s] = "bad"
       /\ m.i = pos[s] /\ m.j = sub[s]
  /\ answer[m.req].code # 201

\* What is stored of a batch is stored once, as it was sent, and the worker
\* holds the keys of its own rows; an answer was given when all was stored, and
\* what is adrift adds at most the next place to a request that failed.
BatchInv ==
  /\ KeysOnce /\ UniquesOnce
  /\ \A m \in adrift : AdriftOnce(m)
  /\ \A r \in Request : StoredAt(r) /\ AnsweredAt(r)
  /\ \A s \in Server : BatchAt(s)

-----------------------------------------------------------------------------
(***************************************************************************)
(* Connections and reads.  No string in the database has a NUL character,  *)
(* so the argument of a query, cut at its first one, selects what the      *)
(* whole argument selects.                                                 *)
(***************************************************************************)
RowsArePlain == \A x \in rows : Arguments(x.val) = x.val
AdriftIsPlain == \A m \in adrift : Arguments(m.val) = m.val

\* What a client knew of is still there.
KnownAt(r) == known[r] \subseteq rows

\* Over a broken connection there is no result but an error.
SessionAt(s) == pc[s] = "result" /\ conn[s] = "bad" => Failed(s)

\* The result of a query over a connection that works is no error, and has
\* what the query selects of the rows known when its request was sent.
ReadAt(s) ==
  pc[s] = "result" /\ conn[s] = "ok" /\ IsQuery(Job(s)) =>
    LET sought == known[task[s]] \cap Selected(Query(Job(s)))
    IN  /\ ~Failed(s)
        /\ IF Job(s).path = "user_exists"
           THEN sought # {} => reply[s].data = TRUE
           ELSE /\ sought \subseteq reply[s].data
                /\ reply[s].data \subseteq Selected(Sent(Query(Job(s))))

\* What a client knew of when it sent a query is in the result the worker has
\* for it, unless the connection is broken, and then there is no result.
ReadInv ==
  /\ RowsArePlain /\ AdriftIsPlain
  /\ \A r \in Request : KnownAt(r)
  /\ \A s \in Server : SessionAt(s) /\ ReadAt(s)
=============================================================================
