---------------------------- MODULE DbConnection ----------------------------
(***************************************************************************)
(* DbConnection (src/db/db_connection.h): the one libpq connection of a    *)
(* backend process, the execution of a statement on it, and what becomes   *)
(* of the result.  The connection is opened when the process starts and    *)
(* never again: once it is bad it stays bad until the process is started   *)
(* anew.                                                                   *)
(***************************************************************************)
EXTENDS Postgres

CONSTANTS
  Server,   \* the backend processes that share the database
  CStr      \* a string up to its first NUL character

ASSUME ArgumentsAssumption ==
  CStr \in [Str -> Str] /\ \A text \in Str : CStr[CStr[text]] = CStr[text]

VARIABLES
  conn,     \* per process: "closed", "ok" or "bad"
  reply     \* per process: the result of the last statement

connVars == <<conn, reply>>

NoReply == [status |-> "none", data |-> NULL]

-----------------------------------------------------------------------------
(* The constructor: a failed connect is logged, and nothing else. *)

Connect(s) ==
  /\ \E status \in {"ok", "bad"} : conn' = [conn EXCEPT ![s] = status]
  /\ UNCHANGED reply

-----------------------------------------------------------------------------
(* exec(query, args). *)

\* The accumulation of args for the log dereferences every argument, also
\* the disengaged ones, which is undefined: the statement may go on to be
\* executed, an exception may leave exec, or the process may end.
LogIsUndefined(stmt) ==
  stmt.op = "insert" /\ \E c \in InsertColumns(stmt.tbl) : stmt.val[c] = NULL

\* make_pq_args hands over every argument as a C string.
Argument(x) == IF x \in Str THEN CStr[x] ELSE x

Arguments(v) == [c \in DOMAIN v |-> Argument(v[c])]

\* A VARCHAR or TEXT column holds no NUL character.
ASSUME SeedsAssumption == \A x \in Seeds : Arguments(x.val) = x.val

\* The statement as the server gets it.
Sent(stmt) ==
  IF stmt.op = "insert" THEN [stmt EXCEPT !.val = Arguments(@)]
                        ELSE [stmt EXCEPT !.value = Argument(@)]

\* Mutant: a result that is missing is taken for one without tuples.
ExecOnDeadAsEmpty(s) ==
  /\ conn[s] = "bad"
  /\ reply' = [reply EXCEPT ![s] = Tuples({})]
  /\ UNCHANGED <<conn, dbVars>>

\* Mutant: a statement that finds the connection lost opens it again.
ExecOnDeadReconnects(s) ==
  /\ conn[s] = "bad"
  /\ reply' = [reply EXCEPT ![s] = Fatal]
  /\ conn' = [conn EXCEPT ![s] = "ok"]
  /\ UNCHANGED dbVars

\* PQexecParams on a connection that is lost returns no result, which
\* PQresultStatus reports as PGRES_FATAL_ERROR.
ExecOnDead(s) ==
  /\ conn[s] = "bad"
  /\ reply' = [reply EXCEPT ![s] = Fatal]
  /\ UNCHANGED <<conn, dbVars>>

\* The server runs the statement and its result arrives.
ExecReplied(s, stmt, r, i, j) ==
  /\ conn[s] = "ok"
  /\ Runs(Sent(stmt), r, i, j)
  /\ reply' = [reply EXCEPT ![s] = Result(Sent(stmt))]
  /\ UNCHANGED <<conn, adrift>>

\* Mutant: what was sent is taken for done.
ExecLostUnnoticed(s, stmt, r, i, j) ==
  /\ conn[s] = "ok"
  /\ GoesAdrift(Sent(stmt), r, i, j)
  /\ UNCHANGED <<rows, serial>>
  /\ conn' = [conn EXCEPT ![s] = "bad"]
  /\ reply' = [reply EXCEPT ![s] = Result(Sent(stmt))]

\* The connection breaks while the statement is outstanding.  Whether the
\* server got it, and when it runs it, is not known here.
ExecLost(s, stmt, r, i, j) ==
  /\ conn[s] = "ok"
  /\ GoesAdrift(Sent(stmt), r, i, j)
  /\ UNCHANGED <<rows, serial>>
  /\ conn' = [conn EXCEPT ![s] = "bad"]
  /\ reply' = [reply EXCEPT ![s] = Fatal]

-----------------------------------------------------------------------------
(* get_rows, get_row, get_scalar and insert throw on an error result. *)

Failed(s) == reply[s].status = "fatal"

\* A row as an entity.  The NULL of a column that is not optional is read
\* as the empty string PQgetvalue returns for it.
AsEntity(x) ==
  [id  |-> x.id,
   val |-> [c \in InsertColumns(x.tbl) |->
              IF x.val[c] = NULL /\ c \notin Optionals[x.tbl]
              THEN Empty ELSE x.val[c]]]

\* Mutant: the loop over the tuples starts one late.
GetRowsButFirst(s) ==
  {AsEntity(x) : x \in {y \in reply[s].data : \E z \in reply[s].data : z.id < y.id}}

GetRows(s) == {AsEntity(x) : x \in reply[s].data}

ConnInit ==
  /\ conn = [s \in Server |-> "closed"]
  /\ reply = [s \in Server |-> NoReply]
=============================================================================
