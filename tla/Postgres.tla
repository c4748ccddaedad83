------------------------------ MODULE Postgres ------------------------------
(***************************************************************************)
(* The PostgreSQL database of docs/db.pgsql, as far as the backend uses    *)
(* it: the tables users, courses and modules, their constraints and the    *)
(* sequences behind their SERIAL keys.  Every statement the backend sends  *)
(* is a transaction of its own, so a statement is one step.                *)
(***************************************************************************)
EXTENDS Entities

CONSTANTS
  Long,      \* the strings longer than a VARCHAR column takes
  Roles,     \* the labels of the enumeration user_role
  Student,   \* the label 'student' among them
  Request,   \* the HTTP requests of a behaviour
  Nobody,    \* stands for "no request"
  Seeds,     \* the rows stored before the behaviour starts
  FirstId    \* per table, the next value of its sequence at that time

VARIABLES
  rows,      \* the rows of all tables
  serial,    \* per table, the next value of its sequence
  adrift     \* INSERTs the server may still run although nobody waits for them

dbVars == <<rows, serial, adrift>>

(***************************************************************************)
(* A row carries its table, its primary key, the columns the backend       *)
(* writes and three history fields no statement reads: the request that    *)
(* stored it, and which entity (i) and subentity (j, or 0) of its body it  *)
(* is.                                                                     *)
(***************************************************************************)
RowOf(T) ==
  [tbl : {T}, id : 1..MaxInt, val : [InsertColumns(T) -> Value],
   req : Request \cup {Nobody}, i : Nat, j : Nat]

IsRow(x) == \E T \in Tables : x \in RowOf(T)

\* An INSERT that is adrift is the row it would store, without a key.
AdriftOf(T) ==
  [tbl : {T}, val : [InsertColumns(T) -> Value], req : Request, i : Nat, j : Nat]

IsAdrift(m) == \E T \in Tables : m \in AdriftOf(T)

ASSUME DatabaseAssumption ==
  /\ Long \subseteq Str /\ Roles \subseteq Str /\ Student \in Roles
  /\ Nobody \notin Request
  /\ FirstId \in [Tables -> 1..(MaxInt + 1)]
  /\ \A x \in Seeds : IsRow(x) /\ x.req = Nobody /\ x.id < FirstId[x.tbl]
  /\ \A x, y \in Seeds : x.tbl = y.tbl /\ x.id = y.id => x = y

Of(T) == {x \in rows : x.tbl = T}

-----------------------------------------------------------------------------
(* The constraints of the tables. *)

Varchar ==
  [users |-> {"firstname", "lastname", "username", "student_id", "email"},
   courses |-> {"title"}, modules |-> {"title"}]

NotNull ==
  [users |-> {"firstname", "lastname", "username", "email"},
   courses |-> {"title", "owner_id"}, modules |-> {"course_id", "title"}]

\* Mutant: the tables are created without their UNIQUE constraints.
UniquesNone == [T \in Tables |-> {}]

Uniques == [users |-> {"email", "username"}, courses |-> {}, modules |-> {}]

\* The column that REFERENCES another table, and that table.
References ==
  [users |-> {}, courses |-> {<<"owner_id", "users">>},
   modules |-> {<<"course_id", "courses">>}]

\* The enumeration and the constraint student_id_not_null, which is unknown,
\* and so satisfied, when there is no role.
RoleFits(v) ==
  \/ v.role = NULL
  \/ v.role \in Roles /\ (v.role = Student <=> v.student_id # NULL)

\* INSERT INTO T with the values v satisfies every constraint, and the
\* sequence of the key has a value left.
Accepts(T, v) ==
  /\ serial[T] <= MaxInt
  /\ \A c \in Varchar[T] : v[c] \notin Long
  /\ \A c \in NotNull[T] : v[c] # NULL
  /\ \A c \in Uniques[T] : \A x \in Of(T) : x.val[c] # v[c]
  /\ \A ref \in References[T] : \E x \in Of(ref[2]) : x.id = v[ref[1]]
  /\ T = "users" => RoleFits(v)

-----------------------------------------------------------------------------
(***************************************************************************)
(* Statements: [op |-> "insert", tbl, val] and, for SELECT ... WHERE       *)
(* column = value, [op |-> "select" or "exists", tbl, column, value];      *)
(* column "*" is no WHERE clause.                                          *)
(***************************************************************************)
Matches(x, stmt) ==
  CASE stmt.column = "*"  -> TRUE
    [] stmt.column = "id" -> x.id = stmt.value
    [] OTHER              -> x.val[stmt.column] = stmt.value

Selected(stmt) == {x \in Of(stmt.tbl) : Matches(x, stmt)}

Tuples(data) == [status |-> "tuples", data |-> data]

Fatal == [status |-> "fatal", data |-> NULL]

\* What the statement returns in the current state: the generated key
\* (RETURNING id), the rows selected, or an error.
Result(stmt) ==
  CASE stmt.op = "insert" /\ Accepts(stmt.tbl, stmt.val) -> Tuples(serial[stmt.tbl])
    [] stmt.op = "insert" /\ ~Accepts(stmt.tbl, stmt.val) -> Fatal
    [] stmt.op = "select" -> Tuples(Selected(stmt))
    [] stmt.op = "exists" -> Tuples(Selected(stmt) # {})

Insert(T, v, r, i, j) ==
  /\ rows' = rows \cup
       {[tbl |-> T, id |-> serial[T], val |-> v, req |-> r, i |-> i, j |-> j]}
  /\ serial' = [serial EXCEPT ![T] = @ + 1]

\* A refused INSERT stores nothing; it has used up a value of the sequence
\* if it failed after the key was generated.
Refuse(T) ==
  /\ UNCHANGED rows
  /\ \/ UNCHANGED serial
     \/ serial[T] <= MaxInt /\ serial' = [serial EXCEPT ![T] = @ + 1]

\* The statement runs, on behalf of entity i, j of the body of request r.
Runs(stmt, r, i, j) ==
  \/ /\ stmt.op = "insert" /\ Accepts(stmt.tbl, stmt.val)
     /\ Insert(stmt.tbl, stmt.val, r, i, j)
  \/ /\ stmt.op = "insert" /\ ~Accepts(stmt.tbl, stmt.val)
     /\ Refuse(stmt.tbl)
  \/ /\ stmt.op # "insert"
     /\ UNCHANGED <<rows, serial>>

\* Nobody waits any more for the statement, which the server may have got.  A
\* SELECT without a reader is of no consequence.
GoesAdrift(stmt, r, i, j) ==
  adrift' = adrift \cup
    (IF stmt.op = "insert"
     THEN {[tbl |-> stmt.tbl, val |-> stmt.val, req |-> r, i |-> i, j |-> j]} ELSE {})

\* The server comes to run an INSERT that is adrift.  One that never reached
\* the server stays adrift.
RunsAdrift(m) ==
  /\ adrift' = adrift \ {m}
  /\ Runs([op |-> "insert", tbl |-> m.tbl, val |-> m.val], m.req, m.i, m.j)

DbInit == rows = Seeds /\ serial = FirstId /\ adrift = {}
=============================================================================
