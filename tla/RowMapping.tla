----------------------------- MODULE RowMapping -----------------------------
(***************************************************************************)
(* How entities become parameters of statements and rows become entities   *)
(* (src/db/db_utils.{h,cpp}, model_meta.h, model_relations.h, model_expr.h *)
(* and the statements of db_connection.h).                                 *)
(*                                                                         *)
(* Entities speaks of columns by name.  The code works with positions: the *)
(* order of the members of a struct, the number in the type of a column,   *)
(* the placeholders of a statement, and the position PQfnumber finds for a *)
(* name in a result, whatever the order of the columns in the database.    *)
(* One backend uses the database here, and an operator may create a table  *)
(* anew with its columns in another order.                                 *)
(***************************************************************************)
EXTENDS Entities

CONSTANTS
  CStr,      \* a string up to its first NUL character
  Decimal,   \* the text of a number
  Bodies,    \* the entities clients send: [tbl, doc, under], under a link or NULL
  Layouts,   \* per table, the orders its columns may have in the database
  MaxRows,   \* how many rows a behaviour stores
  NoCall     \* stands for no call

VARIABLES
  layout,    \* per table, its columns in the database, in their order
  table,     \* per table, its rows: from names of columns to text or NULL
  call,      \* the statement under way, with its parameters
  result,    \* the PGresult: its names, and its rows as sequences of cells
  out,       \* what the last query returned
  sent       \* history: what was stored, under which key: [body, id]

vars == <<layout, table, call, result, out, sent>>

Int32s == -(MaxInt + 1)..MaxInt

ASSUME RowMappingAssumption ==
  /\ CStr \in [Str -> Str] /\ Decimal \in [Int32s -> Str] /\ IsInjective(Decimal)
  /\ CStr[Empty] = Empty /\ \A n \in Int32s : CStr[Decimal[n]] = Decimal[n]
  /\ \A T \in Tables : \A l \in Layouts[T] :
       l \in Seq(Range(l)) /\ Range(Columns[T]) \subseteq Range(l)

\* Bodies are what from_json accepts, and a table has keys of 32 bits for them.
ASSUME BodiesAssumption ==
  /\ MaxRows \in 0..MaxInt
  /\ \A b \in Bodies :
       /\ b.tbl \in Tables /\ IsElement(b.tbl, b.doc) /\ EntityOutcome(b.tbl, b.doc) = "ok"
       /\ b.under # NULL => b.tbl = "modules" /\ b.under \in 1..MaxInt
       /\ NoCall # [op |-> "insert", body |-> b]

-----------------------------------------------------------------------------
(* The metadata of model.h and model_relations.h. *)

\* Mutant: two columns of Course have each other's number.
NumberSwapped ==
  [users   |-> [id |-> 0, firstname |-> 1, lastname |-> 2, username |-> 3,
                student_id |-> 4, email |-> 5, role |-> 6],
   courses |-> [id |-> 0, title |-> 2, description |-> 1, owner_id |-> 3],
   modules |-> [id |-> 0, course_id |-> 1, title |-> 2, description |-> 3]]

\* The number in the type of each column.
Number ==
  [users   |-> [id |-> 0, firstname |-> 1, lastname |-> 2, username |-> 3,
                student_id |-> 4, email |-> 5, role |-> 6],
   courses |-> [id |-> 0, title |-> 1, description |-> 2, owner_id |-> 3],
   modules |-> [id |-> 0, course_id |-> 1, title |-> 2, description |-> 3]]

\* get_nth_column_hana_pair: the first accessor whose column has number n.
NthColumn(T, n) ==
  Columns[T][CHOOSE k \in 1..Len(Columns[T]) :
               /\ Number[T][Columns[T][k]] = n
               /\ \A i \in 1..(k - 1) : Number[T][Columns[T][i]] # n]

\* get_column_name of the column that is a member of T under the name c.
ColumnName(T, c) == NthColumn(T, Number[T][c])

\* The columns whose type is std::int32_t here and INTEGER in the database.
IsInteger(T, c) == c \in ForeignKeys[T] \cup {PrimaryKey}

\* LinkMany<Course::modules>: the modules of a course, by the key in them.
CourseModules ==
  [name |-> "modules", remote_entity |-> "modules", remote_key |-> "course_id",
   local_entity |-> "courses", local_key |-> PrimaryKey]

\* get_remote_key_member_ptr: the member of the remote entity, by its number.
RemoteKeyMember ==
  NthColumn(CourseModules.remote_entity,
            Number[CourseModules.remote_entity][CourseModules.remote_key])

-----------------------------------------------------------------------------
(* From an entity to a statement. *)

\* get_insert_columns: the columns without the one primary key.
Fields(T) == RemoveFirst(Columns[T], PrimaryKey)

PrepareInsertQuery(T) ==
  [op |-> "insert", tbl |-> T, fields |-> Fields(T),
   holders |-> [k \in 1..Len(Fields(T)) |-> k]]

\* to_optional_string, and the C string make_pq_args hands over.
ToText(x) ==
  IF x = NULL THEN NULL ELSE IF x \in Str THEN CStr[x] ELSE Decimal[x]

\* Mutant: the values are taken in the order of another traversal.
ValuesReversed(T, e) ==
  [k \in 1..Len(Fields(T)) |-> e[Fields(T)[Len(Fields(T)) + 1 - k]]]

ValuesToInsert(T, e) == [k \in 1..Len(Fields(T)) |-> e[Fields(T)[k]]]

MakeValueList(values) == [k \in DOMAIN values |-> ToText(values[k])]

\* condition::str: the column of the condition by its number.
SelectWhere(T, c) == [op |-> "select", tbl |-> T, column |-> ColumnName(T, c)]

\* SELECT * FROM T, without a condition, is column "*".
SelectAll(T) == [op |-> "select", tbl |-> T, column |-> "*"]

SelectOf(T, c) == IF c = "*" THEN SelectAll(T) ELSE SelectWhere(T, c)

-----------------------------------------------------------------------------
(* The server. *)

RowInserted(stmt, params, key) ==
  [c \in Range(layout[stmt.tbl]) |->
     IF c = PrimaryKey THEN Decimal[key]
     ELSE IF \E k \in DOMAIN stmt.fields : stmt.fields[k] = c
          THEN params[stmt.holders[CHOOSE k \in DOMAIN stmt.fields : stmt.fields[k] = c]]
          ELSE NULL]

Cells(T, row) == [k \in 1..Len(layout[T]) |-> row[layout[T][k]]]

RowsOf(stmt, params) ==
  {row \in table[stmt.tbl] : stmt.column = "*" \/ row[stmt.column] = params[1]}

-----------------------------------------------------------------------------
(* From a result to entities. *)

\* Positions count from 1 here and from 0 there; 0 stands for their -1.
PQfnumber(res, name) ==
  IF \E k \in DOMAIN res.names : res.names[k] = name
  THEN CHOOSE k \in DOMAIN res.names : res.names[k] = name ELSE 0

ColumnsId(T, res) ==
  [k \in 1..Len(Columns[T]) |-> PQfnumber(res, Columns[T][k])]

\* stoi for a number; every text of an INTEGER column is one.
ConvertTo(T, c, text) ==
  IF IsInteger(T, c) THEN CHOOSE n \in Int32s : Decimal[n] = text ELSE text

\* get_field_c: NULL is disengaged in an optional and the empty string else;
\* the columns read with stoi are NOT NULL.
Field(T, c, cell) ==
  IF cell # NULL THEN ConvertTo(T, c, cell)
                 ELSE IF c \in Optionals[T] THEN NULL ELSE Empty

\* The value of a member of T{}.
Default(T, c) ==
  IF IsInteger(T, c) THEN 0 ELSE IF c \in Optionals[T] THEN NULL ELSE Empty

\* Db::get_row: each member, by the position at its number.
GetRow(T, res, cells) ==
  LET ids == ColumnsId(T, res)
  IN  [c \in Range(Columns[T]) |->
         LET id == ids[Number[T][c] + 1]
         IN  IF id = 0 THEN Default(T, c) ELSE Field(T, c, cells[id])]

-----------------------------------------------------------------------------
(* DbConnection: a statement is executed and its result converted. *)

SentTo(T) == {x \in sent : x.body.tbl = T}

\* update_subentities: entity.id is put into the remote key of a subentity.
Linked(b, e) ==
  IF b.under = NULL THEN e ELSE [e EXCEPT ![RemoteKeyMember] = b.under]

\* insert(): the statement runs, and returns the key.
ExecInsert(b) ==
  /\ call = NoCall /\ Cardinality(sent) < MaxRows
  /\ b.under # NULL => \E x \in SentTo("courses") : x.id = b.under
  /\ LET e      == Linked(b, FromJson(b.tbl, b.doc))
         params == MakeValueList(ValuesToInsert(b.tbl, e))
         row    == RowInserted(PrepareInsertQuery(b.tbl), params,
                               Cardinality(SentTo(b.tbl)) + 1)
     IN  /\ table' = [table EXCEPT ![b.tbl] = @ \cup {row}]
         /\ result' = [names |-> <<PrimaryKey>>, rows |-> {<<row[PrimaryKey]>>}]
  /\ call' = [op |-> "insert", body |-> b]
  /\ UNCHANGED <<layout, out, sent>>

TakeKey ==
  /\ call # NoCall /\ call.op = "insert"
  /\ \E cells \in result.rows :
       sent' = sent \cup
         {[body |-> call.body,
           id |-> Field(call.body.tbl, PrimaryKey, cells[PQfnumber(result, PrimaryKey)])]}
  /\ call' = NoCall
  /\ UNCHANGED <<layout, table, result, out>>

\* get_all, get_all_where and find_by_id: SELECT * FROM T [WHERE c = value].
ExecSelect(T, c, value) ==
  /\ call = NoCall
  /\ LET stmt == SelectOf(T, c)
     IN  /\ result' = [names |-> layout[T],
                       rows |-> {Cells(T, row) : row \in RowsOf(stmt, <<ToText(value)>>)}]
         /\ call' = [op |-> "select", tbl |-> T, column |-> c, value |-> value]
  /\ UNCHANGED <<layout, table, out, sent>>

GetRows ==
  /\ call # NoCall /\ call.op = "select"
  /\ out' = {GetRow(call.tbl, result, cells) : cells \in result.rows}
  /\ call' = NoCall
  /\ UNCHANGED <<layout, table, result, sent>>

\* The operator creates a table anew and copies its rows.
Rearrange(T, l) ==
  /\ l # layout[T]
  /\ layout' = [layout EXCEPT ![T] = l]
  /\ table' = [table EXCEPT ![T] =
                 {[c \in Range(l) |-> IF c \in DOMAIN row THEN row[c] ELSE NULL] : row \in @}]
  /\ UNCHANGED <<call, result, out, sent>>

\* The queries of the DAO: get_users, get_courses and get_modules of all rows,
\* and find_by_id<User>, find_by_column(User::username), get_modules(course_id); a
\* path has no NUL character.
Queries ==
  (Tables \X {"*"} \X {NULL})
  \cup ({"users"} \X {"id"} \X Int32s)
  \cup ({"users"} \X {"username"} \X {x \in Str : CStr[x] = x})
  \cup ({"modules"} \X {"course_id"} \X Int32s)

Init ==
  /\ layout \in {l \in [Tables -> UNION {Layouts[T] : T \in Tables}] :
                   \A T \in Tables : l[T] \in Layouts[T]}
  /\ table = [T \in Tables |-> {}]
  /\ call = NoCall
  /\ result = [names |-> <<>>, rows |-> {}]
  /\ out = {}
  /\ sent = {}

Next ==
  \/ \E b \in Bodies : ExecInsert(b)
  \/ TakeKey
  \/ \E q \in Queries : ExecSelect(q[1], q[2], q[3])
  \/ GetRows
  \/ \E T \in Tables : \E l \in Layouts[T] : Rearrange(T, l)

Spec == Init /\ [][Next]_vars

-----------------------------------------------------------------------------
(* The same by name, as the other modules have it. *)

\* What the body of x asked to be stored.
Meant(x) ==
  LET e == FromJson(x.body.tbl, x.body.doc)
  IN  IF x.body.under = NULL THEN e ELSE [e EXCEPT !["course_id"] = x.body.under]

AsRead(x) ==
  [c \in Range(Columns[x.body.tbl]) |->
     IF c = PrimaryKey THEN x.id
     ELSE IF Meant(x)[c] \in Str THEN CStr[Meant(x)[c]] ELSE Meant(x)[c]]

\* The entity a row stands for fits the condition of a query, if it has one.
Fits(e, c, value) == c = "*" \/ e[c] = value

\* A query returns the entities that were sent, all of a table or those with
\* the value asked for: every column has the value it was sent with, strings up
\* to a NUL character, under the key the INSERT had returned, and subentities
\* the key of their entity, through the numbers of the columns, the placeholders
\* and any order of the columns in the database, also one that changes while the
\* process runs.
ShownAsSent ==
  [][call # NoCall /\ call.op = "select" /\ call' = NoCall =>
       out' = {e \in {AsRead(x) : x \in SentTo(call.tbl)} :
                 Fits(e, call.column, call.value)}]_vars

-----------------------------------------------------------------------------
(***************************************************************************)
(* Why ShownAsSent holds.                                                  *)
(***************************************************************************)

\* What an INSERT under way has stored, while its key is not taken yet.
Pending ==
  IF call # NoCall /\ call.op = "insert"
  THEN {[body |-> call.body, id |-> Cardinality(SentTo(call.body.tbl)) + 1]} ELSE {}

\* The row of x in table T, whatever the order of its columns.
RowOf(T, x) ==
  [c \in Range(layout[T]) |->
     IF c = PrimaryKey THEN Decimal[x.id]
     ELSE IF c \in InsertColumns(T) THEN ToText(Meant(x)[c]) ELSE NULL]

Due(T) == {x \in sent \cup Pending : x.body.tbl = T}

LayoutAt(T) == layout[T] \in Layouts[T] /\ table[T] = {RowOf(T, x) : x \in Due(T)}

SentAt ==
  /\ IsFiniteSet(sent)
  /\ \A x \in sent : x.body \in Bodies /\ x.id \in 1..MaxRows

\* The result of an INSERT is the key of its row; that of a query converts to
\* the entities sought, also if the table was made anew in between.
ResultAt ==
  call # NoCall =>
    \/ /\ call.op = "insert" /\ call.body \in Bodies
       /\ Cardinality(SentTo(call.body.tbl)) < MaxRows
       /\ result = [names |-> <<PrimaryKey>>, rows |-> {<<Decimal[x.id]>> : x \in Pending}]
    \/ /\ call.op = "select"
       /\ {GetRow(call.tbl, result, cells) : cells \in result.rows} =
            {e \in {AsRead(x) : x \in SentTo(call.tbl)} : Fits(e, call.column, call.value)}

\* Each table has a row for each body stored and no other, with its texts under
\* the names of their columns in the table's present order, and a result still
\* to be converted has what its statement asked for.
RInv ==
  /\ DOMAIN layout = Tables /\ DOMAIN table = Tables
  /\ \A T \in Tables : LayoutAt(T)
  /\ SentAt /\ ResultAt
=============================================================================
