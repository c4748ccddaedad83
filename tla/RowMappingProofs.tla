-------------------------- MODULE RowMappingProofs --------------------------
(***************************************************************************)
(* What is proved of RowMapping: entities are shown as they were sent,     *)
(* through the numbers of their columns, the placeholders of a statement   *)
(* and any order of the columns in the database, for any bodies, strings   *)
(* and layouts.                                                            *)
(***************************************************************************)
EXTENDS RowMapping, EntitiesProofs, FiniteSetTheorems

-----------------------------------------------------------------------------
(* The metadata: columns, numbers and links. *)

\* The columns of a table are a sequence that begins with the primary key.
LEMMA KeyFirst ==
  ASSUME NEW T \in Tables
  PROVE  /\ \E S : Columns[T] \in Seq(S)
         /\ Len(Columns[T]) \in 4..7 /\ Columns[T][1] = PrimaryKey
<1>1. CASE T = "users"
  <2>1. Columns[T] \in Seq({"id", "firstname", "lastname", "username", "student_id",
                            "email", "role"})
    BY <1>1 DEF Columns
  <2>2. Len(Columns[T]) = 7 /\ Columns[T][1] = PrimaryKey
    BY <1>1 DEF Columns, PrimaryKey
  <2> QED
    BY <2>1, <2>2
<1>2. CASE T = "courses"
  <2>1. Columns[T] \in Seq({"id", "title", "description", "owner_id"})
    BY <1>2 DEF Columns
  <2>2. Len(Columns[T]) = 4 /\ Columns[T][1] = PrimaryKey
    BY <1>2 DEF Columns, PrimaryKey
  <2> QED
    BY <2>1, <2>2
<1>3. CASE T = "modules"
  <2>1. Columns[T] \in Seq({"id", "title", "description", "course_id"})
    BY <1>3 DEF Columns
  <2>2. Len(Columns[T]) = 4 /\ Columns[T][1] = PrimaryKey
    BY <1>3 DEF Columns, PrimaryKey
  <2> QED
    BY <2>1, <2>2
<1> QED
  BY <1>1, <1>2, <1>3 DEF Tables

\* No other column is the primary key.
LEMMA KeyOnce ==
  ASSUME NEW T \in Tables, NEW k \in 2..Len(Columns[T])
  PROVE  Columns[T][k] # PrimaryKey
<1>1. CASE T = "users"
  BY <1>1 DEF Columns, PrimaryKey
<1>2. CASE T = "courses"
  BY <1>2 DEF Columns, PrimaryKey
<1>3. CASE T = "modules"
  BY <1>3 DEF Columns, PrimaryKey
<1> QED
  BY <1>1, <1>2, <1>3 DEF Tables

\* The fields of an INSERT are the columns behind the key, in their order.
LEMMA FieldsAre ==
  ASSUME NEW T \in Tables
  PROVE  /\ Len(Fields(T)) = Len(Columns[T]) - 1 /\ DOMAIN Fields(T) = 1..Len(Fields(T))
         /\ \A k \in 1..Len(Fields(T)) : Fields(T)[k] = Columns[T][k + 1]
<1> DEFINE s == Columns[T]
<1>1. /\ \E S : s \in Seq(S)
      /\ Len(s) \in 4..7 /\ s[1] = PrimaryKey
      /\ \A k \in 2..Len(s) : s[k] # PrimaryKey
  BY KeyFirst, KeyOnce
<1>2. Fields(T) = RemoveFirst(s, PrimaryKey)
  BY DEF Fields
<1> HIDE DEF s
<1>3. SelectInSeq(s, LAMBDA v : v = PrimaryKey) = 1
  <2>1. {i \in 1..Len(s) : s[i] = PrimaryKey} = {1}
    BY <1>1
  <2>2. Min({1}) = 1
    BY DEF Min
  <2> QED
    BY <2>1, <2>2, Zenon DEF SelectInSeq
<1>4. Fields(T) = SubSeq(s, 1, 0) \o SubSeq(s, 2, Len(s))
  <2>1. \E i \in 1..Len(s) : s[i] = PrimaryKey
    BY <1>1
  <2>2. Fields(T) = RemoveAt(s, SelectInSeq(s, LAMBDA v : v = PrimaryKey))
    BY <1>2, <2>1, Zenon DEF RemoveFirst
  <2>3. Fields(T) = RemoveAt(s, 1)
    BY <1>3, <2>2, Zenon
  <2> QED
    BY <2>3 DEF RemoveAt
<1>5. PICK S : s \in Seq(S)
  BY <1>1
<1>6. SubSeq(s, 1, 0) = <<>>
  BY <1>1, SubSeqEmpty
<1> DEFINE t == SubSeq(s, 2, Len(s))
<1>7. /\ t \in Seq(S) /\ Len(t) = Len(s) - 1
      /\ \A k \in 1..(Len(s) - 1) : t[k] = s[k + 1]
  <2>1. \A i \in 2..Len(s) : s[i] \in S
    BY <1>1, <1>5
  <2> QED
    BY <1>1, <2>1, SubSeqProperties
<1> HIDE DEF t
<1>8. Fields(T) = t
  BY <1>4, <1>6, <1>7 DEF t
<1> QED
  BY <1>7, <1>8 DEF s

\* The columns are the key and what an INSERT has a field for.
LEMMA ColumnsAre ==
  ASSUME NEW T \in Tables
  PROVE  /\ Range(Columns[T]) = {Columns[T][k] : k \in 1..Len(Columns[T])}
         /\ Range(Columns[T]) = InsertColumns(T) \cup {PrimaryKey}
         /\ InsertColumns(T) = {Fields(T)[k] : k \in DOMAIN Fields(T)}
         /\ PrimaryKey \notin InsertColumns(T)
<1>1. DOMAIN Columns[T] = 1..Len(Columns[T]) /\ Len(Columns[T]) \in Nat
  BY KeyFirst
<1>2. Range(Columns[T]) = {Columns[T][k] : k \in 1..Len(Columns[T])}
  BY <1>1 DEF Range
<1>3. Range(Columns[T]) = InsertColumns(T) \cup {PrimaryKey}
  BY <1>2, KeyFirst DEF InsertColumns
<1>4. InsertColumns(T) = {Fields(T)[k] : k \in DOMAIN Fields(T)}
  <2>1. ASSUME NEW c \in InsertColumns(T)
        PROVE  \E k \in DOMAIN Fields(T) : Fields(T)[k] = c
    <3>1. PICK k \in 1..Len(Columns[T]) : Columns[T][k] = c /\ k # 1
      BY KeyFirst DEF InsertColumns
    <3>2. k - 1 \in DOMAIN Fields(T) /\ (k - 1) + 1 = k
      BY <1>1, <3>1, FieldsAre
    <3> QED
      BY <3>1, <3>2, FieldsAre
  <2>2. ASSUME NEW k \in DOMAIN Fields(T)
        PROVE  Fields(T)[k] \in InsertColumns(T)
    <3>1. k + 1 \in 2..Len(Columns[T]) /\ Fields(T)[k] = Columns[T][k + 1]
      BY <1>1, FieldsAre
    <3> QED
      BY <3>1, KeyOnce DEF InsertColumns
  <2> QED
    BY <2>1, <2>2
<1>5. PrimaryKey \notin InsertColumns(T)
  BY DEF InsertColumns
<1> QED
  BY <1>2, <1>3, <1>4, <1>5

\* The number of a column is its position among the members, from 0.
LEMMA NumbersArePositions ==
  ASSUME NEW T \in Tables, NEW k \in 1..Len(Columns[T])
  PROVE  Number[T][Columns[T][k]] = k - 1
<1>1. CASE T = "users"
  <2>1. k \in 1..7
    BY <1>1 DEF Columns
  <2> QED
    BY <1>1, <2>1 DEF Columns, Number
<1>2. CASE T = "courses"
  <2>1. k \in 1..4
    BY <1>2 DEF Columns
  <2> QED
    BY <1>2, <2>1 DEF Columns, Number
<1>3. CASE T = "modules"
  <2>1. k \in 1..4
    BY <1>3 DEF Columns
  <2> QED
    BY <1>3, <2>1 DEF Columns, Number
<1> QED
  BY <1>1, <1>2, <1>3 DEF Tables

\* So a column is found again by its number.
LEMMA ColumnByNumber ==
  ASSUME NEW T \in Tables, NEW c \in Range(Columns[T])
  PROVE  /\ Number[T][c] + 1 \in 1..Len(Columns[T])
         /\ Columns[T][Number[T][c] + 1] = c
         /\ NthColumn(T, Number[T][c]) = c
<1>1. PICK k \in 1..Len(Columns[T]) : c = Columns[T][k]
  BY ColumnsAre
<1>2. Number[T][c] = k - 1 /\ Len(Columns[T]) \in Nat
  BY <1>1, NumbersArePositions, KeyFirst
<1>3. Number[T][c] + 1 = k
  BY <1>2
<1> DEFINE P(j) == /\ Number[T][Columns[T][j]] = Number[T][c]
                   /\ \A i \in 1..(j - 1) : Number[T][Columns[T][i]] # Number[T][c]
<1>4. \A j \in 1..Len(Columns[T]) : P(j) <=> j = k
  BY <1>2, NumbersArePositions
<1>5. (CHOOSE j \in 1..Len(Columns[T]) : P(j)) = k
  <2> HIDE DEF P
  <2> QED
    BY <1>4
<1>6. NthColumn(T, Number[T][c]) = c
  BY <1>1, <1>5 DEF NthColumn
<1> QED
  BY <1>1, <1>3, <1>6

\* The key of a course goes into course_id.
LEMMA RemoteKeyIsCourseId ==
  RemoteKeyMember = "course_id"
<1>1. "modules" \in Tables /\ "course_id" = Columns["modules"][2] /\ Len(Columns["modules"]) = 4
  BY DEF Tables, Columns
<1>2. "course_id" \in Range(Columns["modules"])
  BY <1>1, ColumnsAre
<1>3. CourseModules.remote_entity = "modules" /\ CourseModules.remote_key = "course_id"
  BY DEF CourseModules
<1> QED
  BY <1>1, <1>2, <1>3, ColumnByNumber DEF RemoteKeyMember

-----------------------------------------------------------------------------
(* Values and their texts. *)

\* A body asks for a value of its type in each column.
LEMMA MeantType ==
  ASSUME NEW x, x.body \in Bodies, NEW c \in InsertColumns(x.body.tbl)
  PROVE  IF c \in ForeignKeys[x.body.tbl] THEN Meant(x)[c] \in Int32s
         ELSE Meant(x)[c] \in Str \/ (Meant(x)[c] = NULL /\ c \in Optionals[x.body.tbl])
<1> DEFINE T == x.body.tbl
           e == FromJson(T, x.body.doc)
<1>1. /\ T \in Tables /\ IsElement(T, x.body.doc) /\ EntityOutcome(T, x.body.doc) = "ok"
      /\ x.body.under # NULL => T = "modules" /\ x.body.under \in 1..MaxInt
  BY BodiesAssumption
<1>2. IF c \in ForeignKeys[T] THEN e[c] \in Int32s
      ELSE e[c] \in Str \/ (e[c] = NULL /\ c \in Optionals[T])
  BY <1>1, FromJsonValue DEF Int32s
<1>3. DOMAIN e = InsertColumns(T)
  BY DEF FromJson
<1>4. CASE x.body.under = NULL
  BY <1>2, <1>4 DEF Meant
<1>5. CASE x.body.under # NULL
  <2>1. Meant(x)[c] = IF c = "course_id" THEN x.body.under ELSE e[c]
    BY <1>3, <1>5 DEF Meant
  <2>2. "course_id" \in ForeignKeys[T]
    BY <1>1, <1>5 DEF ForeignKeys
  <2>3. x.body.under \in Int32s
    BY <1>1, <1>5, ConstantsAssumption DEF Int32s
  <2> QED
    BY <1>2, <2>1, <2>2, <2>3
<1> QED
  BY <1>4, <1>5

\* A number is found again in its text.
LEMMA TextOfNumber ==
  ASSUME NEW n \in Int32s
  PROVE  /\ n # NULL /\ n \notin Str /\ ToText(n) = Decimal[n]
         /\ Decimal[n] \in Str /\ Decimal[n] # NULL
         /\ (CHOOSE m \in Int32s : Decimal[m] = Decimal[n]) = n
         /\ \A m \in Int32s : Decimal[m] = Decimal[n] <=> m = n
<1>1. n \in Int
  BY ConstantsAssumption DEF Int32s
<1>2. n # NULL /\ n \notin Str
  BY <1>1, ConstantsAssumption
<1>3. Decimal[n] \in Str /\ Decimal[n] # NULL
  BY RowMappingAssumption, ConstantsAssumption
<1>4. \A m \in Int32s : Decimal[m] = Decimal[n] <=> m = n
  <2>1. DOMAIN Decimal = Int32s
    BY RowMappingAssumption
  <2> QED
    BY <2>1, RowMappingAssumption DEF IsInjective
<1>5. (CHOOSE m \in Int32s : Decimal[m] = Decimal[n]) = n
  BY <1>4
<1> QED
  BY <1>2, <1>3, <1>4, <1>5 DEF ToText

\* A string becomes what it is up to its first NUL character.
LEMMA TextOfString ==
  ASSUME NEW v \in Str
  PROVE  ToText(v) = CStr[v] /\ CStr[v] \in Str /\ CStr[v] # NULL /\ v # NULL
  BY RowMappingAssumption, ConstantsAssumption DEF ToText

\* What a row has in a column of the entity.
Text(x, c) ==
  IF c = PrimaryKey THEN Decimal[x.id] ELSE ToText(Meant(x)[c])

\* Converting the text of a column gives what the entity is to show.
LEMMA FieldOfText ==
  ASSUME NEW x, x.body \in Bodies, x.id \in Int32s, NEW c \in Range(Columns[x.body.tbl])
  PROVE  Field(x.body.tbl, c, Text(x, c)) = AsRead(x)[c]
<1> DEFINE T == x.body.tbl
           v == Meant(x)[c]
<1>1. T \in Tables
  BY BodiesAssumption
<1>2. CASE c = PrimaryKey
  <2>1. Text(x, c) = Decimal[x.id] /\ IsInteger(T, c)
    BY <1>2 DEF Text, IsInteger
  <2>2. Field(T, c, Text(x, c)) = x.id
    BY <2>1, TextOfNumber DEF Field, ConvertTo
  <2> QED
    BY <1>2, <2>2 DEF AsRead
<1>3. CASE c # PrimaryKey
  <2>1. c \in InsertColumns(T)
    BY <1>1, <1>3, ColumnsAre
  <2>2. Text(x, c) = ToText(v) /\ AsRead(x)[c] = IF v \in Str THEN CStr[v] ELSE v
    BY <1>3 DEF Text, AsRead
  <2>3. CASE c \in ForeignKeys[T]
    <3>1. v \in Int32s /\ IsInteger(T, c)
      BY <2>1, <2>3, MeantType DEF IsInteger
    <3> HIDE DEF v
    <3>2. Field(T, c, ToText(v)) = v
      BY <3>1, TextOfNumber DEF Field, ConvertTo
    <3> QED
      BY <2>2, <3>1, <3>2, TextOfNumber
  <2>4. CASE c \notin ForeignKeys[T]
    <3>1. ~IsInteger(T, c)
      BY <1>3, <2>4 DEF IsInteger
    <3>2. v \in Str \/ (v = NULL /\ c \in Optionals[T])
      BY <2>1, <2>4, MeantType
    <3> HIDE DEF v
    <3>3. CASE v \in Str
      BY <2>2, <3>1, <3>3, TextOfString DEF Field, ConvertTo
    <3>4. CASE v = NULL /\ c \in Optionals[T]
      <4>1. ToText(v) = NULL /\ v \notin Str
        BY <3>4, ConstantsAssumption DEF ToText
      <4> QED
        BY <2>2, <3>4, <4>1 DEF Field
    <3> QED
      BY <3>2, <3>3, <3>4
  <2> QED
    BY <2>3, <2>4
<1> QED
  BY <1>2, <1>3

\* The condition of a query holds of a row if it holds of its entity.
LEMMA ConditionOfText ==
  ASSUME NEW x, x.body \in Bodies, x.id \in Int32s,
         NEW c, NEW value, <<x.body.tbl, c, value>> \in Queries, c # "*"
  PROVE  /\ c \in Range(Columns[x.body.tbl])
         /\ Text(x, c) = ToText(value) <=> AsRead(x)[c] = value
<1> DEFINE T == x.body.tbl
           v == Meant(x)[c]
<1>1. T \in Tables
  BY BodiesAssumption
<1>2. \/ c = "id" /\ value \in Int32s
      \/ T = "users" /\ c = "username" /\ value \in Str /\ CStr[value] = value
      \/ T = "modules" /\ c = "course_id" /\ value \in Int32s
  BY DEF Queries
<1>3. CASE c = "id" /\ value \in Int32s
  <2>1. c \in Range(Columns[T])
    BY <1>1, <1>3, ColumnsAre DEF PrimaryKey
  <2>2. Text(x, c) = Decimal[x.id] /\ AsRead(x)[c] = x.id
    BY <1>3, <2>1 DEF Text, AsRead, PrimaryKey
  <2> QED
    BY <1>3, <2>1, <2>2, TextOfNumber
<1>4. CASE c # "id"
  <2>1. c \in InsertColumns(T) /\ c \in Range(Columns[T])
    <3>1. \/ T = "users" /\ c = "username" /\ Columns[T][4] = c /\ Len(Columns[T]) = 7
          \/ T = "modules" /\ c = "course_id" /\ Columns[T][2] = c /\ Len(Columns[T]) = 4
      BY <1>2, <1>4 DEF Columns
    <3>2. \E k \in 1..Len(Columns[T]) : c = Columns[T][k]
      BY <3>1
    <3>3. c \in Range(Columns[T])
      BY <1>1, <3>2, ColumnsAre
    <3> QED
      BY <1>1, <1>4, <3>3, ColumnsAre DEF PrimaryKey
  <2>2. Text(x, c) = ToText(v) /\ AsRead(x)[c] = IF v \in Str THEN CStr[v] ELSE v
    BY <1>4, <2>1 DEF Text, AsRead, PrimaryKey
  <2>3. CASE T = "users" /\ c = "username" /\ value \in Str /\ CStr[value] = value
    <3>1. v \in Str
      BY <2>1, <2>3, MeantType DEF ForeignKeys, Optionals
    <3> HIDE DEF v
    <3> QED
      BY <2>1, <2>2, <2>3, <3>1, TextOfString
  <2>4. CASE T = "modules" /\ c = "course_id" /\ value \in Int32s
    <3>1. v \in Int32s
      BY <2>1, <2>4, MeantType DEF ForeignKeys
    <3> HIDE DEF v
    <3> QED
      BY <2>1, <2>2, <2>4, <3>1, TextOfNumber
  <2> QED
    BY <1>2, <1>4, <2>3, <2>4
<1> QED
  BY <1>2, <1>3, <1>4

-----------------------------------------------------------------------------
(* Rows: what an INSERT stores, and what a query makes of it. *)

\* An INSERT puts each value under the name of its column.
LEMMA InsertedRow ==
  ASSUME NEW b \in Bodies, NEW key
  PROVE  RowInserted(PrepareInsertQuery(b.tbl),
                     MakeValueList(ValuesToInsert(b.tbl, Linked(b, FromJson(b.tbl, b.doc)))),
                     key)
         = RowOf(b.tbl, [body |-> b, id |-> key])
<1> DEFINE T == b.tbl
           e == Linked(b, FromJson(T, b.doc))
           x == [body |-> b, id |-> key]
           stmt == PrepareInsertQuery(T)
           params == MakeValueList(ValuesToInsert(T, e))
<1>1. T \in Tables
  BY BodiesAssumption
<1>2. e = Meant(x)
  BY RemoteKeyIsCourseId DEF Linked, Meant
<1>3. DOMAIN Fields(T) = 1..Len(Fields(T))
  BY <1>1, FieldsAre
<1>4. /\ stmt.tbl = T /\ stmt.fields = Fields(T)
      /\ \A k \in DOMAIN Fields(T) : stmt.holders[k] = k
  BY <1>3 DEF PrepareInsertQuery
<1> HIDE DEF stmt, e, x
<1>5. \A k \in DOMAIN Fields(T) : params[k] = ToText(e[Fields(T)[k]])
  BY <1>3 DEF MakeValueList, ValuesToInsert
<1> HIDE DEF params
<1>6. ASSUME NEW c, c # PrimaryKey
      PROVE  (IF \E k \in DOMAIN stmt.fields : stmt.fields[k] = c
              THEN params[stmt.holders[CHOOSE k \in DOMAIN stmt.fields : stmt.fields[k] = c]]
              ELSE NULL)
             = IF c \in InsertColumns(T) THEN ToText(Meant(x)[c]) ELSE NULL
  <2>1. c \in InsertColumns(T) <=> \E k \in DOMAIN Fields(T) : Fields(T)[k] = c
    BY <1>1, ColumnsAre
  <2>2. CASE c \in InsertColumns(T)
    <3> DEFINE k == CHOOSE j \in DOMAIN Fields(T) : Fields(T)[j] = c
    <3>1. k \in DOMAIN Fields(T) /\ Fields(T)[k] = c
      BY <2>1, <2>2
    <3>2. k = CHOOSE j \in DOMAIN stmt.fields : stmt.fields[j] = c
      BY <1>4
    <3> HIDE DEF k
    <3>3. params[stmt.holders[k]] = ToText(Meant(x)[c])
      BY <1>2, <1>4, <1>5, <3>1
    <3> QED
      BY <1>4, <2>1, <2>2, <3>2, <3>3
  <2>3. CASE c \notin InsertColumns(T)
    BY <1>4, <2>1, <2>3
  <2> QED
    BY <2>2, <2>3
<1>7. x.id = key
  BY DEF x
<1> QED
  BY <1>4, <1>6, <1>7 DEF RowInserted, RowOf, stmt, params, e, x

\* A column of the entity is in the table, with its text.
LEMMA TextInRow ==
  ASSUME NEW T \in Tables, layout[T] \in Layouts[T],
         NEW x, NEW c \in Range(Columns[T])
  PROVE  c \in Range(layout[T]) /\ RowOf(T, x)[c] = Text(x, c)
<1>1. c \in Range(layout[T])
  BY RowMappingAssumption
<1>2. c = PrimaryKey \/ c \in InsertColumns(T)
  BY ColumnsAre
<1> QED
  BY <1>1, <1>2 DEF RowOf, Text

\* Db::get_row finds in a result what the row has under the name.
LEMMA RowRead ==
  ASSUME NEW T \in Tables, layout[T] \in Layouts[T], NEW row, NEW res,
         res.names = layout[T]
  PROVE  GetRow(T, res, Cells(T, row)) = [c \in Range(Columns[T]) |-> Field(T, c, row[c])]
<1>1. layout[T] \in Seq(Range(layout[T])) /\ Range(Columns[T]) \subseteq Range(layout[T])
  BY RowMappingAssumption
<1> DEFINE l == layout[T]
<1>2. Len(l) \in Nat /\ DOMAIN l = 1..Len(l)
  BY <1>1
<1> HIDE DEF l
<1>3. ASSUME NEW c \in Range(Columns[T])
      PROVE  LET id == ColumnsId(T, res)[Number[T][c] + 1]
             IN  id # 0 /\ Cells(T, row)[id] = row[c]
  <2> DEFINE id == PQfnumber(res, c)
  <2>1. ColumnsId(T, res)[Number[T][c] + 1] = id
    BY ColumnByNumber DEF ColumnsId
  <2>2. \E k \in DOMAIN l : l[k] = c
    BY <1>1 DEF Range, l
  <2>3. id \in DOMAIN l /\ l[id] = c
    BY <2>2 DEF PQfnumber, l
  <2> HIDE DEF id
  <2>4. id # 0 /\ Cells(T, row)[id] = row[l[id]]
    BY <1>2, <2>3 DEF Cells, l
  <2> QED
    BY <2>1, <2>3, <2>4
<1> QED
  BY <1>3 DEF GetRow

\* A row of an entity is read as the entity.
LEMMA RowShowsEntity ==
  ASSUME NEW T \in Tables, layout[T] \in Layouts[T], NEW res, res.names = layout[T],
         NEW x, x.body \in Bodies, x.body.tbl = T, x.id \in Int32s
  PROVE  GetRow(T, res, Cells(T, RowOf(T, x))) = AsRead(x)
<1>1. GetRow(T, res, Cells(T, RowOf(T, x)))
        = [c \in Range(Columns[T]) |-> Field(T, c, RowOf(T, x)[c])]
  BY RowRead
<1>2. \A c \in Range(Columns[T]) : Field(T, c, RowOf(T, x)[c]) = AsRead(x)[c]
  BY TextInRow, FieldOfText
<1>3. AsRead(x) = [c \in Range(Columns[T]) |-> AsRead(x)[c]]
  BY DEF AsRead
<1> QED
  BY <1>1, <1>2, <1>3

\* The rows of the entities X, those a query selects, the entities they become,
\* and the ones sought.
RowsFor(T, X) == {RowOf(T, x) : x \in X}
CellsOf(T, c, value) ==
  {Cells(T, row) : row \in RowsOf(SelectOf(T, c), <<ToText(value)>>)}
Converted(T, res) == {GetRow(T, res, cells) : cells \in res.rows}
Sought(X, c, value) == {e \in {AsRead(x) : x \in X} : Fits(e, c, value)}

\* The row meets the condition of a query, if it has one.
RowFits(row, c, value) == c = "*" \/ row[c] = ToText(value)

\* A query selects, of the rows of a table, those of the entities sought, and
\* get_rows makes these entities of them.
LEMMA SelectedShown ==
  ASSUME NEW T \in Tables, NEW c, NEW value, <<T, c, value>> \in Queries,
         NEW X, \A x \in X : x.body \in Bodies /\ x.body.tbl = T /\ x.id \in Int32s,
         layout[T] \in Layouts[T], table[T] = RowsFor(T, X),
         NEW res, res.names = layout[T], res.rows = CellsOf(T, c, value)
  PROVE  Converted(T, res) = Sought(X, c, value)
<1>1. ASSUME NEW x \in X, c # "*"
      PROVE  /\ c \in Range(Columns[T])
             /\ Text(x, c) = ToText(value) <=> AsRead(x)[c] = value
  BY <1>1, ConditionOfText
<1>2. \A x \in X : GetRow(T, res, Cells(T, RowOf(T, x))) = AsRead(x)
  BY RowShowsEntity
<1>3. ASSUME NEW x \in X
      PROVE  RowFits(RowOf(T, x), c, value) <=> Fits(AsRead(x), c, value)
  <2>1. CASE c = "*"
    BY <2>1 DEF RowFits, Fits
  <2>2. CASE c # "*"
    <3>1. RowOf(T, x)[c] = ToText(value) <=> AsRead(x)[c] = value
      BY <1>1, <2>2, TextInRow
    <3> QED
      BY <2>2, <3>1 DEF RowFits, Fits
  <2> QED
    BY <2>1, <2>2
<1>4. RowsOf(SelectOf(T, c), <<ToText(value)>>)
        = {row \in table[T] : RowFits(row, c, value)}
  <2>1. CASE c = "*"
    <3>1. SelectOf(T, c).tbl = T /\ SelectOf(T, c).column = "*"
      BY <2>1 DEF SelectOf, SelectAll
    <3> QED
      BY <2>1, <3>1 DEF RowsOf, RowFits
  <2>2. CASE c # "*" /\ X = {}
    <3>1. SelectOf(T, c).tbl = T /\ table[T] = {}
      BY <2>2 DEF SelectOf, SelectWhere, RowsFor
    <3> QED
      BY <3>1 DEF RowsOf
  <2>3. CASE c # "*" /\ X # {}
    <3>1. c \in Range(Columns[T])
      BY <1>1, <2>3
    <3>2. SelectOf(T, c).tbl = T /\ SelectOf(T, c).column = c
      BY <2>3, <3>1, ColumnByNumber DEF SelectOf, SelectWhere, ColumnName
    <3> QED
      BY <2>3, <3>2 DEF RowsOf, RowFits
  <2> QED
    BY <2>1, <2>2, <2>3
<1>5. res.rows = {Cells(T, row) : row \in {r \in table[T] : RowFits(r, c, value)}}
  BY <1>4 DEF CellsOf
<1>6. ASSUME NEW cells \in res.rows
      PROVE  \E x \in X : Fits(AsRead(x), c, value) /\ GetRow(T, res, cells) = AsRead(x)
  <2>1. PICK row \in table[T] : RowFits(row, c, value) /\ cells = Cells(T, row)
    BY <1>5, <1>6
  <2>2. PICK x \in X : row = RowOf(T, x)
    BY <2>1 DEF RowsFor
  <2> QED
    BY <1>2, <1>3, <2>1, <2>2
<1>7. ASSUME NEW x \in X, Fits(AsRead(x), c, value)
      PROVE  \E cells \in res.rows : GetRow(T, res, cells) = AsRead(x)
  <2>1. RowOf(T, x) \in table[T] /\ RowFits(RowOf(T, x), c, value)
    BY <1>3, <1>7 DEF RowsFor
  <2>2. Cells(T, RowOf(T, x)) \in res.rows
    BY <1>5, <2>1
  <2> QED
    BY <1>2, <2>2
<1> DEFINE R == res.rows
           G(cells) == GetRow(T, res, cells)
           E(x) == AsRead(x)
           H(e) == Fits(e, c, value)
<1>8. \A cells \in R : \E x \in X : H(E(x)) /\ G(cells) = E(x)
  BY <1>6
<1>9. \A x \in X : H(E(x)) => \E cells \in R : G(cells) = E(x)
  BY <1>7
<1> HIDE DEF R, G, E, H
<1>10. {G(cells) : cells \in R} = {e \in {E(x) : x \in X} : H(e)}
  BY <1>8, <1>9
<1> QED
  BY <1>10 DEF R, G, E, H, Converted, Sought

-----------------------------------------------------------------------------
(* The inductive invariant. *)

\* The key the next INSERT into a table is given.
NextKey(T) == Cardinality(SentTo(T)) + 1

\* While less is sent than may be, a table's next key is one of the keys.
LEMMA NextKeyIsKey ==
  ASSUME SentAt, NEW T
  PROVE  /\ NextKey(T) \in Nat \ {0} /\ Cardinality(sent) \in Nat
         /\ Cardinality(SentTo(T)) \in Nat
         /\ Cardinality(SentTo(T)) <= Cardinality(sent)
<1>1. IsFiniteSet(sent) /\ SentTo(T) \subseteq sent
  BY DEF SentAt, SentTo
<1>2. /\ Cardinality(sent) \in Nat /\ Cardinality(SentTo(T)) \in Nat
      /\ Cardinality(SentTo(T)) <= Cardinality(sent)
  BY <1>1, FS_Subset, FS_CardinalityType
<1> QED
  BY <1>2 DEF NextKey

\* What an INSERT under way has stored is a body with a key.
LEMMA PendingIs ==
  ASSUME RInv
  PROVE  /\ \A x \in sent \cup Pending : x.body \in Bodies /\ x.body.tbl \in Tables
                                         /\ x.id \in 1..MaxRows /\ x.id \in Int32s
         /\ (call = NoCall \/ call.op = "select") => Pending = {}
         /\ call # NoCall /\ call.op = "insert" =>
              Pending = {[body |-> call.body, id |-> NextKey(call.body.tbl)]}
<1>1. (call = NoCall \/ call.op = "select") => Pending = {}
  BY DEF Pending
<1>2. call # NoCall /\ call.op = "insert" =>
        Pending = {[body |-> call.body, id |-> NextKey(call.body.tbl)]}
  BY DEF Pending, NextKey
<1>3. \A x \in sent \cup Pending : x.body \in Bodies /\ x.id \in 1..MaxRows
  <2>1. \A x \in sent : x.body \in Bodies /\ x.id \in 1..MaxRows
    BY DEF RInv, SentAt
  <2>2. CASE call # NoCall /\ call.op = "insert"
    <3>1. /\ call.body \in Bodies /\ Cardinality(SentTo(call.body.tbl)) < MaxRows
          /\ Cardinality(SentTo(call.body.tbl)) \in Nat
      BY <2>2, NextKeyIsKey DEF RInv, ResultAt
    <3>2. NextKey(call.body.tbl) \in 1..MaxRows
      BY <3>1, BodiesAssumption DEF NextKey
    <3> QED
      BY <1>2, <2>1, <2>2, <3>1, <3>2
  <2>3. CASE ~(call # NoCall /\ call.op = "insert")
    BY <2>1, <2>3 DEF Pending
  <2> QED
    BY <2>2, <2>3
<1>4. \A n \in 1..MaxRows : n \in Int32s
  BY BodiesAssumption, ConstantsAssumption DEF Int32s
<1> QED
  BY <1>1, <1>2, <1>3, <1>4, BodiesAssumption

\* A step that leaves the call, its result and what was sent leaves this of them.
LEMMA ResultFrame ==
  ASSUME ResultAt, UNCHANGED <<call, result, sent>>
  PROVE  ResultAt'
<1>1. Pending' = Pending /\ \A T : SentTo(T)' = SentTo(T)
  BY DEF Pending, SentTo
<1>2. call' = call /\ result' = result
  OBVIOUS
<1>3. SentTo(call.tbl)' = SentTo(call.tbl) /\ SentTo(call.body.tbl)' = SentTo(call.body.tbl)
  BY DEF SentTo
<1> QED
  BY <1>1, <1>2, <1>3 DEF ResultAt

\* At the start the tables are empty, in any order of their columns.
LEMMA InitRInv == Init => RInv
<1> SUFFICES ASSUME Init PROVE RInv
  OBVIOUS
<1>1. sent = {} /\ Pending = {} /\ call = NoCall
  BY DEF Init, Pending
<1>2. IsFiniteSet(sent)
  BY <1>1, FS_EmptySet
<1>3. \A T \in Tables : LayoutAt(T)
  BY <1>1 DEF Init, LayoutAt, Due
<1> QED
  BY <1>1, <1>2, <1>3 DEF Init, RInv, SentAt, ResultAt

\* An INSERT adds the row of its body, under the next key.
LEMMA InsertRInv ==
  ASSUME RInv, NEW b \in Bodies, ExecInsert(b)
  PROVE  RInv'
<1> DEFINE T == b.tbl
           n == NextKey(T)
           x == [body |-> b, id |-> n]
           row == RowOf(T, x)
<1>1. T \in Tables /\ NoCall # [op |-> "insert", body |-> b]
  BY BodiesAssumption
<1>2. /\ call = NoCall /\ sent' = sent /\ layout' = layout
      /\ call' = [op |-> "insert", body |-> b] /\ Cardinality(sent) < MaxRows
  BY DEF ExecInsert
<1>3. /\ table' = [table EXCEPT ![T] = @ \cup {row}]
      /\ result' = [names |-> <<PrimaryKey>>, rows |-> {<<row[PrimaryKey]>>}]
  BY InsertedRow DEF ExecInsert, NextKey
<1>4. Pending = {} /\ Pending' = {x}
  <2>1. Pending = {}
    BY <1>2 DEF Pending
  <2>3. /\ call' # NoCall /\ call'.op = "insert" /\ call'.body = b
    BY <1>1, <1>2
  <2>4. SentTo(call.body.tbl)' = SentTo(T)
    BY <1>2, <2>3 DEF SentTo
  <2>5. Pending' = {[body |-> b, id |-> Cardinality(SentTo(T)) + 1]}
    BY <2>3, <2>4 DEF Pending
  <2> QED
    BY <2>1, <2>5 DEF NextKey
<1>5. row[PrimaryKey] = Decimal[n]
  <2>1. layout[T] \in Layouts[T] /\ PrimaryKey \in Range(Columns[T])
    BY <1>1, ColumnsAre DEF RInv, LayoutAt
  <2> QED
    BY <1>1, <2>1, TextInRow DEF Text
<1>6. \A S : \A y : RowOf(S, y)' = RowOf(S, y)
  BY <1>2 DEF RowOf
<1> HIDE DEF row
<1>7. ASSUME NEW S \in Tables PROVE LayoutAt(S)'
  <2>1. layout[S] \in Layouts[S] /\ table[S] = {RowOf(S, y) : y \in Due(S)}
    BY DEF RInv, LayoutAt
  <2>2. Due(S)' = IF S = T THEN Due(S) \cup {x} ELSE Due(S)
    BY <1>2, <1>4 DEF Due
  <2>3. table'[S] = IF S = T THEN table[S] \cup {row} ELSE table[S]
    BY <1>3 DEF RInv
  <2> HIDE DEF x
  <2>4. table'[S] = {RowOf(S, y) : y \in Due(S)'}
    BY <2>1, <2>2, <2>3 DEF row
  <2> QED
    BY <1>2, <1>6, <2>1, <2>4 DEF LayoutAt
<1>8. ResultAt'
  <2>1. /\ call'.op = "insert" /\ call'.body = b /\ SentTo(T)' = SentTo(T)
    BY <1>2 DEF SentTo
  <2>2. Cardinality(SentTo(T)) < MaxRows
    BY <1>2, NextKeyIsKey, BodiesAssumption DEF RInv
  <2>3. result' = [names |-> <<PrimaryKey>>, rows |-> {<<Decimal[y.id]>> : y \in Pending'}]
    BY <1>3, <1>4, <1>5
  <2> QED
    BY <2>1, <2>2, <2>3 DEF ResultAt
<1>9. SentAt'
  BY <1>2 DEF RInv, SentAt
<1> QED
  BY <1>2, <1>3, <1>7, <1>8, <1>9 DEF RInv

\* insert() reads the key of the row it stored from the result.
LEMMA TakeKeyRInv ==
  ASSUME RInv, TakeKey
  PROVE  RInv'
<1> DEFINE b == call.body
           x == [body |-> b, id |-> NextKey(b.tbl)]
<1>1. /\ call # NoCall /\ call.op = "insert" /\ call' = NoCall
      /\ layout' = layout /\ table' = table
  BY DEF TakeKey
<1>2. /\ Pending = {x} /\ Pending' = {} /\ b \in Bodies /\ b.tbl \in Tables
      /\ x.id \in 1..MaxRows /\ x.id \in Int32s
  <2>1. Pending = {x}
    BY <1>1, PendingIs
  <2>2. Pending' = {}
    BY <1>1 DEF Pending
  <2>3. x \in sent \cup Pending /\ x.body = b
    BY <2>1
  <2>4. /\ x.body \in Bodies /\ x.body.tbl \in Tables
        /\ x.id \in 1..MaxRows /\ x.id \in Int32s
    <3> HIDE DEF x
    <3> QED
      BY <2>3, PendingIs
  <2> QED
    BY <2>1, <2>2, <2>3, <2>4
<1>3. result = [names |-> <<PrimaryKey>>, rows |-> {<<Decimal[x.id]>>}]
  BY <1>1, <1>2 DEF RInv, ResultAt
<1>4. Field(b.tbl, PrimaryKey, Decimal[x.id]) = x.id
  BY <1>2, TextOfNumber DEF Field, ConvertTo, IsInteger
<1>5. PQfnumber(result, PrimaryKey) = 1
  <2>1. DOMAIN result.names = {1} /\ result.names[1] = PrimaryKey
    BY <1>3
  <2> QED
    BY <2>1 DEF PQfnumber
<1>6. sent' = sent \cup {x}
  <2>1. PICK cells \in result.rows :
          sent' = sent \cup {[body |-> b,
                              id |-> Field(b.tbl, PrimaryKey, cells[PQfnumber(result, PrimaryKey)])]}
    BY DEF TakeKey
  <2>2. cells = <<Decimal[x.id]>>
    BY <1>3, <2>1
  <2>3. cells[1] = Decimal[x.id]
    BY <2>2
  <2> QED
    BY <1>4, <1>5, <2>1, <2>3
<1> HIDE DEF x
<1>7. sent' \cup Pending' = sent \cup Pending
  BY <1>2, <1>6
<1>8. \A T \in Tables : LayoutAt(T)'
  <2>1. \A T : Due(T)' = Due(T) /\ \A y : RowOf(T, y)' = RowOf(T, y)
    BY <1>1, <1>7 DEF Due, RowOf
  <2> QED
    BY <1>1, <2>1 DEF RInv, LayoutAt
<1>9. SentAt'
  <2>1. IsFiniteSet(sent')
    BY <1>6, FS_AddElement DEF RInv, SentAt
  <2>2. x.body \in Bodies
    BY <1>2 DEF x
  <2> QED
    BY <1>2, <1>6, <2>1, <2>2 DEF RInv, SentAt
<1> QED
  BY <1>1, <1>8, <1>9 DEF RInv, ResultAt

\* A query leaves a result that converts to what it asks for.
LEMMA SelectRInv ==
  ASSUME RInv, NEW T, NEW c, NEW value, <<T, c, value>> \in Queries, ExecSelect(T, c, value)
  PROVE  RInv'
<1>1. /\ call = NoCall /\ layout' = layout /\ table' = table /\ sent' = sent
      /\ call' = [op |-> "select", tbl |-> T, column |-> c, value |-> value]
  BY DEF ExecSelect
<1>2. Pending = {} /\ Pending' = {} /\ T \in Tables
  BY <1>1 DEF Pending, Queries, Tables
<1>3. \A S \in Tables : LayoutAt(S)'
  <2>1. \A S : Due(S)' = Due(S) /\ \A y : RowOf(S, y)' = RowOf(S, y)
    BY <1>1, <1>2 DEF Due, RowOf
  <2> QED
    BY <1>1, <2>1 DEF RInv, LayoutAt
<1>4. Converted(T, result') = Sought(SentTo(T), c, value)
  <2>1. Due(T) = SentTo(T)
    BY <1>2 DEF Due, SentTo
  <2>2. layout[T] \in Layouts[T] /\ table[T] = RowsFor(T, SentTo(T))
    BY <1>2, <2>1 DEF RInv, LayoutAt, RowsFor
  <2>3. \A x \in SentTo(T) : x.body \in Bodies /\ x.body.tbl = T /\ x.id \in Int32s
    BY PendingIs DEF SentTo
  <2>4. result'.names = layout[T] /\ result'.rows = CellsOf(T, c, value)
    BY DEF ExecSelect, CellsOf
  <2> QED
    BY <1>2, <2>2, <2>3, <2>4, SelectedShown
<1>5. ResultAt'
  <2>1. SentTo(T)' = SentTo(T) /\ \A x : AsRead(x)' = AsRead(x)
    BY <1>1 DEF SentTo, AsRead, Meant
  <2>2. /\ call'.op = "select" /\ call'.tbl = T /\ call'.column = c /\ call'.value = value
    BY <1>1
  <2> QED
    BY <1>4, <2>1, <2>2 DEF ResultAt, Converted, Sought
<1> QED
  BY <1>1, <1>3, <1>5 DEF RInv, SentAt

\* Conversion takes nothing from the tables.
LEMMA GetRowsRInv ==
  ASSUME RInv, GetRows
  PROVE  RInv'
<1>1. /\ call # NoCall /\ call.op = "select" /\ call' = NoCall
      /\ layout' = layout /\ table' = table /\ sent' = sent
  BY DEF GetRows
<1>2. Pending = {} /\ Pending' = {}
  BY <1>1 DEF Pending
<1>3. \A S : Due(S)' = Due(S) /\ \A y : RowOf(S, y)' = RowOf(S, y)
  BY <1>1, <1>2 DEF Due, RowOf
<1> QED
  BY <1>1, <1>3 DEF RInv, LayoutAt, SentAt, ResultAt

\* A row has the same texts under the same names in another order.
LEMMA RearrangeRInv ==
  ASSUME RInv, NEW T \in Tables, NEW l \in Layouts[T], Rearrange(T, l)
  PROVE  RInv'
<1>1. /\ layout' = [layout EXCEPT ![T] = l] /\ UNCHANGED <<call, result, sent>>
      /\ table' = [table EXCEPT ![T] =
                     {[c \in Range(l) |-> IF c \in DOMAIN row THEN row[c] ELSE NULL] : row \in @}]
  BY DEF Rearrange
<1>2. Pending' = Pending /\ \A S : Due(S)' = Due(S)
  BY <1>1 DEF Pending, Due, SentTo
<1>3. ASSUME NEW S \in Tables PROVE LayoutAt(S)'
  <2>1. layout[S] \in Layouts[S] /\ table[S] = {RowOf(S, x) : x \in Due(S)}
    BY DEF RInv, LayoutAt
  <2>2. CASE S # T
    <3>1. layout'[S] = layout[S] /\ table'[S] = table[S]
      BY <1>1, <2>2 DEF RInv
    <3>2. \A x : RowOf(S, x)' = RowOf(S, x)
      BY <3>1 DEF RowOf
    <3> QED
      BY <1>2, <2>1, <3>1, <3>2 DEF LayoutAt
  <2>3. CASE S = T
    <3> DEFINE Copy(row) == [c \in Range(l) |-> IF c \in DOMAIN row THEN row[c] ELSE NULL]
    <3>1. layout'[T] = l /\ table'[T] = {Copy(row) : row \in table[T]}
      BY <1>1 DEF RInv
    <3>2. ASSUME NEW x PROVE RowOf(T, x)' = Copy(RowOf(T, x))
      <4>1. DOMAIN RowOf(T, x) = Range(layout[T])
        BY DEF RowOf
      <4>2. /\ Range(Columns[T]) \subseteq Range(layout[T])
            /\ Range(Columns[T]) = InsertColumns(T) \cup {PrimaryKey}
        BY <2>1, <2>3, ColumnsAre, RowMappingAssumption
      <4>3. RowOf(T, x)' =
              [c \in Range(l) |->
                 IF c = PrimaryKey THEN Decimal[x.id]
                 ELSE IF c \in InsertColumns(T) THEN ToText(Meant(x)[c]) ELSE NULL]
        BY <3>1 DEF RowOf
      <4>4. \A c \in Range(l) : Copy(RowOf(T, x))[c] =
              IF c = PrimaryKey THEN Decimal[x.id]
              ELSE IF c \in InsertColumns(T) THEN ToText(Meant(x)[c]) ELSE NULL
        BY <4>1, <4>2 DEF RowOf
      <4> QED
        BY <4>3, <4>4
    <3> HIDE DEF Copy
    <3>3. table'[T] = {Copy(RowOf(T, x)) : x \in Due(T)}
      BY <2>1, <2>3, <3>1
    <3> QED
      BY <1>2, <2>3, <3>1, <3>2, <3>3 DEF LayoutAt
  <2> QED
    BY <2>2, <2>3
<1>4. ResultAt'
  BY <1>1, ResultFrame DEF RInv
<1> QED
  BY <1>1, <1>3, <1>4 DEF RInv, SentAt

\* The actions, each by its lemma.
LEMMA NextRInv == RInv /\ [Next]_vars => RInv'
<1> SUFFICES ASSUME RInv, [Next]_vars PROVE RInv'
  OBVIOUS
<1>1. ASSUME NEW q \in Queries, ExecSelect(q[1], q[2], q[3]) PROVE RInv'
  <2>1. q = <<q[1], q[2], q[3]>>
    BY DEF Queries
  <2> QED
    BY <1>1, <2>1, SelectRInv
<1>2. CASE UNCHANGED vars
  <2>1. Pending' = Pending /\ \A T : Due(T)' = Due(T) /\ \A x : RowOf(T, x)' = RowOf(T, x)
    BY <1>2 DEF vars, Pending, Due, SentTo, RowOf
  <2> QED
    BY <1>2, <2>1, ResultFrame DEF vars, RInv, LayoutAt, SentAt
<1> QED
  BY <1>1, <1>2, InsertRInv, TakeKeyRInv, GetRowsRInv, RearrangeRInv DEF Next

\* What the tables hold and what a result converts to: the inductive invariant.
THEOREM RowInvariance == Spec => []RInv
  BY InitRInv, NextRInv, PTL DEF Spec

\* Only get_rows ends a query, and it returns what the result converts to.
LEMMA ShownStep ==
  RInv /\ [Next]_vars =>
    [call # NoCall /\ call.op = "select" /\ call' = NoCall =>
       out' = {e \in {AsRead(x) : x \in SentTo(call.tbl)} :
                 Fits(e, call.column, call.value)}]_vars
<1> SUFFICES ASSUME RInv, Next, call # NoCall, call.op = "select", call' = NoCall
             PROVE  out' = {e \in {AsRead(x) : x \in SentTo(call.tbl)} :
                 Fits(e, call.column, call.value)}
  OBVIOUS
<1>1. GetRows
  BY DEF Next, ExecInsert, TakeKey, ExecSelect, Rearrange
<1> QED
  BY <1>1 DEF GetRows, RInv, ResultAt

\* A query returns the entities that were sent with the value asked for, each
\* value in the column it was sent for, whatever the order of the columns in
\* the database at any time.
THEOREM EntitiesAreShownAsSent == Spec => ShownAsSent
  BY RowInvariance, ShownStep, PTL DEF Spec, ShownAsSent
=============================================================================
