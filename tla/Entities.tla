------------------------------ MODULE Entities ------------------------------
(***************************************************************************)
(* The entities of the backend (src/backend/model/model.h), their columns, *)
(* and the conversion of a request body into entities: from_json of the    *)
(* JSON serializer and deserialize_entities of BackendApp.                 *)
(*                                                                         *)
(* A string is an opaque model value, a JSON document one of the records   *)
(*   [type |-> "array",  items |-> <<d1, ..., dn>>]                        *)
(*   [type |-> "object", members |-> a function from names to values]      *)
(*   [type |-> "scalar"]      any other document, null included            *)
(*   [type |-> "garbage"]     a body nlohmann::json::parse rejects         *)
(* A member is a string, an integer, NULL (JSON's null), BAD (a value of   *)
(* a type other than the column's) or, under the name of a link, again a   *)
(* document.                                                               *)
(***************************************************************************)
EXTENDS Integers, Sequences, SequencesExt

CONSTANTS
  NULL,      \* JSON's null, SQL's NULL and std::nullopt
  BAD,       \* a JSON value that get<T>() of the column's type rejects
  Str,       \* the strings
  Empty,     \* the empty string
  MaxInt     \* the largest std::int32_t

ASSUME ConstantsAssumption ==
  /\ MaxInt \in Nat \ {0} /\ Empty \in Str
  /\ NULL \notin Str \cup Int /\ BAD \notin Str \cup Int /\ BAD # NULL
  /\ \A text \in Str : text \notin Int

-----------------------------------------------------------------------------
(***************************************************************************)
(* The columns of model.h, in the order in which hana::accessors<T>()      *)
(* visits them, and the traits that change how a column is treated.        *)
(***************************************************************************)
Tables == {"users", "courses", "modules"}

Columns ==
  [users   |-> <<"id", "firstname", "lastname", "username", "student_id",
                 "email", "role">>,
   courses |-> <<"id", "title", "description", "owner_id">>,
   modules |-> <<"id", "course_id", "title", "description">>]

PrimaryKey == "id"

Optionals ==
  [users |-> {"student_id"}, courses |-> {"description"},
   modules |-> {"description"}]

ForeignKeys ==
  [users |-> {}, courses |-> {"owner_id"}, modules |-> {"course_id"}]

\* get_insert_columns: every column but the primary key.
InsertColumns(T) ==
  {Columns[T][k] : k \in 1..Len(Columns[T])} \ {PrimaryKey}

\* The name of the link to subentities, which is also the member it is read
\* from and the table of the subentities (LinkManyType<Course::modules>).
Links == [users |-> {}, courses |-> {"modules"}, modules |-> {}]

Value == Str \cup Int \cup {NULL}

\* What a document may hold under the name of column c.
Member(T, c) ==
  {NULL, BAD} \cup (IF c \in ForeignKeys[T] THEN Int ELSE Str)

-----------------------------------------------------------------------------
(***************************************************************************)
(* from_json<T>(d).  The three predicates say what reading column c does.  *)
(***************************************************************************)
Has(d, c) == d.type = "object" /\ c \in DOMAIN d.members

\* The key is not read from the body at all; an absent or null optional or
\* foreign key column takes the default value `{}`.
Skipped(T, c, d) ==
  /\ c \in Optionals[T] \cup ForeignKeys[T] \cup {PrimaryKey}
  /\ Has(d, c) => d.members[c] = NULL

\* data[name] on a const JSON object without that member is an assertion
\* failure of the JSON library, and an assertion failure ends the process.
Aborts(T, c, d) ==
  ~Skipped(T, c, d) /\ d.type = "object" /\ ~Has(d, c)

\* Mutant: a string column takes a value of any type.
ThrowsUnlessString(T, c, d) ==
  /\ ~Skipped(T, c, d)
  /\ Has(d, c) => \/ d.members[c] = NULL
                  \/ d.members[c] = BAD /\ c \in ForeignKeys[T]
  /\ ~Aborts(T, c, d)

\* data[name] on something else than an object, and get<type>() of a value
\* of another type, throw.  An ill-typed id throws too: it is converted for
\* the warning that it is going to be ignored.
Throws(T, c, d) ==
  /\ ~Skipped(T, c, d)
  /\ Has(d, c) => d.members[c] \in {NULL, BAD}
  /\ ~Aborts(T, c, d)

ColumnOutcome(T, c, d) ==
  IF Aborts(T, c, d) THEN "aborts" ELSE IF Throws(T, c, d) THEN "throws"
                                                          ELSE "ok"

\* A sequence of conversions stops at the first that does not return.
FirstFailure(outcomes) ==
  IF \A k \in 1..Len(outcomes) : outcomes[k] = "ok" THEN "ok"
  ELSE IF \E k \in 1..Len(outcomes) : /\ outcomes[k] = "aborts"
                                      /\ \A i \in 1..(k - 1) : outcomes[i] = "ok"
       THEN "aborts" ELSE "throws"

EntityOutcome(T, d) ==
  FirstFailure([k \in 1..Len(Columns[T]) |-> ColumnOutcome(T, Columns[T][k], d)])

\* get<std::int32_t>() of a JSON number is a cast: it wraps.
Int32(n) == ((n + MaxInt + 1) % (2 * (MaxInt + 1))) - (MaxInt + 1)

FromJson(T, d) ==
  [c \in InsertColumns(T) |->
     IF c \in ForeignKeys[T]
     THEN IF Skipped(T, c, d) THEN 0 ELSE Int32(d.members[c])
     ELSE IF Skipped(T, c, d) THEN NULL ELSE d.members[c]]

-----------------------------------------------------------------------------
(***************************************************************************)
(* deserialize_entities<T>(d, true).  A document that is not an array is   *)
(* taken as one entity.  Subentities are read one level deep, after the    *)
(* entity that holds them; a link that is absent and one that is empty     *)
(* have the same effect and are both the empty sequence.                   *)
(***************************************************************************)
Elements(d) == IF d.type = "array" THEN d.items ELSE <<d>>

LinkElements(T, d) ==
  IF "modules" \in Links[T] /\ Has(d, "modules")
  THEN Elements(d.members["modules"]) ELSE <<>>

SubentitiesOutcome(T, d) ==
  LET es == LinkElements(T, d)
  IN  FirstFailure([k \in 1..Len(es) |-> EntityOutcome("modules", es[k])])

Outcome(T, d) ==
  IF d.type = "garbage" THEN "throws"
  ELSE LET es == Elements(d)
       IN  FirstFailure([k \in 1..Len(es) |->
             FirstFailure(<<EntityOutcome(T, es[k]),
                            SubentitiesOutcome(T, es[k])>>)])

Subentities(T, d) ==
  LET es == LinkElements(T, d)
  IN  [k \in 1..Len(es) |-> FromJson("modules", es[k])]

\* Meaningful when Outcome(T, d) = "ok".
Deserialize(T, d) ==
  LET es == Elements(d)
  IN  [k \in 1..Len(es) |-> [val  |-> FromJson(T, es[k]),
                             subs |-> Subentities(T, es[k])]]

\* What deserialize_entities returns: values of the columns of the table,
\* with the values of the columns of "modules" below each of them.
Entity(T) == [val : [InsertColumns(T) -> Value],
              subs : Seq([InsertColumns("modules") -> Value])]

\* The documents of this module: an element and a body of type T.
IsElement(T, d) ==
  /\ d.type \in {"object", "scalar"}
  /\ \A c \in InsertColumns(T) : Has(d, c) => d.members[c] \in Member(T, c)

IsArrayOf(T, d) ==
  /\ d.type = "array" => d.items \in Seq(Range(d.items))
  /\ \A k \in DOMAIN Elements(d) : IsElement(T, Elements(d)[k])

IsBody(T, d) ==
  \/ d.type = "garbage"
  \/ /\ IsArrayOf(T, d)
     /\ \A k \in DOMAIN Elements(d) : \A link \in Links[T] :
          Has(Elements(d)[k], link) =>
            IsArrayOf("modules", Elements(d)[k].members[link])

-----------------------------------------------------------------------------
(***************************************************************************)
(* to_json of a vector of entities appends to a default-constructed JSON   *)
(* value, so an empty vector is null and not an empty array.  A document   *)
(* the backend sends carries the set of the objects in it.                 *)
(***************************************************************************)
ToJson(vector) ==
  [type |-> IF vector = {} THEN "null" ELSE "array", objects |-> vector]
=============================================================================
