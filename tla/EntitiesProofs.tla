--------------------------- MODULE EntitiesProofs ---------------------------
(***************************************************************************)
(* What deserialize_entities returns: lemmas about Entities, for every     *)
(* body and every value of the constants.                                  *)
(***************************************************************************)
EXTENDS Entities, SequenceTheorems, TLAPS

\* A sequence of conversions succeeds only if each of them does.
LEMMA AllConvert ==
  ASSUME NEW outcomes, FirstFailure(outcomes) = "ok"
  PROVE  \A k \in 1..Len(outcomes) : outcomes[k] = "ok"
  BY DEF FirstFailure

\* A cast to std::int32_t yields a number of 32 bits.
LEMMA Int32Type ==
  ASSUME NEW n \in Int
  PROVE  Int32(n) \in -(MaxInt + 1)..MaxInt
<1> DEFINE m == n + MaxInt + 1
           w == 2 * (MaxInt + 1)
<1>1. MaxInt \in Nat /\ m \in Int /\ w \in Nat \ {0}
  BY ConstantsAssumption
<1>2. Int32(n) = (m % w) - (MaxInt + 1)
  BY DEF Int32
<1> HIDE DEF m
<1>3. m % w \in 0..(w - 1)
  <2> HIDE DEF w
  <2> QED
    BY <1>1
<1> QED
  BY <1>1, <1>2, <1>3

\* The columns of a table are listed in a sequence.
LEMMA ColumnsType ==
  ASSUME NEW T \in Tables
  PROVE  /\ Len(Columns[T]) \in Nat
         /\ InsertColumns(T) \subseteq {Columns[T][k] : k \in 1..Len(Columns[T])}
  BY DEF Tables, Columns, InsertColumns

\* What from_json accepts has a value of its type for each column it reads.
LEMMA AcceptedColumn ==
  ASSUME NEW T \in Tables, NEW d, IsElement(T, d), EntityOutcome(T, d) = "ok",
         NEW c \in InsertColumns(T), ~Skipped(T, c, d)
  PROVE  Has(d, c) /\ d.members[c] \in (IF c \in ForeignKeys[T] THEN Int ELSE Str)
<1> DEFINE outcomes == [k \in 1..Len(Columns[T]) |-> ColumnOutcome(T, Columns[T][k], d)]
<1>1. Len(outcomes) = Len(Columns[T])
  BY ColumnsType
<1>2. \A k \in 1..Len(Columns[T]) : outcomes[k] = "ok"
  <2>1. FirstFailure(outcomes) = "ok"
    BY DEF EntityOutcome
  <2> HIDE DEF outcomes
  <2> QED
    BY <1>1, <2>1, AllConvert
<1>3. PICK k \in 1..Len(Columns[T]) : c = Columns[T][k]
  BY ColumnsType
<1>4. ColumnOutcome(T, c, d) = "ok"
  BY <1>2, <1>3
<1>5. ~Aborts(T, c, d) /\ ~Throws(T, c, d)
  BY <1>4 DEF ColumnOutcome
<1>6. Has(d, c) /\ d.members[c] \notin {NULL, BAD}
  BY <1>5 DEF Aborts, Throws
<1> QED
  BY <1>6 DEF IsElement, Member

\* An object that from_json accepts gives each column a value of its type: a
\* number of 32 bits or a string, and nothing only where that is optional.
LEMMA FromJsonValue ==
  ASSUME NEW T \in Tables, NEW d, IsElement(T, d), EntityOutcome(T, d) = "ok",
         NEW c \in InsertColumns(T)
  PROVE  LET v == FromJson(T, d)[c]
         IN  IF c \in ForeignKeys[T] THEN v \in -(MaxInt + 1)..MaxInt
             ELSE v \in Str \/ (v = NULL /\ c \in Optionals[T])
<1>1. CASE c \in ForeignKeys[T]
  <2>1. 0 \in -(MaxInt + 1)..MaxInt
    BY ConstantsAssumption
  <2>2. ~Skipped(T, c, d) => Int32(d.members[c]) \in -(MaxInt + 1)..MaxInt
    BY <1>1, AcceptedColumn, Int32Type
  <2> QED
    BY <1>1, <2>1, <2>2 DEF FromJson
<1>2. CASE c \notin ForeignKeys[T]
  <2>1. CASE Skipped(T, c, d)
    <3>1. c \in Optionals[T] /\ FromJson(T, d)[c] = NULL
      BY <1>2, <2>1 DEF Skipped, InsertColumns, FromJson
    <3> QED
      BY <1>2, <3>1
  <2>2. CASE ~Skipped(T, c, d)
    BY <1>2, <2>2, AcceptedColumn DEF FromJson
  <2> QED
    BY <2>1, <2>2
<1> QED
  BY <1>1, <1>2

\* So it is a row of values of the columns.
LEMMA FromJsonType ==
  ASSUME NEW T \in Tables, NEW d, IsElement(T, d), EntityOutcome(T, d) = "ok"
  PROVE  FromJson(T, d) \in [InsertColumns(T) -> Value]
<1>1. MaxInt \in Int
  BY ConstantsAssumption
<1>2. \A c \in InsertColumns(T) : FromJson(T, d)[c] \in Value
  BY <1>1, FromJsonValue DEF Value
<1> QED
  BY <1>2 DEF FromJson

\* An array's items are a sequence, and so is the one element of any other
\* document; deserialize_entities converts each of them.
LEMMA ElementsType ==
  ASSUME NEW T, NEW d, IsArrayOf(T, d)
  PROVE  /\ Len(Elements(d)) \in Nat
         /\ \A k \in 1..Len(Elements(d)) : IsElement(T, Elements(d)[k])
<1>1. Elements(d) \in Seq(Range(Elements(d)))
  <2>1. CASE d.type = "array"
    BY <2>1 DEF IsArrayOf, Elements
  <2>2. CASE d.type # "array"
    BY <2>2 DEF Elements, Range
  <2> QED
    BY <2>1, <2>2
<1> QED
  BY <1>1 DEF IsArrayOf

\* Subentities that are accepted carry values of the columns of modules.
LEMMA SubentitiesType ==
  ASSUME NEW T \in Tables, NEW d, SubentitiesOutcome(T, d) = "ok",
         \A link \in Links[T] : Has(d, link) => IsArrayOf("modules", d.members[link])
  PROVE  Subentities(T, d) \in Seq([InsertColumns("modules") -> Value])
<1> DEFINE es == LinkElements(T, d)
           outcomes == [k \in 1..Len(es) |-> EntityOutcome("modules", es[k])]
<1>1. /\ Len(es) \in Nat
      /\ \A k \in 1..Len(es) : IsElement("modules", es[k])
  BY ElementsType DEF LinkElements
<1>2. \A k \in 1..Len(es) : EntityOutcome("modules", es[k]) = "ok"
  <2>1. FirstFailure(outcomes) = "ok" /\ Len(outcomes) = Len(es)
    BY <1>1 DEF SubentitiesOutcome
  <2>2. \A k \in 1..Len(outcomes) : outcomes[k] = "ok"
    <3> HIDE DEF outcomes
    <3> QED
      BY <2>1, AllConvert
  <2> QED
    BY <2>1, <2>2
<1>3. \A k \in 1..Len(es) :
        FromJson("modules", es[k]) \in [InsertColumns("modules") -> Value]
  BY <1>1, <1>2, FromJsonType DEF Tables
<1> HIDE DEF es
<1>4. [k \in 1..Len(es) |-> FromJson("modules", es[k])]
        \in [1..Len(es) -> [InsertColumns("modules") -> Value]]
  BY <1>3
<1>5. Subentities(T, d) = [k \in 1..Len(es) |-> FromJson("modules", es[k])]
  BY DEF Subentities, es
<1> QED
  BY <1>1, <1>4, <1>5, SeqDef

\* The entities read from an accepted body are typed, with their subentities.
LEMMA DeserializeType ==
  ASSUME NEW T \in Tables, NEW d, IsBody(T, d), Outcome(T, d) = "ok"
  PROVE  Deserialize(T, d) \in Seq(Entity(T))
<1> DEFINE es == Elements(d)
           outcome(k) == FirstFailure(<<EntityOutcome(T, es[k]),
                                        SubentitiesOutcome(T, es[k])>>)
           outcomes == [k \in 1..Len(es) |-> outcome(k)]
<1>1. d.type # "garbage" /\ FirstFailure(outcomes) = "ok"
  BY DEF Outcome
<1>2. /\ Len(es) \in Nat
      /\ \A k \in 1..Len(es) : IsElement(T, es[k])
  BY <1>1, ElementsType DEF IsBody
<1>3. ASSUME NEW k \in 1..Len(es)
      PROVE  /\ EntityOutcome(T, es[k]) = "ok"
             /\ SubentitiesOutcome(T, es[k]) = "ok"
  <2>1. outcome(k) = "ok"
    <3>1. Len(outcomes) = Len(es) /\ outcomes[k] = outcome(k)
      BY <1>2, <1>3
    <3>2. \A n \in 1..Len(outcomes) : outcomes[n] = "ok"
      <4> HIDE DEF outcomes
      <4> QED
        BY <1>1, AllConvert
    <3> QED
      BY <3>1, <3>2, <1>3
  <2> DEFINE pair == <<EntityOutcome(T, es[k]), SubentitiesOutcome(T, es[k])>>
  <2>2. \A n \in 1..Len(pair) : pair[n] = "ok"
    <3>1. FirstFailure(pair) = "ok"
      BY <2>1
    <3> HIDE DEF pair
    <3> QED
      BY <3>1, AllConvert
  <2> QED
    BY <2>2
<1>4. \A k \in 1..Len(es) :
        [val |-> FromJson(T, es[k]), subs |-> Subentities(T, es[k])] \in Entity(T)
  <2> TAKE k \in 1..Len(es)
  <2>1. FromJson(T, es[k]) \in [InsertColumns(T) -> Value]
    BY <1>2, <1>3, FromJsonType
  <2>2. \A link \in Links[T] :
          Has(es[k], link) => IsArrayOf("modules", es[k].members[link])
    <3>1. k \in DOMAIN es
      BY <1>1, ElementsType DEF IsBody
    <3> QED
      BY <1>1, <3>1 DEF IsBody
  <2>3. Subentities(T, es[k]) \in Seq([InsertColumns("modules") -> Value])
    BY <1>3, <2>2, SubentitiesType
  <2> QED
    BY <2>1, <2>3 DEF Entity
<1> HIDE DEF es
<1>5. Deserialize(T, d) =
        [k \in 1..Len(es) |-> [val  |-> FromJson(T, es[k]),
                               subs |-> Subentities(T, es[k])]]
  BY DEF Deserialize, es
<1>6. Deserialize(T, d) \in [1..Len(es) -> Entity(T)]
  BY <1>4, <1>5
<1> QED
  BY <1>2, <1>6, SeqDef
=============================================================================
