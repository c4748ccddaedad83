---------------------------- MODULE MCRowMapping ----------------------------
(***************************************************************************)
(* A small instance of RowMapping: the columns in the order of db.pgsql    *)
(* and in another, users with and without student_id, a course and modules *)
(* of it, and a string with a NUL character.                               *)
(***************************************************************************)
EXTENDS RowMapping

CONSTANTS
  empty, ann, bob, cut,                   \* cut is ann, NUL, and something more
  d0, d1, d2, d3, minus1, minus2, minus3, minus4  \* the texts of numbers

MCDecimal ==
  [n \in Int32s |->
     IF n >= 0 THEN <<d0, d1, d2, d3>>[n + 1] ELSE <<minus1, minus2, minus3, minus4>>[-n]]

MCStr == {empty, ann, bob, cut, d0, d1, d2, d3, minus1, minus2, minus3, minus4}
MCCStr == [x \in MCStr |-> IF x = cut THEN ann ELSE x]

Object(members) == [type |-> "object", members |-> members]

UserDoc(name, other) ==
  Object([firstname |-> name, lastname |-> other, username |-> name,
          email |-> other, role |-> other])

MCBodies ==
  {[tbl |-> "users", doc |-> UserDoc(cut, bob), under |-> NULL],
   [tbl |-> "users", under |-> NULL,
    doc |-> Object([firstname |-> bob, lastname |-> ann, username |-> ann,
                    student_id |-> bob, email |-> ann, role |-> bob])],
   [tbl |-> "courses", under |-> NULL,
    doc |-> Object([title |-> ann, owner_id |-> 9])],
   [tbl |-> "modules", under |-> 1,
    doc |-> Object([title |-> bob, description |-> ann, order |-> 1])],
   [tbl |-> "modules", under |-> NULL,
    doc |-> Object([title |-> cut, description |-> NULL, course_id |-> 3])]}

MCLayouts ==
  [users   |-> {Columns["users"],
                <<"role", "email", "username", "id", "student_id", "lastname", "firstname">>},
   courses |-> {Columns["courses"]},
   modules |-> {<<"id", "course_id", "title", "description", "order">>,
                <<"order", "description", "title", "course_id", "id">>}]
=============================================================================
