----------------------------- MODULE BatchCreate -----------------------------
(***************************************************************************)
(* What POST /users, /courses and /courses/<int> promise, without          *)
(* processes, connections, statements or cursors (create_entities,         *)
(* src/backend/backend_app.h).                                             *)
(*                                                                         *)
(* A body is a set of places <<i, j>>: <<i, 0>> is its i-th entity and     *)
(* <<i, j>> the j-th subentity of that.  Its rows are made one at a time,  *)
(* in the order of the places, each under a key of its own, a subentity    *)
(* under the key of its entity.  Making may end at any moment, but         *)
(* "created" is told only when nothing is missing; nothing is taken back.  *)
(* Of a request that failed or was cut off one more row may appear later.  *)
(***************************************************************************)
EXTENDS Naturals

CONSTANTS
  Request,
  Bodies,    \* the bodies requests may have
  Key,       \* the keys rows may get
  NoKey      \* stands for "under no other row"

VARIABLES
  body,      \* per request, the places of its body
  outcome,   \* per request: "unasked", "waiting", "created", "failed", "cut"
  made,      \* the rows made: [req, place, key, under]
  late       \* the requests that have ended and may get one more row

vars == <<body, outcome, made, late>>

MadeFor(r) == {x \in made : x.req = r}

Done(r) == {x.place : x \in MadeFor(r)}

Before(p, q) == p[1] < q[1] \/ (p[1] = q[1] /\ p[2] < q[2])

-----------------------------------------------------------------------------
Ask(r) ==
  /\ outcome[r] = "unasked"
  /\ outcome' = [outcome EXCEPT ![r] = "waiting"]
  /\ \E b \in Bodies : body' = [body EXCEPT ![r] = b]
  /\ UNCHANGED <<made, late>>

\* What the row at place p has to be under.
Under(r, p) ==
  IF p[2] = 0 THEN {NoKey}
              ELSE {x.key : x \in {y \in MadeFor(r) : y.place = <<p[1], 0>>}}

Make(r, p) ==
  /\ outcome[r] = "waiting" \/ r \in late
  /\ p \notin Done(r)
  /\ \A q \in body[r] : Before(q, p) => q \in Done(r)
  /\ late' = late \ {r}
  /\ UNCHANGED <<body, outcome>>
  /\ \E k \in Key \ {x.key : x \in made}, u \in Under(r, p) :
       made' = made \cup {[req |-> r, place |-> p, key |-> k, under |-> u]}

\* The row that was still possible will not come.
Forgo(r) ==
  /\ r \in late /\ late' = late \ {r}
  /\ UNCHANGED <<body, outcome, made>>

End(r, result) ==
  /\ outcome[r] = "waiting"
  /\ outcome' = [outcome EXCEPT ![r] = result]
  /\ IF result = "created" THEN Done(r) = body[r] /\ UNCHANGED late
                           ELSE late' \in {late, late \cup {r}}
  /\ UNCHANGED <<body, made>>

\* Requests may be cut off together, finished or not.
CutOff(cut) ==
  /\ cut # {} /\ \A r \in cut : outcome[r] = "waiting"
  /\ outcome' = [r \in Request |-> IF r \in cut THEN "cut" ELSE outcome[r]]
  /\ \E rest \in SUBSET cut : late' = late \cup rest
  /\ UNCHANGED <<body, made>>

-----------------------------------------------------------------------------
Init ==
  /\ body = [r \in Request |-> {}]
  /\ outcome = [r \in Request |-> "unasked"]
  /\ made = {}
  /\ late = {}

Next ==
  \/ \E r \in Request :
       \/ Ask(r)
       \/ \E p \in body[r] : Make(r, p)
       \/ Forgo(r)
       \/ \E result \in {"created", "failed"} : End(r, result)
  \/ \E cut \in SUBSET Request : CutOff(cut)

Spec == Init /\ [][Next]_vars

-----------------------------------------------------------------------------
(***************************************************************************)
(* What follows for whoever implements this.                               *)
(***************************************************************************)

\* A body is made from its beginning, each place once, each row under a key
\* of its own and under the row of its entity; what is told to be created is
\* there completely.
Promise ==
  /\ \A x, y \in made : x.key = y.key \/ (x.req = y.req /\ x.place = y.place) => x = y
  /\ \A r \in Request : \A x \in MadeFor(r) :
       /\ x.place \in body[r]
       /\ \A q \in body[r] : Before(q, x.place) => q \in Done(r)
       /\ x.place[2] > 0 => \E y \in MadeFor(r) :
                              y.place = <<x.place[1], 0>> /\ y.key = x.under
  /\ \A r \in Request : outcome[r] = "created" => Done(r) = body[r]
=============================================================================
