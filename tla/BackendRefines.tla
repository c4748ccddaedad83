--------------------------- MODULE BackendRefines ---------------------------
(***************************************************************************)
(* BackendApp implements BatchCreate, the promise of its POST handlers,    *)
(* and Lifecycle, what a process is to the others.                         *)
(***************************************************************************)
EXTENDS BackendApp

\* The places of the body of a request; a body that is not read has none.
Places(a) ==
  IF IsCreate(a) /\ BodyOutcome(a) = "ok"
  THEN UNION {{<<i, j>> : j \in 0..Len(Batch(a)[i].subs)} : i \in 1..Len(Batch(a))}
  ELSE {}

\* What a request for creation has come to.
OutcomeOf(r) ==
  IF ~IsCreate(ask[r])          THEN "unasked"
  ELSE IF phase[r] = "reset"    THEN "cut"
  ELSE IF phase[r] # "answered" THEN "waiting"
  ELSE IF answer[r].code = 201  THEN "created" ELSE "failed"

\* A row as BatchCreate knows it.
MadeRow(x) ==
  [req   |-> x.req, place |-> <<x.i, x.j>>, key |-> <<x.tbl, x.id>>,
   under |-> IF x.j = 0 THEN NULL ELSE <<"courses", x.val["course_id"]>>]

Creation ==
  INSTANCE BatchCreate WITH
    Bodies  <- {Places(a) : a \in Offers},
    Key     <- Tables \X (1..MaxInt),
    NoKey   <- NULL,
    body    <- [r \in Request |-> Places(ask[r])],
    outcome <- [r \in Request |-> OutcomeOf(r)],
    made    <- {MadeRow(x) : x \in UNION {StoredFor(r) : r \in Request}},
    late    <- {r \in Request : /\ OutcomeOf(r) \in {"failed", "cut"}
                               /\ \E m \in adrift : m.req = r}

\* Whatever crashes, losses and refusals do in between, requests for creation
\* are served as BatchCreate says: create_entities, its recursion into the
\* modules of a course and the answers of the three handlers implement it.  A
\* statement the server runs when nobody waits for it any more makes at most
\* the one row its request was at.
CreationSpec == Creation!Spec

Process ==
  INSTANCE Lifecycle WITH
    up      <- [s \in Server |-> pc[s] # "down"],
    session <- conn

\* A process has the connection it was constructed with until it ends: nothing
\* in DbConnection opens one again.
ProcessSpec == Process!Spec
=============================================================================
