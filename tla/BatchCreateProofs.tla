-------------------------- MODULE BatchCreateProofs --------------------------
(***************************************************************************)
(* BatchCreate keeps its promise, for any requests, bodies and keys.       *)
(***************************************************************************)
EXTENDS BatchCreate, TLAPS

\* The variables are functions of the requests, and rows belong to requests
\* that were asked: Ask, which gives a request its body, finds none.  A row
\* may come late only for a request that failed or was cut off.
TypeInv ==
  /\ DOMAIN body = Request
  /\ outcome \in [Request -> {"unasked", "waiting", "created", "failed", "cut"}]
  /\ \A x \in made : x.req \in Request /\ outcome[x.req] # "unasked"
  /\ \A r \in late : r \in Request /\ outcome[r] \in {"failed", "cut"}

OwnKeys ==
  \A x, y \in made : x.key = y.key \/ (x.req = y.req /\ x.place = y.place) => x = y

PlacedAfter(r, x) ==
  /\ x.place \in body[r]
  /\ \A q \in body[r] : Before(q, x.place) => q \in Done(r)
  /\ x.place[2] > 0 => \E y \in MadeFor(r) :
                         y.place = <<x.place[1], 0>> /\ y.key = x.under

Ordered == \A r \in Request : \A x \in MadeFor(r) : PlacedAfter(r, x)

CreatedDone == \A r \in Request : outcome[r] = "created" => Done(r) = body[r]

PInv == TypeInv /\ OwnKeys /\ Ordered /\ CreatedDone

\* The inductive invariant contains the promise.
LEMMA PInvPromise == PInv => Promise
  BY DEF PInv, OwnKeys, Ordered, CreatedDone, PlacedAfter, Promise

\* At the start nothing was asked, so nothing was made or told.
LEMMA PInvInit == Init => PInv
  BY DEF Init, PInv, TypeInv, OwnKeys, Ordered, CreatedDone, MadeFor

\* A request without rows may be given a body.
LEMMA AskStep ==
  ASSUME PInv, NEW r \in Request, Ask(r)
  PROVE  PInv'
<1>1. /\ outcome[r] = "unasked" /\ made' = made /\ late' = late
      /\ outcome' = [outcome EXCEPT ![r] = "waiting"]
      /\ \E b \in Bodies : body' = [body EXCEPT ![r] = b]
  BY DEF Ask
<1>2. TypeInv'
  BY <1>1 DEF PInv, TypeInv
<1>3. OwnKeys'
  BY <1>1 DEF PInv, OwnKeys
<1>4. \A q \in Request : MadeFor(q)' = MadeFor(q) /\ Done(q)' = Done(q)
  BY <1>1 DEF MadeFor, Done
<1>5. MadeFor(r) = {}
  BY <1>1 DEF PInv, TypeInv, MadeFor
<1>6. Ordered'
  <2> SUFFICES ASSUME NEW q \in Request, NEW x \in MadeFor(q)'
               PROVE  PlacedAfter(q, x)'
    BY DEF Ordered
  <2>1. q # r /\ x \in MadeFor(q)
    BY <1>4, <1>5
  <2>2. body'[q] = body[q] /\ PlacedAfter(q, x)
    BY <2>1, <1>1 DEF PInv, TypeInv, Ordered
  <2> QED
    BY <1>4, <2>2 DEF PlacedAfter
<1>7. CreatedDone'
  <2> SUFFICES ASSUME NEW q \in Request, outcome'[q] = "created"
               PROVE  Done(q)' = body'[q]
    BY DEF CreatedDone
  <2>1. q # r
    BY <1>1 DEF PInv, TypeInv
  <2> QED
    BY <2>1, <1>1, <1>4 DEF PInv, TypeInv, CreatedDone
<1> QED
  BY <1>2, <1>3, <1>6, <1>7 DEF PInv

\* The row made is the next one of its body, under a key of its own.
LEMMA MakeStep ==
  ASSUME PInv, NEW r \in Request, NEW p \in body[r], Make(r, p)
  PROVE  PInv'
<1>1. PICK k \in Key \ {x.key : x \in made}, u \in Under(r, p) :
        made' = made \cup {[req |-> r, place |-> p, key |-> k, under |-> u]}
  BY DEF Make
<1> DEFINE z == [req |-> r, place |-> p, key |-> k, under |-> u]
<1>2. /\ outcome[r] = "waiting" \/ r \in late
      /\ p \notin Done(r) /\ late' = late \ {r}
      /\ \A q \in body[r] : Before(q, p) => q \in Done(r)
      /\ \A x \in made : x.key # k
      /\ UNCHANGED <<body, outcome>>
  BY <1>1 DEF Make
<1>3. made' = made \cup {z} /\ z.req = r /\ z.place = p /\ z.key = k /\ z.under = u
  BY <1>1
<1> HIDE DEF z
<1>4. TypeInv'
  BY <1>2, <1>3 DEF PInv, TypeInv
<1>5. OwnKeys'
  <2>1. \A x \in made : x.req = r => x.place # p
    BY <1>2 DEF Done, MadeFor
  <2> QED
    BY <2>1, <1>2, <1>3 DEF PInv, OwnKeys
<1>6. /\ \A q \in Request : MadeFor(q) \subseteq MadeFor(q)' /\ Done(q) \subseteq Done(q)'
      /\ \A q \in Request : q # r => MadeFor(q)' = MadeFor(q) /\ Done(q)' = Done(q)
      /\ MadeFor(r)' = MadeFor(r) \cup {z}
  BY <1>3 DEF MadeFor, Done
<1>7. PlacedAfter(r, z)'
  <2>1. p[2] > 0 => \E y \in MadeFor(r) : y.place = <<p[1], 0>> /\ y.key = u
    <3> SUFFICES ASSUME p[2] > 0 PROVE u \in {x.key : x \in {y \in MadeFor(r) : y.place = <<p[1], 0>>}}
      OBVIOUS
    <3>1. p[2] # 0
      OBVIOUS
    <3> QED
      BY <3>1, <1>1 DEF Under
  <2> QED
    BY <2>1, <1>2, <1>3, <1>6 DEF PlacedAfter
<1>8. Ordered'
  <2> SUFFICES ASSUME NEW q \in Request, NEW x \in MadeFor(q)'
               PROVE  PlacedAfter(q, x)'
    BY DEF Ordered
  <2>1. CASE x = z
    BY <2>1, <1>3, <1>7 DEF MadeFor
  <2>2. CASE x # z
    <3>1. x \in MadeFor(q) /\ PlacedAfter(q, x)
      BY <2>2, <1>6 DEF PInv, Ordered
    <3> QED
      BY <3>1, <1>2, <1>6 DEF PlacedAfter
  <2> QED
    BY <2>1, <2>2
<1>9. CreatedDone'
  <2>1. outcome[r] # "created"
    BY <1>2 DEF PInv, TypeInv
  <2> QED
    BY <1>2, <1>6, <2>1 DEF PInv, CreatedDone
<1> QED
  BY <1>4, <1>5, <1>8, <1>9 DEF PInv

\* What ends a request makes nothing and takes nothing back.
LEMMA EndStep ==
  ASSUME PInv, NEW R \in SUBSET Request, NEW result \in {"created", "failed", "cut"},
         UNCHANGED <<body, made>>,
         \A r \in R : outcome[r] = "waiting" /\ (result = "created" => Done(r) = body[r]),
         outcome' = [r \in Request |-> IF r \in R THEN result ELSE outcome[r]],
         \A r \in late' : r \in late \/ (r \in R /\ result # "created")
  PROVE  PInv'
<1>1. TypeInv'
  BY DEF PInv, TypeInv
<1>2. OwnKeys'
  BY DEF PInv, OwnKeys
<1>3. \A q \in Request : MadeFor(q)' = MadeFor(q) /\ Done(q)' = Done(q)
  BY DEF MadeFor, Done
<1>4. Ordered'
  <2> SUFFICES ASSUME NEW q \in Request, NEW x \in MadeFor(q)'
               PROVE  PlacedAfter(q, x)'
    BY DEF Ordered
  <2>1. PlacedAfter(q, x)
    BY <1>3 DEF PInv, Ordered
  <2> QED
    BY <1>3, <2>1 DEF PlacedAfter
<1>5. CreatedDone'
  BY <1>3 DEF PInv, CreatedDone
<1> QED
  BY <1>1, <1>2, <1>4, <1>5 DEF PInv

\* A row that does not come changes nothing that is promised.
LEMMA ForgoStep ==
  ASSUME PInv, NEW r \in Request, Forgo(r)
  PROVE  PInv'
  BY DEF Forgo, PInv, TypeInv, OwnKeys, Ordered, CreatedDone, PlacedAfter,
         MadeFor, Done

\* The actions of BatchCreate, each by its lemma.
LEMMA PInvNext == PInv /\ [Next]_vars => PInv'
<1> SUFFICES ASSUME PInv, [Next]_vars PROVE PInv'
  OBVIOUS
<1>1. ASSUME NEW r \in Request, Ask(r) PROVE PInv'
  BY <1>1, AskStep
<1>2. ASSUME NEW r \in Request, NEW p \in body[r], Make(r, p)
      PROVE  PInv'
  BY <1>2, MakeStep
<1>3. ASSUME NEW r \in Request, NEW result \in {"created", "failed"}, End(r, result)
      PROVE  PInv'
  <2>1. outcome' = [q \in Request |-> IF q \in {r} THEN result ELSE outcome[q]]
    BY <1>3 DEF End, PInv, TypeInv
  <2>2. /\ {r} \in SUBSET Request /\ result \in {"created", "failed", "cut"}
        /\ UNCHANGED <<body, made>>
        /\ \A q \in {r} : outcome[q] = "waiting"
                       /\ (result = "created" => Done(q) = body[q])
        /\ \A q \in late' : q \in late \/ (q \in {r} /\ result # "created")
    BY <1>3 DEF End
  <2> HIDE DEF PInv, Done
  <2> QED
    BY <2>1, <2>2, EndStep
<1>4. ASSUME NEW R \in SUBSET Request, CutOff(R) PROVE PInv'
  <2>1. /\ UNCHANGED <<body, made>> /\ \A r \in R : outcome[r] = "waiting"
        /\ outcome' = [r \in Request |-> IF r \in R THEN "cut" ELSE outcome[r]]
        /\ \A r \in late' : r \in late \/ r \in R
    BY <1>4 DEF CutOff
  <2> HIDE DEF PInv, Done
  <2> QED
    BY <2>1, EndStep
<1>5. CASE UNCHANGED vars
  BY <1>5 DEF vars, PInv, TypeInv, OwnKeys, Ordered, CreatedDone, PlacedAfter,
              MadeFor, Done
<1>6. ASSUME NEW r \in Request, Forgo(r) PROVE PInv'
  BY <1>6, ForgoStep
<1> QED
  BY <1>1, <1>2, <1>3, <1>4, <1>5, <1>6 DEF Next

\* Whoever implements BatchCreate makes bodies from their beginning, each place
\* once, each row under a key of its own and a subentity under the key of its
\* entity, and tells "created" only of what is there completely.
THEOREM PromiseKept == Spec => []Promise
<1>1. Spec => []PInv
  BY PInvInit, PInvNext, PTL DEF Spec
<1> QED
  BY <1>1, PInvPromise, PTL
=============================================================================
