------------------------------ MODULE Lifecycle ------------------------------
(***************************************************************************)
(* A backend process as the rest of the system sees it: it serves or it    *)
(* does not, and while it serves it has the database session it came with. *)
(* A session that is lost, or never was, does not come back before the     *)
(* process is started anew.                                                *)
(***************************************************************************)
CONSTANT Server

VARIABLES
  up,        \* per process: does it take requests?
  session    \* per process: "closed", "ok" or "bad"

vars == <<up, session>>

Start(s) ==
  /\ ~up[s]
  /\ up' = [up EXCEPT ![s] = TRUE]
  /\ \E status \in {"ok", "bad"} : session' = [session EXCEPT ![s] = status]

Lose(s) ==
  /\ up[s] /\ session[s] = "ok"
  /\ session' = [session EXCEPT ![s] = "bad"]
  /\ UNCHANGED up

End(s) ==
  /\ up[s]
  /\ up' = [up EXCEPT ![s] = FALSE]
  /\ session' = [session EXCEPT ![s] = "closed"]

Init ==
  /\ up = [s \in Server |-> FALSE]
  /\ session = [s \in Server |-> "closed"]

Next == \E s \in Server : Start(s) \/ Lose(s) \/ End(s)

Spec == Init /\ [][Next]_vars
=============================================================================
