------------------------------ MODULE MCStartup ------------------------------
(***************************************************************************)
(* A small instance of Startup.  The broken files have one setting wrong;  *)
(* three are sound, of which two have ports that are the same in 16 bits   *)
(* (here: modulo 4) and one leaves the port open and has no loggers.       *)
(***************************************************************************)
EXTENDS Startup

Sound ==
  [loggers |-> {1, 2}, engine |-> "postgres", database |-> "db1", dbport |-> 2,
   port |-> 3, version |-> "v1", dump_level |-> "1"]

Moved == [Sound EXCEPT !.database = "db2", !.port = 7]
AnyPort == [Sound EXCEPT !.port = 4, !.loggers = {}]

Broken ==
  {[Sound EXCEPT !.loggers = {1, BAD}], [Sound EXCEPT !.engine = "sqlite"],
   [Sound EXCEPT !.database = BAD], [Sound EXCEPT !.dump_level = BAD]}

MCFiles == {NoFile, Sound, Moved, AnyPort} \cup Broken

Plain == [accepted |-> TRUE, config |-> TRUE]
MCCommandLines ==
  {Plain, [Plain EXCEPT !.accepted = FALSE], [Plain EXCEPT !.config = FALSE]}
=============================================================================
