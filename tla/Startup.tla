------------------------------- MODULE Startup -------------------------------
(***************************************************************************)
(* How a backend process comes to serve, and how it ends                   *)
(* (src/backend/main.cpp, application.cpp, the constructors of BackendApp  *)
(* and DbConnection, BackendApp::run).                                     *)
(*                                                                         *)
(* The constructors read their settings in a fixed order: the command      *)
(* line, the configuration file, the levels of the loggers, the settings   *)
(* of the database, then they connect, and only then the settings of the   *)
(* server.  main catches nothing, so the first setting that cannot be used *)
(* ends the process.  Meanwhile the file on disk may be edited and other   *)
(* processes take ports.                                                   *)
(***************************************************************************)
EXTENDS Integers

CONSTANTS
  Server,        \* the processes
  CommandLines,  \* [accepted, config : BOOLEAN]
  Files,         \* what the configuration file may hold
  NoFile,        \* no file, or one that is not JSON
  BAD,           \* a setting that is absent or of another type, and a level
                 \*   of a logger that is no number
  None,          \* stands for no database and no port
  Ports          \* the number of ports (2^16)

VARIABLES
  file,      \* the configuration file on disk
  stage,     \* per process: how far it is
  args,      \*   its command line
  conf,      \*   the settings it read
  target,    \*   the database it connected to
  session,   \*   its connection: "closed", "ok" or "bad"
  port,      \*   the port it listens at
  seen       \*   history: what was on disk since it was started

vars == <<file, stage, args, conf, target, session, port, seen>>

Stages ==
  {"down", "options", "file", "loggers", "database", "connect", "server",
   "bind", "serving", "closing"}

\* The settings of a file, in groups that are used together; "loggers" are the
\* levels it gives to loggers, if it gives any.
Setting == {"loggers", "engine", "database", "dbport", "port", "version", "dump_level"}

ASSUME StartupAssumption ==
  /\ Ports \in Nat \ {0} /\ None \notin Int /\ BAD # None /\ BAD \notin Int
  /\ \A f \in Files \ {NoFile} :
       /\ DOMAIN f = Setting
       /\ {f["port"], f["dbport"]} \cup f["loggers"] \subseteq Int \cup {BAD}
  /\ CommandLines \subseteq [accepted : BOOLEAN, config : BOOLEAN]

NoArgs == [accepted |-> FALSE, config |-> FALSE]

-----------------------------------------------------------------------------
\* config_get throws for a setting that is absent or of another type.
Reads(s, settings) == \A x \in settings : conf[s][x] # BAD

\* config_get<std::uint16_t> of a larger number.
UInt16(n) == n % Ports

\* What prepare_db_config makes of the settings of file f.
DbOf(f) == <<f["database"], UInt16(f["dbport"])>>

Advance(s, from, to) ==
  stage[s] = from /\ stage' = [stage EXCEPT ![s] = to]

\* A step that only gets further.
Passes(s, from, to) ==
  Advance(s, from, to) /\ UNCHANGED <<file, args, conf, target, session, port, seen>>

\* The process is gone, and with it its connection and its port.
Ends(s) ==
  /\ stage' = [stage EXCEPT ![s] = "down"]
  /\ conf' = [conf EXCEPT ![s] = NoFile]
  /\ target' = [target EXCEPT ![s] = None]
  /\ session' = [session EXCEPT ![s] = "closed"]
  /\ port' = [port EXCEPT ![s] = None]
  /\ args' = [args EXCEPT ![s] = NoArgs]
  /\ seen' = [seen EXCEPT ![s] = {}]
  /\ UNCHANGED file

Execute(s, a) ==
  /\ Advance(s, "down", "options")
  /\ args' = [args EXCEPT ![s] = a]
  /\ seen' = [seen EXCEPT ![s] = {file}]
  /\ UNCHANGED <<file, conf, target, session, port>>

\* parse_command_line_options: an option that is unknown or has no proper
\* value, and a missing --config, which is required.  --help is only stored: a
\* process given it and --config goes on to serve.
OptionsFit(s) == args[s].accepted /\ args[s].config

ParseOptions(s) == Passes(s, "options", "file") /\ OptionsFit(s)

RejectOptions(s) == stage[s] = "options" /\ ~OptionsFit(s) /\ Ends(s)

ParseConfigFile(s) ==
  /\ Advance(s, "file", "loggers") /\ file # NoFile
  /\ conf' = [conf EXCEPT ![s] = file]
  /\ UNCHANGED <<file, args, target, session, port, seen>>

RejectConfigFile(s) == stage[s] = "file" /\ file = NoFile /\ Ends(s)

\* configure_logger runs through the levels there are.  A file that has no
\* "loggers" gives null, which has none, and the process goes on.
LoggersFit(s) == \A level \in conf[s]["loggers"] : level # BAD

ConfigureLogger(s) == Passes(s, "loggers", "database") /\ LoggersFit(s)

RejectLoggers(s) == stage[s] = "loggers" /\ ~LoggersFit(s) /\ Ends(s)

\* Mutant: a database engine that is not known is only logged.
DatabaseFitsAnyEngine(s) == Reads(s, {"engine", "database", "dbport"})

DatabaseFits(s) ==
  Reads(s, {"engine", "database", "dbport"}) /\ conf[s]["engine"] = "postgres"

PrepareDbConfig(s) == Passes(s, "database", "connect") /\ DatabaseFits(s)

RejectDatabase(s) == stage[s] = "database" /\ ~DatabaseFits(s) /\ Ends(s)

\* Mutant: the settings are read from disk again where they are used.
ConnectRereads(s) ==
  /\ Advance(s, "connect", "server")
  /\ \E status \in {"ok", "bad"} : session' = [session EXCEPT ![s] = status]
  /\ target' = [target EXCEPT ![s] = DbOf(IF file = NoFile THEN conf[s] ELSE file)]
  /\ UNCHANGED <<file, args, conf, port, seen>>

\* A failed connect is logged, and nothing else.
Connect(s) ==
  /\ Advance(s, "connect", "server")
  /\ \E status \in {"ok", "bad"} : session' = [session EXCEPT ![s] = status]
  /\ target' = [target EXCEPT ![s] = DbOf(conf[s])]
  /\ UNCHANGED <<file, args, conf, port, seen>>

ServerFits(s) == Reads(s, {"port", "version", "dump_level"})

ReadServer(s) == Passes(s, "server", "bind") /\ ServerFits(s)

RejectServer(s) == stage[s] = "server" /\ ~ServerFits(s) /\ Ends(s)

\* Port 0 asks for any port.
Wanted(s) ==
  IF UInt16(conf[s]["port"]) = 0 THEN 1..(Ports - 1) ELSE {UInt16(conf[s]["port"])}

Free == {p \in 1..(Ports - 1) : \A s \in Server : port[s] # p}

\* run() adds the routes and listens, or throws because it cannot.
Run(s) ==
  /\ Advance(s, "bind", "serving")
  /\ \E p \in Wanted(s) \cap Free : port' = [port EXCEPT ![s] = p]
  /\ UNCHANGED <<file, args, conf, target, session, seen>>

\* Mutant: a process that cannot listen tries again.
RunRetries(s) == Passes(s, "bind", "server")

\* The port is taken, by a backend or by some other program, or not allowed.
RunFails(s) == stage[s] = "bind" /\ Ends(s)

\* Mutant: the connection is closed before the server stops listening.
StopClosesFirst(s) ==
  /\ stage[s] = "serving"
  /\ session' = [session EXCEPT ![s] = "closed"]
  /\ UNCHANGED <<file, stage, args, conf, target, port, seen>>

\* A signal makes run() return; the port is free.
Stop(s) ==
  /\ Advance(s, "serving", "closing")
  /\ port' = [port EXCEPT ![s] = None]
  /\ UNCHANGED <<file, args, conf, target, session, seen>>

\* ~DbConnection: logger_ is gone when the deleter of conn_ logs, which is
\* undefined; whether it goes on to PQfinish or not, the process is at its end.
Destroy(s) == stage[s] = "closing" /\ Ends(s)

-----------------------------------------------------------------------------
Lose(s) ==
  /\ session[s] = "ok"
  /\ session' = [session EXCEPT ![s] = "bad"]
  /\ UNCHANGED <<file, stage, args, conf, target, port, seen>>

Kill(s) == stage[s] # "down" /\ Ends(s)

Edit(f) ==
  /\ f # file /\ file' = f
  /\ seen' = [s \in Server |-> IF stage[s] = "down" THEN seen[s] ELSE seen[s] \cup {f}]
  /\ UNCHANGED <<stage, args, conf, target, session, port>>

Init ==
  /\ file \in Files
  /\ stage = [s \in Server |-> "down"]
  /\ args = [s \in Server |-> NoArgs]
  /\ conf = [s \in Server |-> NoFile]
  /\ target = [s \in Server |-> None]
  /\ session = [s \in Server |-> "closed"]
  /\ port = [s \in Server |-> None]
  /\ seen = [s \in Server |-> {}]

\* What a process does by itself on its way to serving, or to its end.
Step(s) ==
  \/ ParseOptions(s) \/ RejectOptions(s)
  \/ ParseConfigFile(s) \/ RejectConfigFile(s)
  \/ ConfigureLogger(s) \/ RejectLoggers(s)
  \/ PrepareDbConfig(s) \/ RejectDatabase(s)
  \/ Connect(s)
  \/ ReadServer(s) \/ RejectServer(s)
  \/ Run(s) \/ RunFails(s)
  \/ Destroy(s)

Next ==
  \/ \E s \in Server : Step(s) \/ Stop(s) \/ Lose(s) \/ Kill(s)
  \/ \E s \in Server, a \in CommandLines : Execute(s, a)
  \/ \E f \in Files : Edit(f)

Spec == Init /\ [][Next]_vars

\* A process that runs goes on; nothing is assumed of those who start, stop
\* and kill processes and edit the file.
FairSpec == Spec /\ \A s \in Server : WF_vars(Step(s))

-----------------------------------------------------------------------------
\* Every variable has its type; a process that is down holds nothing.
TypeOK ==
  /\ file \in Files
  /\ stage \in [Server -> Stages]
  /\ args \in [Server -> CommandLines \cup {NoArgs}]
  /\ conf \in [Server -> Files \cup {NoFile}]
  /\ session \in [Server -> {"closed", "ok", "bad"}]
  /\ port \in [Server -> 1..(Ports - 1) \cup {None}]
  /\ DOMAIN target = Server /\ seen \in [Server -> SUBSET Files]
  /\ \A s \in Server : stage[s] = "down" =>
       session[s] = "closed" /\ port[s] = None /\ target[s] = None

\* The stages in which a process has got past its attempt to connect.
Connected == {"server", "bind", "serving", "closing"}

\* The settings of f that are read before a process connects are sound.
ConnectableBy(f) ==
  /\ f # NoFile /\ BAD \notin f["loggers"]
  /\ \A x \in {"engine", "database", "dbport"} : f[x] # BAD
  /\ f["engine"] = "postgres"

ServableBy(f) ==
  ConnectableBy(f) /\ \A x \in {"port", "version", "dump_level"} : f[x] # BAD

\* However the file is edited meanwhile, a process that has connected did so to
\* the database of one version of the file that was sound so far, and a process
\* that serves uses database and port of one version that was wholly sound.
SettingsOfOneFile ==
  \A s \in Server :
    /\ session[s] # "closed" =>
         \E f \in seen[s] : ConnectableBy(f) /\ target[s] = DbOf(f)
    /\ stage[s] = "serving" =>
         \E f \in seen[s] :
           /\ ServableBy(f) /\ target[s] = DbOf(f)
           /\ UInt16(f["port"]) \in {0, port[s]}

\* What a process has read so far is of one file that was there since it was
\* started, and each setting it has got past was sound.
ProcessAt(s) ==
  /\ stage[s] # "down" => file \in seen[s]
  /\ stage[s] \in {"loggers", "database", "connect"} \cup Connected =>
       conf[s] \in seen[s] \ {NoFile}
  /\ stage[s] \in {"database", "connect"} => BAD \notin conf[s]["loggers"]
  /\ stage[s] \in {"connect"} \cup Connected => ConnectableBy(conf[s])
  /\ session[s] # "closed" <=> stage[s] \in Connected
  /\ stage[s] \in Connected => target[s] = DbOf(conf[s])
  /\ stage[s] \in Connected \ {"server"} => ServableBy(conf[s])
  /\ stage[s] = "serving" => UInt16(conf[s]["port"]) \in {0, port[s]}

IInv == TypeOK /\ \A s \in Server : ProcessAt(s)

\* A process that was started gets to serve or ends; it does not hang or loop,
\* also when it never gets its port.
StartEnds ==
  \A s \in Server : stage[s] = "options" ~> stage[s] \in {"serving", "down"}

Process ==
  INSTANCE Lifecycle WITH
    up      <- [s \in Server |-> stage[s] = "serving"],
    session <- [s \in Server |-> IF stage[s] = "serving" THEN session[s] ELSE "closed"]

\* To the others a process is what BackendApp takes it for: it serves with the
\* one connection it came with, which once lost is lost, until it ends.
ProcessSpec == Process!Spec
=============================================================================
