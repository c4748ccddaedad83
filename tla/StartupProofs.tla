---------------------------- MODULE StartupProofs ----------------------------
(***************************************************************************)
(* Startup: the inductive invariant, what follows from it, and that        *)
(* Startup implements Lifecycle.                                           *)
(***************************************************************************)
EXTENDS Startup, TLAPS

\* All processes are down at the start.
LEMMA InitIInv == Init => IInv
  BY StartupAssumption
     DEF Init, IInv, TypeOK, Stages, ProcessAt, Connected, NoArgs

\* An end undoes everything the process held.
LEMMA EndsStep ==
  ASSUME IInv, NEW s \in Server, Ends(s)
  PROVE  IInv'
<1>1. TypeOK'
  BY DEF Ends, IInv, TypeOK, Stages, NoArgs
<1>2. ASSUME NEW t \in Server PROVE ProcessAt(t)'
  <2>1. CASE t = s
    BY <2>1 DEF Ends, IInv, TypeOK, ProcessAt, Connected
  <2>2. CASE t # s
    <3>1. /\ stage'[t] = stage[t] /\ conf'[t] = conf[t] /\ target'[t] = target[t]
          /\ session'[t] = session[t] /\ port'[t] = port[t] /\ seen'[t] = seen[t]
          /\ file' = file
      BY <2>2 DEF Ends, IInv, TypeOK
    <3> QED
      BY <3>1 DEF IInv, ProcessAt
  <2> QED
    BY <2>1, <2>2
<1> QED
  BY <1>1, <1>2 DEF IInv

\* A process that gets further has read and checked what its next stage needs.
LEMMA PassesStep ==
  ASSUME IInv, NEW s \in Server,
         \/ ParseOptions(s) \/ ConfigureLogger(s) \/ PrepareDbConfig(s) \/ ReadServer(s)
  PROVE  IInv'
<1>1. PICK from \in {"options", "loggers", "database", "server"},
           to \in {"file", "database", "connect", "bind"} : Passes(s, from, to)
  BY DEF ParseOptions, ConfigureLogger, PrepareDbConfig, ReadServer
<1>2. /\ stage[s] = from /\ stage' = [stage EXCEPT ![s] = to]
      /\ UNCHANGED <<file, args, conf, target, session, port, seen>>
  BY <1>1 DEF Passes, Advance
<1>3. TypeOK'
  BY <1>2 DEF IInv, TypeOK, Stages
<1>4. ProcessAt(s)'
  <2>1. CASE ParseOptions(s)
    BY <2>1, <1>2 DEF ParseOptions, Passes, Advance, IInv, TypeOK, ProcessAt, Connected
  <2>2. CASE ConfigureLogger(s)
    BY <2>2, <1>2
       DEF ConfigureLogger, LoggersFit, Passes, Advance, IInv, TypeOK, ProcessAt, Connected
  <2>3. CASE PrepareDbConfig(s)
    BY <2>3, <1>2
       DEF PrepareDbConfig, DatabaseFits, ConnectableBy, Passes, Advance, Reads, IInv,
           TypeOK, ProcessAt, Connected
  <2>4. CASE ReadServer(s)
    BY <2>4, <1>2
       DEF ReadServer, ServerFits, ServableBy, Passes, Advance, Reads, IInv, TypeOK,
           ProcessAt, Connected
  <2> QED
    BY <2>1, <2>2, <2>3, <2>4
<1>5. ASSUME NEW t \in Server, t # s PROVE ProcessAt(t)'
  BY <1>2, <1>5 DEF IInv, TypeOK, ProcessAt
<1> QED
  BY <1>3, <1>4, <1>5 DEF IInv

\* A process that is started has seen the one version there is.
LEMMA ExecuteStep ==
  ASSUME IInv, NEW s \in Server, NEW a \in CommandLines, Execute(s, a)
  PROVE  IInv'
<1>1. TypeOK'
  BY DEF Execute, Advance, IInv, TypeOK, Stages
<1>2. ASSUME NEW t \in Server PROVE ProcessAt(t)'
  <2>1. CASE t = s
    BY <2>1 DEF Execute, Advance, IInv, TypeOK, ProcessAt, Connected
  <2>2. CASE t # s
    BY <2>2 DEF Execute, Advance, IInv, TypeOK, ProcessAt
  <2> QED
    BY <2>1, <2>2
<1> QED
  BY <1>1, <1>2 DEF IInv

\* What is read is the version there is, which has been seen.
LEMMA ParseConfigFileStep ==
  ASSUME IInv, NEW s \in Server, ParseConfigFile(s)
  PROVE  IInv'
<1>1. TypeOK'
  BY DEF ParseConfigFile, Advance, IInv, TypeOK, Stages
<1>2. ASSUME NEW t \in Server PROVE ProcessAt(t)'
  <2>1. CASE t = s
    BY <2>1 DEF ParseConfigFile, Advance, IInv, TypeOK, ProcessAt, Connected
  <2>2. CASE t # s
    BY <2>2 DEF ParseConfigFile, Advance, IInv, TypeOK, ProcessAt
  <2> QED
    BY <2>1, <2>2
<1> QED
  BY <1>1, <1>2 DEF IInv

\* A session is open from here on, working or broken.
LEMMA ConnectStep ==
  ASSUME IInv, NEW s \in Server, Connect(s)
  PROVE  IInv'
<1>1. TypeOK'
  BY DEF Connect, Advance, IInv, TypeOK, Stages
<1>2. ASSUME NEW t \in Server PROVE ProcessAt(t)'
  <2>1. CASE t = s
    <3>1. /\ stage[s] = "connect" /\ stage'[s] = "server" /\ conf'[s] = conf[s]
          /\ target'[s] = DbOf(conf[s]) /\ seen'[s] = seen[s] /\ file' = file
      BY DEF Connect, Advance, IInv, TypeOK
    <3>2. DbOf(conf[s])' = DbOf(conf[s])
      BY DEF Connect, DbOf
    <3> QED
      BY <2>1, <3>1, <3>2 DEF Connect, IInv, TypeOK, ProcessAt, Connected
  <2>2. CASE t # s
    BY <2>2 DEF Connect, Advance, IInv, TypeOK, ProcessAt
  <2> QED
    BY <2>1, <2>2
<1> QED
  BY <1>1, <1>2 DEF IInv

\* Only a port that was asked for, or any if 0 was, is listened at.
LEMMA RunStep ==
  ASSUME IInv, NEW s \in Server, Run(s)
  PROVE  IInv'
<1>1. PICK p \in Wanted(s) \cap Free : port' = [port EXCEPT ![s] = p]
  BY DEF Run
<1>2. TypeOK'
  BY <1>1 DEF Run, Advance, Free, IInv, TypeOK, Stages
<1>3. UInt16(conf[s]["port"]) \in {0, p}
  BY <1>1 DEF Wanted
<1>4. ASSUME NEW t \in Server PROVE ProcessAt(t)'
  <2>1. CASE t = s
    BY <2>1, <1>1, <1>3 DEF Run, Advance, IInv, TypeOK, ProcessAt, Connected
  <2>2. CASE t # s
    BY <2>2, <1>1 DEF Run, Advance, IInv, TypeOK, ProcessAt
  <2> QED
    BY <2>1, <2>2
<1> QED
  BY <1>2, <1>4 DEF IInv

\* A signal keeps the session; losing it leaves it open but broken.
LEMMA StopLoseStep ==
  ASSUME IInv, NEW s \in Server, Stop(s) \/ Lose(s)
  PROVE  IInv'
<1>1. CASE Stop(s)
  <2>1. TypeOK'
    BY <1>1 DEF Stop, Advance, IInv, TypeOK, Stages
  <2>2. \A t \in Server : ProcessAt(t)'
    BY <1>1 DEF Stop, Advance, IInv, TypeOK, ProcessAt, Connected
  <2> QED
    BY <2>1, <2>2 DEF IInv
<1>2. CASE Lose(s)
  <2>1. TypeOK'
    BY <1>2 DEF Lose, IInv, TypeOK
  <2>2. \A t \in Server : ProcessAt(t)'
    BY <1>2 DEF Lose, IInv, TypeOK, ProcessAt
  <2> QED
    BY <2>1, <2>2 DEF IInv
<1> QED
  BY <1>1, <1>2

\* The file may change under a process that has read it.
LEMMA EditStep ==
  ASSUME IInv, NEW f \in Files, Edit(f)
  PROVE  IInv'
<1>1. TypeOK'
  BY DEF Edit, IInv, TypeOK
<1>2. ASSUME NEW t \in Server PROVE ProcessAt(t)'
  <2>1. /\ file' = f /\ seen[t] \subseteq seen'[t]
        /\ stage[t] # "down" => f \in seen'[t]
        /\ stage' = stage /\ conf' = conf /\ target' = target
        /\ session' = session /\ port' = port
    BY DEF Edit
  <2>2. ProcessAt(t)
    BY DEF IInv
  <2>3. DbOf(conf[t])' = DbOf(conf[t]) /\ UInt16(conf[t]["port"])' = UInt16(conf[t]["port"])
    BY <2>1 DEF DbOf, UInt16
  <2> QED
    BY <2>1, <2>2, <2>3 DEF ProcessAt, ConnectableBy, ServableBy
<1> QED
  BY <1>1, <1>2 DEF IInv

\* The actions, each by its lemma.
LEMMA StepIInv == IInv /\ [Next]_vars => IInv'
<1> SUFFICES ASSUME IInv, [Next]_vars PROVE IInv'
  OBVIOUS
<1>1. ASSUME NEW s \in Server, Step(s) PROVE IInv'
  <2>1. CASE \/ RejectOptions(s) \/ RejectConfigFile(s) \/ RejectLoggers(s)
             \/ RejectDatabase(s) \/ RejectServer(s) \/ RunFails(s) \/ Destroy(s)
    BY <2>1, EndsStep DEF RejectOptions, RejectConfigFile, RejectLoggers,
                          RejectDatabase, RejectServer, RunFails, Destroy
  <2>2. CASE \/ ParseOptions(s) \/ ConfigureLogger(s) \/ PrepareDbConfig(s)
             \/ ReadServer(s)
    BY <2>2, PassesStep
  <2> QED
    BY <1>1, <2>1, <2>2, ParseConfigFileStep, ConnectStep, RunStep DEF Step
<1>2. ASSUME NEW s \in Server, Stop(s) \/ Lose(s) PROVE IInv'
  BY <1>2, StopLoseStep
<1>3. ASSUME NEW s \in Server, Kill(s) PROVE IInv'
  BY <1>3, EndsStep DEF Kill
<1>4. ASSUME NEW s \in Server, NEW a \in CommandLines, Execute(s, a) PROVE IInv'
  BY <1>4, ExecuteStep
<1>5. ASSUME NEW f \in Files, Edit(f) PROVE IInv'
  BY <1>5, EditStep
<1>6. CASE UNCHANGED vars
  BY <1>6 DEF vars, IInv, TypeOK, ProcessAt, Connected
<1> QED
  BY <1>1, <1>2, <1>3, <1>4, <1>5, <1>6 DEF Next

\* The invariant holds in every state of every behaviour.
THEOREM Invariance == Spec => []IInv
  BY InitIInv, StepIInv, PTL DEF Spec

\* However the file is edited meanwhile, a process that has connected, and one
\* that serves, uses the settings of one version of the file, which was sound as
\* far as it was read: the constructors read the file once.
THEOREM OneFile == Spec => []SettingsOfOneFile
<1>1. IInv => SettingsOfOneFile
  <2> SUFFICES ASSUME IInv, NEW s \in Server
               PROVE  /\ session[s] # "closed" =>
                           \E f \in seen[s] : ConnectableBy(f) /\ target[s] = DbOf(f)
                      /\ stage[s] = "serving" =>
                           \E f \in seen[s] :
                             /\ ServableBy(f) /\ target[s] = DbOf(f)
                             /\ UInt16(f["port"]) \in {0, port[s]}
    BY DEF SettingsOfOneFile
  <2> QED
    BY DEF IInv, ProcessAt, Connected
<1> QED
  BY <1>1, Invariance, PTL

-----------------------------------------------------------------------------
(* Startup implements Lifecycle. *)

Up == [s \in Server |-> stage[s] = "serving"]

Session == [s \in Server |-> IF stage[s] = "serving" THEN session[s] ELSE "closed"]

\* A step that leaves what others see of the processes is no step of Lifecycle.
LEMMA Stutters ==
  ASSUME Up' = Up, Session' = Session
  PROVE  [Process!Next]_(Process!vars)
  BY DEF Up, Session, Process!vars

\* A step of a process on its way is not seen.
LEMMA HiddenStep ==
  ASSUME IInv, NEW s \in Server, stage[s] # "serving",
         NEW x \in Stages \ {"serving"}, stage' = [stage EXCEPT ![s] = x],
         \A t \in Server \ {s} : session'[t] = session[t]
  PROVE  [Process!Next]_(Process!vars)
<1>1. \A t \in Server : stage'[t] = IF t = s THEN x ELSE stage[t]
  BY DEF IInv, TypeOK
<1>2. Up' = Up /\ Session' = Session
  BY <1>1 DEF Up, Session
<1> QED
  BY <1>2, Stutters

\* A process that serves no longer has ended.
LEMMA VisibleEnd ==
  ASSUME IInv, NEW s \in Server, stage[s] = "serving",
         NEW x \in Stages \ {"serving"}, stage' = [stage EXCEPT ![s] = x],
         \A t \in Server \ {s} : session'[t] = session[t]
  PROVE  [Process!Next]_(Process!vars)
<1>1. \A t \in Server : stage'[t] = IF t = s THEN x ELSE stage[t]
  BY DEF IInv, TypeOK
<1>2. Up[s] /\ Up' = [Up EXCEPT ![s] = FALSE]
  <2>1. x # "serving"
    OBVIOUS
  <2>2. \A t \in Server : (stage'[t] = "serving") <=> (t # s /\ stage[t] = "serving")
    BY <1>1, <2>1
  <2> QED
    BY <2>2 DEF Up
<1>3. Session' = [Session EXCEPT ![s] = "closed"]
  BY <1>1 DEF Session
<1>4. Process!End(s)
  BY <1>2, <1>3 DEF Process!End, Up, Session
<1> QED
  BY <1>4 DEF Process!Next

\* An end before serving is not seen, one while serving is an End.
LEMMA EndsMaps ==
  ASSUME IInv, NEW s \in Server, Ends(s)
  PROVE  [Process!Next]_(Process!vars)
<1>1. /\ stage' = [stage EXCEPT ![s] = "down"]
      /\ \A t \in Server \ {s} : session'[t] = session[t]
      /\ "down" \in Stages \ {"serving"}
  BY DEF Ends, IInv, TypeOK, Stages
<1> QED
  BY <1>1, HiddenStep, VisibleEnd

\* To serve is to Start, with the session there is.
LEMMA RunMaps ==
  ASSUME IInv, NEW s \in Server, Run(s)
  PROVE  [Process!Next]_(Process!vars)
<1>1. /\ stage[s] = "bind" /\ session' = session
      /\ \A t \in Server : stage'[t] = IF t = s THEN "serving" ELSE stage[t]
  BY DEF Run, Advance, IInv, TypeOK
<1>2. session[s] \in {"ok", "bad"}
  BY <1>1 DEF IInv, TypeOK, ProcessAt, Connected
<1>3. /\ ~Up[s] /\ Up' = [Up EXCEPT ![s] = TRUE]
      /\ Session' = [Session EXCEPT ![s] = session[s]]
  BY <1>1 DEF Up, Session
<1> QED
  BY <1>2, <1>3 DEF Process!Next, Process!Start, Up, Session

\* A session lost while serving is a Lose; before, it is not seen.
LEMMA LoseMaps ==
  ASSUME IInv, NEW s \in Server, Lose(s)
  PROVE  [Process!Next]_(Process!vars)
<1>1. /\ session[s] = "ok" /\ stage' = stage
      /\ \A t \in Server : session'[t] = IF t = s THEN "bad" ELSE session[t]
  BY DEF Lose, IInv, TypeOK
<1>2. Up' = Up
  BY <1>1 DEF Up
<1>3. CASE stage[s] = "serving"
  <2>1. /\ Up[s] /\ Session[s] = "ok"
        /\ Session' = [Session EXCEPT ![s] = "bad"]
    BY <1>1, <1>3 DEF Up, Session
  <2> QED
    BY <1>2, <2>1 DEF Process!Next, Process!Lose, Up, Session
<1>4. CASE stage[s] # "serving"
  <2>1. Session' = Session
    BY <1>1, <1>4 DEF Session
  <2> QED
    BY <1>2, <2>1, Stutters
<1> QED
  BY <1>3, <1>4

\* What a process does by itself starts it, ends it, or is not seen.
LEMMA StepMaps ==
  ASSUME IInv, NEW s \in Server, Step(s)
  PROVE  [Process!Next]_(Process!vars)
<1>1. CASE \/ RejectOptions(s) \/ RejectConfigFile(s) \/ RejectLoggers(s)
           \/ RejectDatabase(s) \/ RejectServer(s) \/ RunFails(s) \/ Destroy(s)
  BY <1>1, EndsMaps DEF RejectOptions, RejectConfigFile, RejectLoggers,
                        RejectDatabase, RejectServer, RunFails, Destroy
<1>2. CASE \/ ParseOptions(s) \/ ConfigureLogger(s) \/ PrepareDbConfig(s)
           \/ ReadServer(s) \/ ParseConfigFile(s) \/ Connect(s)
  <2>1. /\ stage[s] # "serving"
        /\ \E x \in Stages \ {"serving"} : stage' = [stage EXCEPT ![s] = x]
    BY <1>2 DEF ParseOptions, ConfigureLogger, PrepareDbConfig, ReadServer,
                ParseConfigFile, Connect, Passes, Advance, Stages
  <2>2. \A t \in Server \ {s} : session'[t] = session[t]
    BY <1>2 DEF ParseOptions, ConfigureLogger, PrepareDbConfig, ReadServer,
                ParseConfigFile, Connect, Passes, IInv, TypeOK
  <2> QED
    BY <2>1, <2>2, HiddenStep
<1> QED
  BY <1>1, <1>2, RunMaps DEF Step

\* Every step is a step of Lifecycle, or not seen.
LEMMA NextMaps == IInv /\ [Next]_vars => [Process!Next]_(Process!vars)
<1> SUFFICES ASSUME IInv, [Next]_vars PROVE [Process!Next]_(Process!vars)
  OBVIOUS
<1>1. ASSUME NEW s \in Server, Stop(s) PROVE [Process!Next]_(Process!vars)
  BY <1>1, VisibleEnd DEF Stop, Advance, Stages
<1>2. ASSUME NEW s \in Server, Kill(s) PROVE [Process!Next]_(Process!vars)
  BY <1>2, EndsMaps DEF Kill
<1>3. ASSUME NEW s \in Server, NEW a \in CommandLines, Execute(s, a)
      PROVE  [Process!Next]_(Process!vars)
  BY <1>3, HiddenStep DEF Execute, Advance, Stages
<1>4. ASSUME NEW f \in Files, Edit(f) PROVE [Process!Next]_(Process!vars)
  BY <1>4, Stutters DEF Edit, Up, Session
<1>5. CASE UNCHANGED vars
  BY <1>5, Stutters DEF vars, Up, Session
<1> QED
  BY <1>1, <1>2, <1>3, <1>4, <1>5, StepMaps, LoseMaps DEF Next

\* At the start no process serves.
LEMMA InitMaps == Init => Process!Init
  BY DEF Init, Process!Init

\* Seen from outside a process serves with the connection its constructor made,
\* working or not, may lose it, and never gets another before it ends.
THEOREM ImplementsLifecycle == Spec => ProcessSpec
  BY InitMaps, NextMaps, Invariance, PTL DEF Spec, ProcessSpec, Process!Spec
=============================================================================
