--------------------------- MODULE Programs_proofs ---------------------------
(***************************************************************************)
(* What the command line and the pytest plugin leave behind, for any       *)
(* servers, any number of tests and any signal between two steps.  A       *)
(* program is one thread that calls ValkeyServer, so the invariant of      *)
(* ExplicitServer_proofs holds until a signal cuts off a call (part 2).    *)
(* Whatever is cut off, a server is started once and left to its atexit    *)
(* hook, unless it is cut off before it has one (LeftInv, part 3).  Part 4 *)
(* follows the servers of the fixtures (RaisedInv, FixtureInv); part 5     *)
(* concludes.                                                              *)
(***************************************************************************)
EXTENDS Programs, ExplicitServer_proofs, SequenceTheorems

-----------------------------------------------------------------------------
(* Part 1: the invariant.                                                  *)

\* No signal has cut off a call of the program.
Calm == pc # "killed" /\ ("INT" \in sent => flag)

\* No call is in progress.
Resting == \A s \in Servers : at[s][main] = "idle"

\* The list of a test is a sequence, and empty where no test runs.
ListOK == servers \in Seq(Servers) /\ (pc \in {"begin", "session", "between"} => servers = <<>>)

\* Each kind of program keeps to its places.
PathsOK ==
    /\ "TERM" \in handled => "INT" \in handled
    /\ program = "cli" => pc \in {"begin", "started", "handlers", "loop", "leaving"} \cup Ended
    /\ program = "pytest" => pc \notin {"started", "handlers", "loop"}
    /\ pc = "created" => callee \in created
    /\ ~Calm => \/ pc = "killed"
                \/ pc \in {"teardown", "between", "leaving", "ended"} /\ tests = MaxTests

\* Where the program is says which calls may be in progress.
CallsOK ==
    /\ pc = "ended" \/ (pc = "between" /\ Calm) => Resting
    /\ \A s \in Servers : exited[s] => pc \in {"leaving"} \cup Ended
    /\ \A s \in Servers : at[s][main] \in StartSteps =>
          \/ s = callee /\ pc \in {"started", "created"}
          \/ s = Session /\ pc = "session"

Places == ListOK /\ PathsOK /\ CallsOK

\* Each program starts a server once, whatever was cut off...
Launched(p) == proc[p] # "free"
Once ==
    /\ \A p, q \in Pids : Launched(p) /\ Launched(q) /\ home[p] = home[q] => p = q
    /\ \A s \in Servers : at[s][main] \in StartSteps \ {"wait", "ping"} =>
          \A p \in Pids : Launched(p) => home[p] # s
    /\ pc = "begin" => \A p \in Pids : ~Launched(p)
    /\ program = "pytest" => \A p \in Pids : Launched(p) => home[p] \in created \cup {Session}

\* ...so the hook of its server will stop a daemon, once the start has waited for
\* the launcher, unless a stop overlooked it or the wait was interrupted...
Hooked ==
    pc # "killed" =>
        \A p \in Pids : proc[p] \in Live =>
            hook[home[p]] \/ at[home[p]][main] = "wait" \/ p \in unseen \cup unhooked

\* ...a stop under way ends the only daemon, or has overlooked it...
StopsOK ==
    \A s \in Servers :
        /\ at[s][main] \in {"shutdown", "term", "signal", "signalForeign"} =>
              pid[s][main] # None /\ DaemonsOf(s) \subseteq {pid[s][main]}
        /\ at[s][main] = "signalForeign" => DaemonsOf(s) = {}
        /\ at[s][main] = "clean" => DaemonsOf(s) \subseteq unseen

\* ...and a hook that runs is unregistered before the next one runs.
HooksRun ==
    /\ \A s \in Servers : pc # "killed" /\ exited[s] /\ hook[s] => at[s][main] \in StopSteps
    /\ pc = "ended" => \A s \in Servers : ~hook[s]

LeftInv == Once /\ PidfileInv /\ Hooked /\ StopsOK /\ HooksRun

\* A start that has raised has left no daemon.
RaisedInv ==
    Calm /\ pc = "created" /\ raised /\ at[callee][main] = "idle" => DaemonsOf(callee) = {}

\* A daemon is that of the session, of a server in the list of the test, of one
\* that is being stopped, or of the one that the factory is about to return.
FixtureInv ==
    program = "pytest" /\ Calm =>
        \A p \in Pids : proc[p] \in Live =>
            \/ home[p] = Session
            \/ \E i \in DOMAIN servers : servers[i] = home[p]
            \/ at[home[p]][main] \in StopSteps
            \/ pc = "created" /\ home[p] = callee

-----------------------------------------------------------------------------
(* Part 2: a program uses ValkeyServer as its callers may.                 *)

LEMMA MainThread == main \in Threads /\ \A s \in Servers : Idle(s) <=> at[s][main] = "idle"
BY ProgramAssumption DEF Idle

\* A call that the program makes is the only one.
LEMMA Invoked ==
    ASSUME TypeOK, NEW s \in Servers, NEW call \in Steps, Invoke(s, call), Resting
    PROVE  \A r \in Servers : at'[r][main] = IF r = s THEN call ELSE "idle"
BY GotoTyped, MainThread DEF Invoke, Resting

\* A step of the program is one that a caller of its servers may take, unless a
\* signal cuts off the call in progress.
LEMMA StepsOfServers ==
    ASSUME ProgramTypeOK, Places, [ProgramNext]_pvars
    PROVE  [Next]_vars \/ (Abandon /\ ~Calm')
<1> USE MainThread
<1>1. CASE UNCHANGED pvars \/ UNCHANGED world
  BY <1>1 DEF pvars, world, vars
<1>2. ASSUME NEW s \in Servers, Run(s) PROVE Next
  BY <1>2 DEF Run, Next
<1>3. ASSUME NEW s \in Servers, NEW call \in {"check", "stop", "terminate"}, Invoke(s, call),
             \A r \in Servers : Idle(r), pc \notin {"leaving"} \cup Ended
      PROVE  Next
  <2>1. Call(s, main)
    BY <1>3 DEF Call, Invoke, MayBegin, Places, CallsOK
  <2> QED
    BY <2>1 DEF Next
<1>4. callee \in Servers /\ Session \in Servers /\ \A i \in DOMAIN servers : servers[i] \in Servers
  BY ProgramAssumption DEF ProgramTypeOK
<1>5. CASE CliStart \/ CliLoop \/ SessionStart \/ EndSession
  BY <1>1, <1>3, <1>4, <1>5 DEF CliStart, CliLoop, SessionStart, EndSession, Free, Ended
<1>6. CASE Create
  BY <1>3, <1>6 DEF Create, Free, Ended
<1>7. CASE UseServer
  BY <1>3, <1>4, <1>7 DEF UseServer, Free, Ended
<1>8. CASE TearDown
  <2>1. CASE servers = <<>>
    BY <1>1, <1>8, <2>1 DEF TearDown
  <2>2. CASE servers # <<>>
    <3>1. Head(servers) \in Servers
      BY <2>2 DEF Places, ListOK
    <3> QED
      BY <1>3, <1>8, <2>2, <3>1 DEF TearDown, Free, Ended
  <2> QED
    BY <2>1, <2>2
<1>9. CASE CliStarted \/ CliHandle \/ SessionStarted \/ Created \/ EndTest \/ BeginTest
  BY <1>1, <1>9 DEF CliStarted, CliHandle, SessionStarted, Created, EndTest, BeginTest
<1>10. CASE Leave
  BY <1>1, <1>10 DEF Leave, Next
<1>11. CASE Machine
  BY <1>11 DEF Machine, Next
<1>12. CASE Sigint
  <2>1. CASE "INT" \in handled
    BY <1>1, <1>12, <2>1 DEF Sigint, RequestStop
  <2>2. CASE "INT" \notin handled
    <3>1. ~flag
      BY <1>12 DEF Sigint, MaySignal, ProgramTypeOK
    <3> QED
      BY <1>12, <2>2, <3>1 DEF Sigint, Interrupted, Calm
  <2> QED
    BY <2>1, <2>2
<1>13. CASE Sigterm
  BY <1>1, <1>13 DEF Sigterm, RequestStop, Killed, Calm
<1> QED
  BY <1>1, <1>2, <1>5, <1>6, <1>7, <1>8, <1>9, <1>10, <1>11, <1>12, <1>13 DEF ProgramNext, Advance

\* A call that was cut off stays cut off.
LEMMA CalmBefore ==
    ASSUME ProgramTypeOK, [ProgramNext]_pvars, Calm'
    PROVE  Calm
<1>1. CASE UNCHANGED <<sent, flag, pc>>
  BY <1>1 DEF Calm
<1>2. CASE Sigint \/ Sigterm
  BY <1>2 DEF Sigint, Sigterm, MaySignal, Ended, Calm
<1>3. CASE pc # "killed" /\ UNCHANGED <<sent, flag>>
  BY <1>3 DEF Calm
<1>4. ASSUME NEW s \in Servers, Run(s) PROVE UNCHANGED <<sent, flag, pc>>
  BY <1>4 DEF Run, signals
<1>5. Machine \/ UNCHANGED pvars => UNCHANGED <<sent, flag, pc>>
  BY DEF Machine, pvars, own, signals
<1>6. Advance \/ BeginTest \/ Create \/ UseServer => pc # "killed" /\ UNCHANGED <<sent, flag>>
  BY DEF Advance, CliStart, CliStarted, CliHandle, CliLoop, SessionStart, SessionStarted, Created,
         EndTest, TearDown, EndSession, Leave, BeginTest, Create, UseServer, Free, Become
<1> QED
  BY <1>1, <1>2, <1>3, <1>4, <1>5, <1>6 DEF ProgramNext

\* So every variable of the servers keeps its shape.
LEMMA ServersKeep ==
    ASSUME IInv, ProgramTypeOK, Places, [ProgramNext]_pvars
    PROVE  IInv'
<1>1. CASE [Next]_vars
  BY <1>1, NextInvariant
<1>2. CASE Abandon
  <2>1. /\ at' = [s \in Servers |-> [t \in Threads |-> "idle"]]
        /\ pid' = [s \in Servers |-> [t \in Threads |-> None]]
        /\ UNCHANGED <<daemons, files, object>>
    BY <1>2 DEF Abandon
  <2>2. TypeOK'
    BY <2>1 DEF IInv, TypeOK, Steps, daemons, files, object
  <2>3. Captured'
    BY <2>1 DEF Captured
  <2> QED
    BY <2>2, <2>3 DEF IInv
<1> QED
  BY <1>1, <1>2, StepsOfServers

\* The program's own variables keep their shape.
LEMMA OwnTyped ==
    ASSUME TypeOK', ProgramTypeOK, Places, [ProgramNext]_pvars
    PROVE  ProgramTypeOK'
<1> USE ProgramAssumption DEF Ended, Pcs
<1>1. CASE UNCHANGED own
  BY <1>1 DEF ProgramTypeOK, own, signals, fixtures, lost
<1>2. ASSUME NEW s \in Servers, Run(s) PROVE ProgramTypeOK'
  <2>1. UNCHANGED <<program, pc, callee, signals, fixtures>>
    BY <1>2 DEF Run
  <2>2. raised' \in BOOLEAN
    BY <1>2 DEF Run
  <2>3. unseen' \subseteq Pids
    BY <1>2 DEF Run, Overlooked, DaemonsOf, ProgramTypeOK
  <2>4. unhooked' = unhooked
    BY <1>2 DEF Run
  <2> QED
    BY <2>1, <2>2, <2>3, <2>4 DEF ProgramTypeOK, signals, fixtures
<1>3. CASE CliStart \/ CliStarted \/ CliLoop \/ SessionStart \/ EndTest \/ Leave \/ UseServer
  <2>1. pc' \in Pcs /\ UNCHANGED <<program, callee, raised, sent, handled, flag, fixtures, lost>>
    BY <1>3 DEF CliStart, CliStarted, CliLoop, SessionStart, EndTest, Leave, UseServer, Become
  <2> QED
    BY <2>1 DEF ProgramTypeOK, fixtures, lost
<1>4. CASE CliHandle
  BY <1>4 DEF CliHandle, Become, Places, PathsOK, ProgramTypeOK, fixtures, lost
<1>5. CASE SessionStarted \/ EndSession
  <2>1. /\ pc' \in Pcs /\ session' \in BOOLEAN
        /\ UNCHANGED <<program, callee, raised, sent, handled, flag, tests, created, given, servers, lost>>
    BY <1>5 DEF SessionStarted, EndSession, Become, ProgramTypeOK
  <2> QED
    BY <2>1 DEF ProgramTypeOK, lost
<1>6. CASE BeginTest
  <2>1. tests' \in 0..MaxTests
    BY <1>6 DEF BeginTest, ProgramTypeOK
  <2> QED
    BY <1>6, <2>1 DEF BeginTest, Become, ProgramTypeOK, lost
<1>7. CASE Create
  BY <1>7 DEF Create, Become, ProgramTypeOK, lost
<1>8. CASE Created
  <2>1. /\ pc' = "test" /\ callee \in created
        /\ UNCHANGED <<program, callee, raised, sent, handled, flag, session, tests, created, lost>>
    BY <1>8 DEF Created, Become, Free, Places, PathsOK, ProgramTypeOK
  <2>2. given' \subseteq created /\ \A i \in DOMAIN servers' : servers'[i] \in given'
    <3>1. CASE raised
      BY <1>8, <3>1 DEF Created, ProgramTypeOK
    <3>2. CASE ~raised
      <4>1. given' = given \cup {callee} /\ servers' = Append(servers, callee)
        BY <1>8, <3>2 DEF Created
      <4>2. servers \in Seq(Servers) /\ callee \in Servers
        BY DEF Places, ListOK, ProgramTypeOK
      <4> QED
        BY <2>1, <4>1, <4>2, AppendProperties DEF ProgramTypeOK
    <3> QED
      BY <3>1, <3>2
  <2> QED
    BY <2>1, <2>2 DEF ProgramTypeOK, lost
<1>9. CASE TearDown
  <2>1. /\ pc' \in Pcs
        /\ UNCHANGED <<program, callee, raised, sent, handled, flag, session, tests, created, given, lost>>
    BY <1>9 DEF TearDown, Become
  <2>2. \A i \in DOMAIN servers' : servers'[i] \in given
    <3>1. CASE servers = <<>>
      BY <1>9, <3>1 DEF TearDown, ProgramTypeOK
    <3>2. CASE servers # <<>>
      <4>1. servers' = Tail(servers) /\ servers \in Seq(Servers)
        BY <1>9, <3>2 DEF TearDown, Others, Places, ListOK
      <4> QED
        BY <3>2, <4>1, HeadTailProperties DEF ProgramTypeOK
    <3> QED
      BY <3>1, <3>2
  <2> QED
    BY <2>1, <2>2 DEF ProgramTypeOK, lost
<1>10. CASE Sigint
  <2>1. CASE "INT" \in handled
    BY <1>10, <2>1 DEF Sigint, MaySignal, RequestStop, ProgramTypeOK, fixtures
  <2>2. CASE "INT" \notin handled
    <3>1. Unhooked \subseteq Pids
      BY DEF Unhooked, DaemonsOf
    <3>2. /\ pc' \in Pcs /\ tests' = MaxTests /\ unhooked' \subseteq Pids
          /\ servers' = <<>> \/ servers' = servers
          /\ UNCHANGED <<program, callee, raised, handled, flag, session, created, given, unseen>>
          /\ sent' = {"INT"} /\ ~flag
      BY <1>10, <2>2, <3>1 DEF Sigint, MaySignal, Interrupted, ProgramTypeOK
    <3>3. tests' \in 0..MaxTests
      BY <3>2
    <3> QED
      BY <3>2, <3>3 DEF ProgramTypeOK
  <2> QED
    BY <2>1, <2>2
<1>11. CASE Sigterm
  <2>1. /\ pc' \in Pcs /\ flag' \in BOOLEAN /\ (flag' => "TERM" \in handled) /\ sent' = {"TERM"}
        /\ UNCHANGED <<program, callee, raised, handled, fixtures, lost>>
    BY <1>11 DEF Sigterm, MaySignal, RequestStop, Killed, ProgramTypeOK, lost
  <2> QED
    BY <2>1 DEF ProgramTypeOK, fixtures, lost
<1>12. CASE Machine
  BY <1>1, <1>12 DEF Machine
<1> QED
  BY <1>1, <1>2, <1>3, <1>4, <1>5, <1>6, <1>7, <1>8, <1>9, <1>10, <1>11, <1>12
  DEF ProgramNext, Advance, pvars

\* Each part of it is kept.
LEMMA ListKept ==
    ASSUME ProgramTypeOK, Places, [ProgramNext]_pvars
    PROVE  ListOK'
<1>0. ListOK
  BY DEF Places
<1>1. CASE UNCHANGED <<servers, pc>>
  BY <1>0, <1>1 DEF ListOK
<1>2. CASE UNCHANGED servers /\ pc' \in Pcs \ {"begin", "session", "between"}
  BY <1>0, <1>2 DEF ListOK
<1>3. CASE UNCHANGED servers /\ pc \in {"begin", "session", "between"}
  BY <1>0, <1>3 DEF ListOK
<1>4. CASE Created
  <2>1. callee \in Servers /\ pc' = "test"
    BY <1>4 DEF Created, Become, ProgramTypeOK
  <2>2. servers' = servers \/ servers' = Append(servers, callee)
    BY <1>4 DEF Created
  <2> QED
    BY <1>0, <2>1, <2>2, AppendProperties DEF ListOK
<1>5. CASE TearDown
  <2>1. CASE servers = <<>>
    BY <1>0, <1>5, <2>1 DEF TearDown, ListOK
  <2>2. CASE servers # <<>>
    <3>1. servers' = Tail(servers) /\ pc' = "teardown"
      BY <1>5, <2>2 DEF TearDown, Others, Become
    <3> QED
      BY <1>0, <2>2, <3>1, HeadTailProperties DEF ListOK
  <2> QED
    BY <2>1, <2>2
<1>6. CASE Sigint
  <2>1. CASE "INT" \in handled
    BY <1>1, <1>6, <2>1 DEF Sigint, RequestStop, fixtures
  <2>2. CASE "INT" \notin handled
    <3>1. Interrupted
      BY <1>6, <2>2 DEF Sigint
    <3>2. CASE pc = "teardown"
      BY <3>1, <3>2 DEF Interrupted, ListOK
    <3>3. CASE pc # "teardown"
      BY <1>0, <3>1, <3>3 DEF Interrupted, ListOK
    <3> QED
      BY <3>2, <3>3
  <2> QED
    BY <2>1, <2>2
<1>7. CASE Sigterm
  BY <1>1, <1>2, <1>7 DEF Sigterm, RequestStop, Killed, Pcs, Ended, fixtures
<1>8. ASSUME NEW s \in Servers, Run(s) PROVE ListOK'
  BY <1>1, <1>8 DEF Run, fixtures
<1>9. CASE UNCHANGED own \/ Machine \/ UNCHANGED pvars
  BY <1>1, <1>9 DEF Machine, pvars, own, fixtures
<1>10. CASE CliStart \/ CliStarted \/ CliHandle \/ CliLoop \/ EndTest \/ Leave \/ UseServer \/ Create
  BY <1>2, <1>10 DEF CliStart, CliStarted, CliHandle, CliLoop, EndTest, Leave, UseServer, Create,
                     Become, Pcs, Ended, fixtures
<1>11. CASE SessionStart \/ SessionStarted \/ BeginTest \/ EndSession
  BY <1>3, <1>11 DEF SessionStart, SessionStarted, BeginTest, EndSession, Free, fixtures
<1> QED
  BY <1>4, <1>5, <1>6, <1>7, <1>8, <1>9, <1>10, <1>11 DEF ProgramNext, Advance

\* A program stays on its path.
LEMMA PathsKept ==
    ASSUME ProgramTypeOK, Places, [ProgramNext]_pvars
    PROVE  PathsOK'
<1>0. PathsOK /\ program \in {"cli", "pytest"}
  BY DEF Places, ProgramTypeOK
<1> USE DEF Ended
<1>1. CASE UNCHANGED <<program, pc, callee, sent, handled, flag, tests, created>>
  BY <1>0, <1>1 DEF PathsOK, Calm
<1>2. CASE CliStart \/ CliStarted \/ CliLoop
  BY <1>0, <1>2 DEF CliStart, CliStarted, CliLoop, Become, Free, PathsOK, Calm, fixtures
<1>3. CASE CliHandle
  BY <1>0, <1>3 DEF CliHandle, Become, Free, PathsOK, Calm, fixtures
<1>4. CASE SessionStart \/ SessionStarted
  BY <1>0, <1>4 DEF SessionStart, SessionStarted, Become, Free, PathsOK, Calm, fixtures
<1>5. CASE Created \/ EndTest \/ UseServer
  BY <1>0, <1>5 DEF Created, EndTest, UseServer, Become, Free, PathsOK, Calm, fixtures
<1>6. CASE TearDown \/ EndSession \/ Leave
  BY <1>0, <1>6 DEF TearDown, EndSession, Leave, Become, Free, PathsOK, Calm, fixtures
<1>7. CASE BeginTest \/ Create
  BY <1>0, <1>7, ProgramAssumption DEF BeginTest, Create, Become, Free, PathsOK, Calm, fixtures
<1>8. CASE Sigint
  BY <1>0, <1>8 DEF Sigint, MaySignal, RequestStop, Interrupted, PathsOK, Calm, fixtures
<1>9. CASE Sigterm
  BY <1>0, <1>9 DEF Sigterm, MaySignal, RequestStop, Killed, PathsOK, Calm, fixtures
<1>10. ASSUME NEW s \in Servers, Run(s) PROVE PathsOK'
  BY <1>1, <1>10 DEF Run, signals, fixtures
<1>11. CASE Machine \/ UNCHANGED pvars
  BY <1>1, <1>11 DEF Machine, pvars, own, signals, fixtures
<1> QED
  BY <1>2, <1>3, <1>4, <1>5, <1>6, <1>7, <1>8, <1>9, <1>10, <1>11 DEF ProgramNext, Advance

\* A call is in progress only where the program waits for it.
LEMMA CallsKept ==
    ASSUME ProgramTypeOK, Places, [ProgramNext]_pvars
    PROVE  CallsOK'
<1> USE MainThread DEF Ended
<1>0. CallsOK /\ TypeOK
  BY DEF Places, ProgramTypeOK
<1>1. Calm' => Calm
  BY CalmBefore
<1>2. CASE UNCHANGED <<at, exited, pc, callee>>
  BY <1>0, <1>1, <1>2 DEF CallsOK, Resting
<1>3. ASSUME Resting, NEW s \in Servers, NEW call \in {"check", "stop", "terminate"}, Invoke(s, call),
             pc \notin {"leaving"} \cup Ended, pc' \notin {"ended", "between"},
             call = "check" => \/ s = callee' /\ pc' \in {"started", "created"}
                               \/ s = Session /\ pc' = "session"
      PROVE  CallsOK'
  <2>1. \A r \in Servers : at'[r][main] = IF r = s THEN call ELSE "idle"
    BY <1>0, <1>3, Invoked DEF Steps, StartSteps, StopSteps, KillSteps
  <2>2. \A r \in Servers : ~exited'[r]
    BY <1>0, <1>3 DEF Invoke, object, CallsOK
  <2> QED
    BY <1>3, <2>1, <2>2 DEF CallsOK, StartSteps
<1>4. CASE Resting /\ UNCHANGED <<at, exited>> /\ pc \notin {"leaving"} \cup Ended
  BY <1>0, <1>4 DEF CallsOK, Resting, StartSteps
<1>5. CASE Resting' /\ UNCHANGED exited /\ ((\E s \in Servers : exited[s]) => pc' \in {"leaving"} \cup Ended)
  BY <1>0, <1>5 DEF CallsOK, Resting, StartSteps
<1>6. CASE Sigint
  <2>1. CASE "INT" \in handled
    BY <1>2, <1>6, <2>1 DEF Sigint, RequestStop, world, calls, object
  <2>2. CASE "INT" \notin handled
    BY <1>5, <1>6, <2>2 DEF Sigint, Interrupted, Abandon, Resting, object
  <2> QED
    BY <2>1, <2>2
<1>7. CASE Sigterm
  <2>1. CASE "TERM" \in handled
    BY <1>2, <1>7, <2>1 DEF Sigterm, RequestStop, world, calls, object
  <2>2. CASE "TERM" \notin handled
    BY <1>5, <1>7, <2>2 DEF Sigterm, Killed, Abandon, Resting, object
  <2> QED
    BY <2>1, <2>2
<1>8. ASSUME NEW s \in Servers, Run(s) PROVE CallsOK'
  <2>1. Step(s, main) /\ UNCHANGED <<pc, callee>>
    BY <1>8 DEF Run
  <2>2. at[s][main] # "idle" /\ UNCHANGED exited
    BY <2>1 DEF Step, CheckRunning, ChoosePort, WriteConf, Launch, AwaitLauncher, PingAnswered, PingTimeout,
           BeginStop, Shutdown, BindProcess, Signal, SignalForeign, Clean, BeginTerminate, Kill, object
  <2>3. PICK step \in Steps :
            Goto(s, main, step) /\ (step \in StartSteps => at[s][main] \in StartSteps)
    BY <2>1 DEF Step, CheckRunning, ChoosePort, WriteConf, Launch, AwaitLauncher, PingAnswered, PingTimeout,
           BeginStop, Shutdown, BindProcess, Signal, SignalForeign, Clean, Back, BeginTerminate, Kill,
           Steps, StartSteps, StopSteps, KillSteps
  <2>4. \A r \in Servers : at'[r][main] = IF r = s THEN step ELSE at[r][main]
    <3>1. \A r \in Servers, u \in Threads : at'[r][u] = IF r = s /\ u = main THEN step ELSE at[r][u]
      BY <1>0, <2>3, GotoTyped
    <3> QED
      BY <3>1
  <2>5. ~(pc = "ended" \/ (pc = "between" /\ Calm))
    BY <1>0, <2>2 DEF CallsOK, Resting
  <2>6. \A r \in Servers : at'[r][main] \in StartSteps => at[r][main] \in StartSteps
    BY <2>3, <2>4
  <2> QED
    BY <1>0, <1>1, <2>1, <2>2, <2>5, <2>6 DEF CallsOK
<1>9. CASE Machine \/ UNCHANGED pvars
  BY <1>2, <1>9 DEF Machine, Boot, WritePidfile, Serve, BindFails, Die, Crash, ReusePid, TakePort, pvars, world,
                    own, object, calls
<1>10. CASE CliStart \/ CliLoop
  BY <1>3, <1>10 DEF CliStart, CliLoop, Free, Become, Resting, ProgramTypeOK
<1>11. CASE SessionStart
  BY <1>3, <1>4, <1>11, ProgramAssumption DEF SessionStart, Free, Become, Resting, world, object, calls
<1>12. CASE CliStarted \/ CliHandle \/ SessionStarted \/ Created \/ EndTest \/ BeginTest
  BY <1>4, <1>12 DEF CliStarted, CliHandle, SessionStarted, Created, EndTest, BeginTest, Free, Resting,
                     world, object, calls
<1>13. CASE Create
  BY <1>3, <1>13 DEF Create, Free, Become, Resting
<1>14. CASE UseServer
  <2>1. \A i \in DOMAIN servers : servers[i] \in Servers
    BY ProgramAssumption DEF ProgramTypeOK
  <2> QED
    BY <1>3, <1>14, <2>1 DEF UseServer, Free, Become, Resting
<1>15. CASE TearDown
  <2>1. CASE servers = <<>>
    BY <1>4, <1>15, <2>1 DEF TearDown, Free, Resting, world, object, calls
  <2>2. CASE servers # <<>>
    <3>1. Head(servers) \in Servers
      BY <2>2 DEF Places, ListOK
    <3> QED
      BY <1>3, <1>15, <2>2, <3>1 DEF TearDown, Free, Become, Resting
  <2> QED
    BY <2>1, <2>2
<1>16. CASE EndSession
  BY <1>3, <1>4, <1>16, ProgramAssumption DEF EndSession, Free, Become, Resting, world, object, calls
<1>17. CASE Leave
  <2>1. Resting /\ pc' \in {"leaving", "ended"}
    BY <1>17 DEF Leave, Free, Become, Resting
  <2>2. CASE UNCHANGED world /\ pc' = "ended"
    BY <1>0, <2>1, <2>2 DEF CallsOK, Resting, StartSteps, world, object, calls
  <2>3. ASSUME NEW s \in Servers, Exit(s, main), hook[s], pc' = "leaving" PROVE CallsOK'
    <3>1. Goto(s, main, "stop") /\ UNCHANGED hook
      BY <2>3 DEF Exit
    <3>2. \A r \in Servers : at'[r][main] \in {"stop", "idle"}
      BY <1>0, <2>1, <3>1, GotoTyped DEF Resting, Steps, StopSteps
    <3> QED
      BY <2>3, <3>2 DEF CallsOK, StartSteps
  <2> QED
    BY <1>17, <2>2, <2>3 DEF Leave, Become
<1> QED
  BY <1>6, <1>7, <1>8, <1>9, <1>10, <1>11, <1>12, <1>13, <1>14, <1>15, <1>16, <1>17
  DEF ProgramNext, Advance

\* Until a call is cut off, the servers see one caller.
LEMMA SerialKept ==
    ASSUME Orderly, ProgramTypeOK, Places, Calm => SerialInv, [ProgramNext]_pvars
    PROVE  /\ Places'
           /\ Calm' => [Next]_vars /\ SerialInv /\ SerialInv'
<1>1. Places'
  BY ListKept, PathsKept, CallsKept DEF Places
<1>2. Calm' => [Next]_vars /\ SerialInv
  BY StepsOfServers, CalmBefore
<1>3. Calm' => SerialInv'
  BY <1>2, NextSerial DEF ProgramTypeOK
<1> QED
  BY <1>1, <1>2, <1>3

-----------------------------------------------------------------------------
(* Part 3: what outlives a call that was cut off.                          *)

\* No two servers are given one data directory.
OwnDirectories == \A r, s \in SameDir : r = s

LEMMA SoleDirectory == ASSUME OwnDirectories PROVE \A s \in Servers : Dir(s) = s
BY DEF OwnDirectories, Dir

\* Without a launch, no daemon comes to life, and pidfiles go by their servers.
NoBirth ==
    /\ UNCHANGED home
    /\ \A p \in Pids : /\ proc'[p] \in Live => proc[p] \in Live
                       /\ Launched(p)' <=> Launched(p)
    /\ \A r \in Servers : \/ pidfile'[r] \in {pidfile[r], None}
                          \/ /\ pidfile'[r] \in Pids /\ home[pidfile'[r]] = r
                             /\ Launched(pidfile'[r])

LEMMA OnlyLaunches ==
    ASSUME OwnDirectories, IInv, [Next]_vars,
           \A s \in Servers, t \in Threads : ~Launch(s, t)
    PROVE  NoBirth
<1> USE NamesAssumption DEF NoBirth, Launched
<1>0. TypeOK /\ Captured
  BY DEF IInv
<1>1. CASE UNCHANGED <<proc, home, pidfile>>
  BY <1>1
<1>2. ASSUME NEW p, proc[p] \in Live \cup {"killed"}, ExitOrderly(p) \/ ExitKilled(p) \/ SendKill(p),
             UNCHANGED home
      PROVE  NoBirth
  <2>1. \A q \in Pids : IF q = p THEN proc'[q] \in {"dead", "killed"} ELSE proc'[q] = proc[q]
    BY <1>0, <1>2 DEF ExitOrderly, ExitKilled, SendKill, TypeOK
  <2>2. \A r \in Servers : pidfile'[r] \in {pidfile[r], None}
    BY <1>0, <1>2 DEF ExitOrderly, ExitKilled, SendKill, TypeOK
  <2> QED
    BY <1>2, <2>1, <2>2 DEF Live
<1>3. ASSUME NEW s \in Servers, NEW t \in Threads, Call(s, t) \/ Step(s, t) \/ Exit(s, t) PROVE NoBirth
  <2>1. CASE Clean(s, t)
    <3>1. UNCHANGED <<proc, home>>
      BY <2>1 DEF Clean, daemons
    <3>2. \A r \in Servers : pidfile'[r] \in {pidfile[r], None}
      BY <1>0, <2>1 DEF Clean, TypeOK
    <3> QED
      BY <3>1, <3>2
  <2>2. CASE SignalForeign(s, t)
    <3>1. /\ UNCHANGED <<home, pidfile>>
          /\ \A q \in Pids : proc'[q] = IF q = pid[s][t] THEN "dead" ELSE proc[q]
      BY <1>0, <2>2 DEF SignalForeign, files, TypeOK
    <3>2. pid[s][t] # None => proc[pid[s][t]] # "free"
      BY <1>0 DEF Captured
    <3> QED
      BY <3>1, <3>2 DEF Live
  <2>3. CASE Shutdown(s, t) \/ Signal(s, t) \/ Kill(s, t)
    <3>1. UNCHANGED home
      BY <2>3 DEF Shutdown, Signal, Kill
    <3>2. \/ UNCHANGED <<proc, pidfile>>
          \/ \E p \in Pids \cup {None} :
                proc[p] \in Live /\ (ExitOrderly(p) \/ ExitKilled(p) \/ SendKill(p))
      <4>1. CASE Shutdown(s, t)
        BY <4>1 DEF Shutdown, Answering, Live
      <4>2. CASE Signal(s, t) \/ Kill(s, t)
        <5>1. pid[s][t] \in Pids \cup {None}
          BY <1>0 DEF TypeOK
        <5> QED
          BY <4>2, <5>1 DEF Signal, Escalate, Kill, Live
      <4> QED
        BY <2>3, <4>1, <4>2
    <3> QED
      BY <1>1, <1>2, <3>1, <3>2
  <2>4. ~Launch(s, t)
    OBVIOUS
  <2>5. CASE UNCHANGED <<daemons, pidfile>>
    BY <1>1, <2>5 DEF daemons
  <2>6. Call(s, t) \/ Exit(s, t) => UNCHANGED <<daemons, pidfile>>
    BY DEF Call, Exit, files
  <2>7. Step(s, t) /\ ~(Clean(s, t) \/ SignalForeign(s, t) \/ Shutdown(s, t) \/ Signal(s, t) \/ Kill(s, t))
            => UNCHANGED <<daemons, pidfile>>
    BY <2>4 DEF Step, CheckRunning, ChoosePort, WriteConf, AwaitLauncher, PingAnswered, PingTimeout, BeginStop,
           BindProcess, BeginTerminate, files
  <2> QED
    BY <1>3, <2>1, <2>2, <2>3, <2>5, <2>6, <2>7
<1>4. ASSUME NEW p \in Pids, BindFails(p) \/ Die(p) \/ Crash(p) PROVE NoBirth
  BY <1>2, <1>4 DEF BindFails, Die, Crash, Live
<1>5. ASSUME NEW p \in Pids, Serve(p) PROVE NoBirth
  BY <1>0, <1>5 DEF Serve, files, TypeOK, Live
<1>6. ASSUME NEW p \in Pids, WritePidfile(p) PROVE NoBirth
  <2>1. /\ proc[p] = "boot" /\ UNCHANGED home
        /\ \A q \in Pids : proc'[q] = IF q = p THEN "named" ELSE proc[q]
    BY <1>0, <1>6 DEF WritePidfile, TypeOK
  <2>2. home[p] \in Servers
    BY <1>0, <2>1, Housed DEF Live
  <2>3. \A r \in Servers : pidfile'[r] = pidfile[r] \/ (r = home[p] /\ pidfile'[r] = p)
    BY <1>0, <1>6, <2>2, SoleDirectory DEF WritePidfile, TypeOK
  <2> QED
    BY <2>1, <2>3 DEF Live
<1>7. ASSUME NEW p \in Pids, ReusePid(p) PROVE NoBirth
  BY <1>0, <1>7 DEF ReusePid, files, TypeOK, Live
<1>8. CASE UNCHANGED vars \/ \E n \in Ports : TakePort(n)
  BY <1>1, <1>8 DEF vars, daemons, files, TakePort
<1> QED
  BY <1>3, <1>4, <1>5, <1>6, <1>7, <1>8 DEF Next, Boot

\* Only a launch gives a server a daemon, and then waits for the launcher.
Launches(r) == at[r][main] = "launch" /\ at'[r][main] = "wait"

LEMMA LaunchedOne ==
    ASSUME TypeOK, NEW s \in Servers, Launch(s, main)
    PROVE  /\ \A p \in Pids : \/ proc'[p] = proc[p] /\ home'[p] = home[p]
                              \/ proc[p] = "free" /\ proc'[p] = "boot" /\ home'[p] = s
           /\ \A p, q \in Pids : proc'[p] # proc[p] /\ proc'[q] # proc[q] => p = q
           /\ Launches(s) /\ at[s][main] = "launch" /\ UNCHANGED <<pidfile, hook, exited, pid>>
           /\ \A r \in Servers \ {s} : at'[r] = at[r]
<1> USE MainThread
<1>1. \A p \in Pids : \/ proc'[p] = proc[p] /\ home'[p] = home[p]
                      \/ proc[p] = "free" /\ proc'[p] = "boot" /\ home'[p] = s
  BY DEF Launch, TypeOK
<1>2. at'[s][main] = "wait" /\ at[s][main] = "launch" /\ \A r \in Servers \ {s} : at'[r] = at[r]
  BY DEF Launch, Goto, TypeOK
<1>3. UNCHANGED <<pidfile, hook, exited, pid>>
  BY DEF Launch, files, object
<1>4. \A p, q \in Pids : proc'[p] # proc[p] /\ proc'[q] # proc[q] => p = q
  BY DEF Launch, TypeOK
<1> QED
  BY <1>1, <1>2, <1>3, <1>4 DEF Launches

\* A step of the program that moves a call, or that does not.
LEMMA Moves ==
    ASSUME ProgramTypeOK, Places, [ProgramNext]_pvars
    PROVE  /\ unseen \subseteq unseen' /\ unhooked \subseteq unhooked'
           /\ \/ \E s \in Servers : Run(s)
              \/ /\ UNCHANGED hook
                 /\ \A r \in Servers : \/ at'[r][main] = at[r][main] /\ pid'[r][main] = pid[r][main]
                                       \/ at'[r][main] \in {"idle", "check", "stop", "terminate"}
<1> DEFINE Shift == /\ UNCHANGED hook
                    /\ \A r \in Servers :
                          \/ at'[r][main] = at[r][main] /\ pid'[r][main] = pid[r][main]
                          \/ at'[r][main] \in {"idle", "check", "stop", "terminate"}
<1> USE MainThread
<1>0. TypeOK
  BY DEF ProgramTypeOK
<1>1. ASSUME NEW s \in Servers, Run(s) PROVE unseen \subseteq unseen' /\ unhooked' = unhooked
  BY <1>1 DEF Run
<1>2. (\A s \in Servers : ~Run(s)) => UNCHANGED unseen /\ unhooked \subseteq unhooked'
  BY DEF ProgramNext, Advance, CliStart, CliStarted, CliHandle, CliLoop, SessionStart, SessionStarted,
         Created, EndTest, TearDown, EndSession, Leave, BeginTest, Create, UseServer, Become, Sigint,
         Sigterm, RequestStop, Interrupted, Killed, Machine, pvars, own, lost
<1>3. UNCHANGED world \/ Abandon => Shift
  BY DEF world, object, calls, Abandon
<1>4. ASSUME NEW s \in Servers, NEW call \in {"check", "stop", "terminate"}, Invoke(s, call)
      PROVE  Shift
  BY <1>0, <1>4 DEF Invoke, Goto, object, TypeOK
<1>5. ASSUME NEW s \in Servers, Exit(s, main)
      PROVE  Shift
  <2>1. (Goto(s, main, "stop") \/ UNCHANGED at) /\ UNCHANGED <<hook, pid>>
    BY <1>5 DEF Exit
  <2>2. ASSUME Goto(s, main, "stop") PROVE \A r \in Servers : at'[r][main] \in {at[r][main], "stop"}
    BY <1>0, <2>2, GotoTyped DEF Steps, StopSteps
  <2> QED
    BY <2>1, <2>2
<1>6. callee \in Servers /\ Session \in Servers /\ (\A i \in DOMAIN servers : servers[i] \in Servers)
      /\ (servers # <<>> => Head(servers) \in Servers)
  BY ProgramAssumption DEF ProgramTypeOK, Places, ListOK
<1>7. ASSUME CliStart \/ CliLoop \/ SessionStart \/ EndSession \/ TearDown PROVE Shift
  BY <1>3, <1>4, <1>6, <1>7 DEF CliStart, CliLoop, SessionStart, EndSession, TearDown, Become
<1>8. ASSUME Create \/ UseServer PROVE Shift
  BY <1>4, <1>6, <1>8 DEF Create, UseServer, Become
<1>9. ASSUME Leave PROVE Shift
  BY <1>3, <1>5, <1>9 DEF Leave, Become
<1>10. ASSUME CliStarted \/ CliHandle \/ SessionStarted \/ Created \/ EndTest \/ BeginTest PROVE Shift
  BY <1>3, <1>10 DEF CliStarted, CliHandle, SessionStarted, Created, EndTest, BeginTest, Become
<1>11. ASSUME Sigint \/ Sigterm PROVE Shift
  BY <1>3, <1>11 DEF Sigint, Sigterm, RequestStop, Interrupted, Killed
<1>12. ASSUME Machine \/ UNCHANGED pvars PROVE Shift
  <2>1. UNCHANGED <<object, calls>>
    BY <1>12 DEF Machine, Boot, WritePidfile, Serve, BindFails, Die, Crash, ReusePid, TakePort, pvars, world
  <2> QED
    BY <2>1 DEF object, calls
<1>13. (\E s \in Servers : Run(s)) \/ Shift
  BY <1>7, <1>8, <1>9, <1>10, <1>11, <1>12 DEF ProgramNext, Advance
<1> QED
  BY <1>1, <1>2, <1>13

\* What a step of a call does to its server's hook, and where it goes.
LEMMA RunMoves ==
    ASSUME TypeOK, NEW s \in Servers, Run(s)
    PROVE  /\ \A r \in Servers \ {s} : at'[r] = at[r] /\ pid'[r] = pid[r] /\ hook'[r] = hook[r]
           /\ UNCHANGED <<exited, pc, callee>>
           /\ hook[s] => hook'[s] \/ at[s][main] = "clean"
           /\ hook'[s] => at[s][main] # "clean" /\ (hook[s] \/ at[s][main] = "wait")
<1> USE MainThread
<1>1. Step(s, main) /\ UNCHANGED <<pc, callee>>
  BY DEF Run
<1>2. CASE CheckRunning(s, main) \/ ChoosePort(s, main) \/ WriteConf(s, main) \/ PingAnswered(s, main)
           \/ PingTimeout(s, main) \/ BindProcess(s, main) \/ Signal(s, main) \/ SignalForeign(s, main)
           \/ Kill(s, main) \/ Shutdown(s, main)
  <2>1. (\A r \in Servers \ {s} : at'[r] = at[r]) /\ UNCHANGED <<pid, hook, exited>> /\ at[s][main] # "clean"
    BY <1>2 DEF CheckRunning, ChoosePort, WriteConf, PingAnswered, PingTimeout, BindProcess, Signal,
                SignalForeign, Kill, Shutdown, Goto, object, TypeOK
  <2> QED
    BY <1>1, <2>1
<1>3. CASE BeginStop(s, main) \/ BeginTerminate(s, main)
  BY <1>1, <1>3 DEF BeginStop, BeginTerminate, Goto, object, TypeOK
<1>4. CASE Launch(s, main)
  BY <1>1, <1>4, LaunchedOne
<1>5. CASE AwaitLauncher(s, main)
  <2>1. (\A r \in Servers \ {s} : at'[r] = at[r] /\ hook'[r] = hook[r]) /\ hook'[s] /\ at[s][main] = "wait"
    BY <1>5 DEF AwaitLauncher, RegisterHook, Goto, TypeOK
  <2> QED
    BY <1>1, <1>5, <2>1 DEF AwaitLauncher
<1>6. CASE Clean(s, main)
  <2>1. \A r \in Servers \ {s} : at'[r] = at[r] /\ pid'[r] = pid[r] /\ hook'[r] = hook[r]
    BY <1>6 DEF Clean, Back, Goto, TypeOK
  <2>2. hook'[s] = (hook[s] /\ at[s][main] = "cleanKilled") /\ at[s][main] \in {"clean", "cleanKilled"}
    BY <1>6 DEF Clean, TypeOK
  <2> QED
    BY <1>1, <1>6, <2>1, <2>2 DEF Clean
<1> QED
  BY <1>1, <1>2, <1>3, <1>4, <1>5, <1>6 DEF Step

\* Only a step of a call launches a daemon, that of the call's server.
LEMMA LaunchRuns ==
    ASSUME ProgramTypeOK, Places, [ProgramNext]_pvars,
           NEW s \in Servers, NEW t \in Threads, Launch(s, t)
    PROVE  Run(s) /\ Launch(s, main) /\ s # None
<1> USE MainThread, NamesAssumption
<1>1. TypeOK /\ t = main
  BY ProgramAssumption DEF ProgramTypeOK
<1>2. at[s][main] = "launch" /\ at'[s][main] = "wait"
  BY <1>1, LaunchedOne DEF Launches
<1>3. PICK r \in Servers : Run(r)
  BY <1>2, Moves
<1> QED
  BY <1>1, <1>2, <1>3, RunMoves

\* A server is started once, and a pidfile names the daemon that its server has
\* launched.
LEMMA Births ==
    ASSUME OwnDirectories, IInv, ProgramTypeOK, Places, LeftInv, [ProgramNext]_pvars
    PROVE  /\ \A r \in Servers : DaemonsOf(r)' \subseteq DaemonsOf(r) \/ Launches(r)
           /\ PidfileInv'
           /\ NoBirth \/ \E s \in Servers : Run(s) /\ Launch(s, main)
<1> USE MainThread, NamesAssumption
<1>0. TypeOK /\ PidfileInv
  BY DEF IInv, LeftInv
<1>1. CASE NoBirth
  <2>1. \A r \in Servers : DaemonsOf(r)' \subseteq DaemonsOf(r)
    BY <1>1 DEF NoBirth, DaemonsOf
  <2>2. PidfileInv'
    BY <1>0, <1>1 DEF PidfileInv, NoBirth, Launched, TypeOK
  <2> QED
    BY <1>1, <2>1, <2>2
<1>2. CASE Abandon
  BY <1>1, <1>2 DEF Abandon, daemons, files, NoBirth, Launched
<1>3. CASE [Next]_vars /\ \A s \in Servers, t \in Threads : ~Launch(s, t)
  BY <1>0, <1>1, <1>3, OnlyLaunches
<1>4. ASSUME NEW s \in Servers, NEW t \in Threads, Launch(s, t)
      PROVE  /\ Run(s) /\ Launch(s, main) /\ PidfileInv'
             /\ \A r \in Servers : DaemonsOf(r)' \subseteq DaemonsOf(r) \/ Launches(r)
  <2>1. Run(s) /\ Launch(s, main)
    BY <1>4, LaunchRuns
  <2>2. \A r \in Servers : DaemonsOf(r)' \subseteq DaemonsOf(r) \/ Launches(r)
    BY <1>0, <2>1, LaunchedOne DEF DaemonsOf
  <2>3. \A p \in Pids : proc[p] # "free" => proc'[p] = proc[p] /\ home'[p] = home[p]
    BY <1>0, <2>1, LaunchedOne
  <2>4. PidfileInv'
    BY <1>0, <2>1, <2>3, LaunchedOne DEF PidfileInv, TypeOK
  <2> QED
    BY <2>1, <2>2, <2>4
<1> QED
  BY <1>2, <1>3, <1>4, StepsOfServers

LEMMA OnceKept ==
    ASSUME OwnDirectories, IInv, ProgramTypeOK, Places, LeftInv, [ProgramNext]_pvars
    PROVE  Once'
<1> DEFINE Early == {"check", "port", "conf", "launch"}
           Unborn(r) == \A p \in Pids : Launched(p) => home[p] # r
<1> USE MainThread
<1>0. TypeOK /\ Once
  BY DEF IInv, LeftInv
<1>1. pc' = "begin" => pc = "begin"
  BY DEF ProgramNext, Advance, CliStart, CliStarted, CliHandle, CliLoop, SessionStart, SessionStarted,
         Created, EndTest, TearDown, EndSession, Leave, BeginTest, Create, UseServer, Become, Run,
         Sigint, Sigterm, RequestStop, Interrupted, Killed, Machine, pvars, own
<1>2. program' = program /\ created \subseteq created'
  BY DEF ProgramNext, Advance, CliStart, CliStarted, CliHandle, CliLoop, SessionStart, SessionStarted,
         Created, EndTest, TearDown, EndSession, Leave, BeginTest, Create, UseServer, Become, Run,
         Sigint, Sigterm, RequestStop, Interrupted, Killed, Machine, pvars, own, fixtures
<1>3. ASSUME NEW r \in Servers, at'[r][main] \in Early
      PROVE  (Unborn(r) /\ at[r][main] # "launch") \/ (Unborn(r) /\ at'[r][main] = at[r][main])
  <2> DEFINE Fresh == (Unborn(r) /\ at[r][main] # "launch") \/ (Unborn(r) /\ at'[r][main] = at[r][main])
  <2>1. CASE at'[r][main] = at[r][main]
    BY <1>0, <1>3, <2>1 DEF Once, StartSteps
  <2>2. ASSUME NEW s \in Servers, Run(s), at'[r][main] # at[r][main] PROVE Fresh
    <3>1. r = s
      BY <1>0, <2>2, RunMoves
    <3>2. at[r][main] \in {"check", "port", "conf"}
      BY <1>0, <1>3, <2>2, <3>1 DEF Run, Step, CheckRunning, ChoosePort, WriteConf, Launch, AwaitLauncher, PingAnswered,
         PingTimeout, BeginStop, Shutdown, BindProcess, Signal, SignalForeign, Clean, Back,
         BeginTerminate, Kill, Goto, TypeOK
    <3> QED
      BY <1>0, <3>2 DEF Once, StartSteps
  <2>3. ASSUME pc = "begin", at[r][main] = "idle" PROVE Fresh
    BY <1>0, <2>3 DEF Once
  <2>4. CASE CliStart \/ SessionStart
    BY <1>0, <2>3, <2>4 DEF CliStart, SessionStart, Free
  <2>5. ASSUME Create, at'[r][main] # at[r][main] PROVE Fresh
    <3>1. PICK s \in Servers \ (created \cup {Session}) : Invoke(s, "check")
      BY <2>5 DEF Create
    <3>2. Resting /\ program = "pytest"
      BY <2>5 DEF Create, Free, Resting, Places, PathsOK, ProgramTypeOK, Ended
    <3>3. r = s
      BY <1>0, <2>5, <3>1, <3>2, Invoked DEF Steps, StartSteps, Resting
    <3> QED
      BY <1>0, <3>1, <3>2, <3>3 DEF Once, Resting
  <2>6. ASSUME NEW s \in Servers, Invoke(s, "stop") \/ Invoke(s, "terminate") \/ Exit(s, main)
        PROVE  at'[r][main] = at[r][main]
    <3>1. Goto(s, main, "stop") \/ Goto(s, main, "terminate") \/ UNCHANGED at
      BY <2>6 DEF Invoke, Exit
    <3>2. ASSUME NEW call \in {"stop", "terminate"}, Goto(s, main, call)
          PROVE  at'[r][main] \in {call, at[r][main]}
      BY <1>0, <3>2, GotoTyped DEF Steps, StopSteps, KillSteps
    <3> QED
      BY <1>3, <3>1, <3>2
  <2>7. callee \in Servers /\ Session \in Servers /\ (\A i \in DOMAIN servers : servers[i] \in Servers)
        /\ (servers # <<>> => Head(servers) \in Servers)
    BY ProgramAssumption DEF ProgramTypeOK, Places, ListOK
  <2>8. UNCHANGED world \/ Abandon => at'[r][main] = at[r][main]
    BY <1>3 DEF world, calls, Abandon
  <2>9. CliLoop \/ UseServer \/ TearDown \/ EndSession \/ Leave => at'[r][main] = at[r][main]
    BY <2>6, <2>7, <2>8 DEF CliLoop, UseServer, TearDown, EndSession, Leave
  <2>10. CliStarted \/ CliHandle \/ SessionStarted \/ Created \/ EndTest \/ BeginTest \/ Sigint \/ Sigterm
            => at'[r][main] = at[r][main]
    BY <2>8 DEF CliStarted, CliHandle, SessionStarted, Created, EndTest, BeginTest, Sigint, Sigterm,
                RequestStop, Interrupted, Killed
  <2>11. Machine \/ UNCHANGED pvars => at'[r][main] = at[r][main]
    BY DEF Machine, Boot, WritePidfile, Serve, BindFails, Die, Crash, ReusePid, TakePort, pvars, world, calls
  <2> QED
    BY <2>1, <2>2, <2>4, <2>5, <2>9, <2>10, <2>11 DEF ProgramNext, Advance
<1>4. CASE NoBirth
  <2>1. /\ \A p \in Pids : (Launched(p)' <=> Launched(p)) /\ home'[p] = home[p]
    BY <1>4 DEF NoBirth
  <2> QED
    BY <1>0, <1>1, <1>2, <1>3, <2>1 DEF Once, StartSteps
<1>5. ASSUME NEW s \in Servers, Run(s), Launch(s, main) PROVE Once'
  <2>1. Unborn(s) /\ at[s][main] = "launch" /\ at'[s][main] = "wait"
    BY <1>0, <1>5, LaunchedOne DEF Once, StartSteps, Launches
  <2>2. \A p \in Pids : \/ (Launched(p)' <=> Launched(p)) /\ home'[p] = home[p]
                        \/ ~Launched(p) /\ Launched(p)' /\ home'[p] = s
    BY <1>0, <1>5, LaunchedOne DEF Launched
  <2>3. pc # "begin" /\ (program = "pytest" => s \in created \cup {Session})
    BY <2>1 DEF Places, CallsOK, PathsOK, StartSteps
  <2>4. \A r \in Servers : at'[r][main] \in Early => r # s /\ Unborn(r)
    BY <1>3, <2>1
  <2>5. \A p, q \in Pids : Launched(p)' /\ Launched(q)' /\ home'[p] = home'[q] => p = q
    <3>1. \A p, q \in Pids : Launched(p)' /\ ~Launched(p) /\ Launched(q)' /\ ~Launched(q) => p = q
      BY <1>0, <1>5, LaunchedOne DEF Launched
    <3>2. \A p, q \in Pids : Launched(p) /\ Launched(q) /\ home[p] = home[q] => p = q
      BY <1>0 DEF Once
    <3> QED
      BY <2>1, <2>2, <3>1, <3>2
  <2> QED
    BY <1>0, <1>1, <1>2, <2>2, <2>3, <2>4, <2>5 DEF Once, StartSteps
<1> QED
  BY <1>4, <1>5, Births

\* A start goes on waiting for its launcher, registers its hook, or is cut off.
LEMMA WaitKept ==
    ASSUME ProgramTypeOK, Places, [ProgramNext]_pvars, pc' # "killed",
           NEW r \in Servers, at[r][main] = "wait"
    PROVE  at'[r][main] = "wait" \/ hook'[r] \/ DaemonsOf(r) \subseteq unhooked'
<1> DEFINE Kept == at'[r][main] = "wait" \/ hook'[r] \/ DaemonsOf(r) \subseteq unhooked'
<1> USE MainThread
<1>0. TypeOK /\ ~Resting
  BY DEF ProgramTypeOK, Resting
<1>1. ASSUME NEW s \in Servers, Run(s) PROVE Kept
  <2>1. CASE s # r
    BY <1>0, <1>1, <2>1, RunMoves
  <2>2. CASE s = r
    <3>1. AwaitLauncher(r, main)
      BY <1>1, <2>2 DEF Run, Step, CheckRunning, ChoosePort, WriteConf, Launch, PingAnswered, PingTimeout,
           BeginStop, Shutdown, BindProcess, Signal, SignalForeign, Clean, BeginTerminate, Kill
    <3> QED
      BY <1>0, <3>1 DEF AwaitLauncher, RegisterHook, TypeOK
  <2> QED
    BY <2>1, <2>2
<1>2. ~(Advance \/ BeginTest \/ Create \/ UseServer)
  BY <1>0 DEF Resting, Advance, CliStart, CliStarted, CliHandle, CliLoop, SessionStart, SessionStarted,
         Created, EndTest, TearDown, EndSession, Leave, BeginTest, Create, UseServer, Free
<1>3. UNCHANGED world => Kept
  BY DEF world, calls
<1>4. CASE Sigint
  <2>1. Interrupted => DaemonsOf(r) \subseteq unhooked'
    BY DEF Interrupted, Unhooked
  <2> QED
    BY <1>3, <1>4, <2>1 DEF Sigint, RequestStop
<1>5. CASE Sigterm
  BY <1>3, <1>5 DEF Sigterm, RequestStop, Killed
<1>6. CASE Machine \/ UNCHANGED pvars
  BY <1>6 DEF Machine, Boot, WritePidfile, Serve, BindFails, Die, Crash, ReusePid, TakePort, pvars, world, calls
<1> QED
  BY <1>1, <1>2, <1>4, <1>5, <1>6 DEF ProgramNext

\* A program that was killed does no more.
LEMMA KilledKept == ASSUME [ProgramNext]_pvars, pc = "killed" PROVE pc' = "killed"
BY DEF ProgramNext, Advance, CliStart, CliStarted, CliHandle, CliLoop, SessionStart, SessionStarted,
       Created, EndTest, TearDown, EndSession, Leave, BeginTest, Create, UseServer, Free, Run,
       Sigint, Sigterm, MaySignal, Ended, Machine, pvars, own

\* A daemon is left to its hook, or was overlooked, or its start was cut off.
LEMMA HookedKept ==
    ASSUME OwnDirectories, IInv, ProgramTypeOK, TypeOK', Places, LeftInv, [ProgramNext]_pvars
    PROVE  Hooked'
<1> SUFFICES ASSUME pc' # "killed" PROVE Hooked'
  BY DEF Hooked
<1> USE MainThread
<1>1. \A p \in Pids : proc'[p] \in Live => home'[p] \in Servers /\ p \in DaemonsOf(home[p])'
  BY DEF TypeOK, DaemonsOf, Live
<1>2. unseen \subseteq unseen' /\ unhooked \subseteq unhooked' /\ pc # "killed"
  BY Moves, KilledKept
<1>3. \A r \in Servers : hook[r] => hook'[r] \/ at[r][main] = "clean"
  BY Moves, RunMoves DEF ProgramTypeOK
<1>4. ASSUME NEW p \in Pids, NEW r \in Servers, p \in DaemonsOf(r)'
      PROVE  hook'[r] \/ at'[r][main] = "wait" \/ p \in unseen' \cup unhooked'
  <2>1. CASE Launches(r)
    BY <2>1 DEF Launches
  <2>2. CASE p \in DaemonsOf(r)
    <3>1. hook[r] \/ at[r][main] = "wait" \/ p \in unseen \cup unhooked
      BY <1>2, <2>2 DEF DaemonsOf, LeftInv, Hooked
    <3>2. at[r][main] = "clean" => p \in unseen
      BY <2>2 DEF LeftInv, StopsOK
    <3>3. at[r][main] = "wait" => at'[r][main] = "wait" \/ hook'[r] \/ p \in unhooked'
      BY <2>2, WaitKept
    <3> QED
      BY <1>2, <1>3, <3>1, <3>2, <3>3
  <2> QED
    BY <1>4, <2>1, <2>2, Births
<1> QED
  BY <1>1, <1>4 DEF Hooked

\* A stop ends the daemon that it captured, and no other is there.
LEMMA StopsKept ==
    ASSUME OwnDirectories, IInv, ProgramTypeOK, Places, LeftInv, [ProgramNext]_pvars
    PROVE  StopsOK'
<1> DEFINE Ok(r) == /\ at[r][main] \in {"shutdown", "term", "signal", "signalForeign"} =>
                          pid[r][main] # None /\ DaemonsOf(r) \subseteq {pid[r][main]}
                    /\ at[r][main] = "signalForeign" => DaemonsOf(r) = {}
                    /\ at[r][main] = "clean" => DaemonsOf(r) \subseteq unseen
<1> USE MainThread, NamesAssumption
<1>0. TypeOK /\ Once /\ PidfileInv /\ \A r \in Servers : Ok(r)
  BY DEF ProgramTypeOK, LeftInv, StopsOK
<1>1. unseen \subseteq unseen'
  BY Moves
<1>2. \A r \in Servers : DaemonsOf(r)' \subseteq DaemonsOf(r) \/ Launches(r)
  BY Births
<1>3. ASSUME NEW r \in Servers, at'[r][main] = at[r][main], pid'[r][main] = pid[r][main] PROVE Ok(r)'
  <2>1. DaemonsOf(r)' \subseteq DaemonsOf(r)
    BY <1>2, <1>3 DEF Launches
  <2> QED
    BY <1>0, <1>1, <1>3, <2>1
<1>4. ASSUME NEW r \in Servers, at'[r][main] \in {"idle", "check", "stop", "terminate", "wait", "ping",
                                                   "port", "conf", "launch", "cleanKilled", "kill",
                                                   "killForeign"}
      PROVE  Ok(r)'
  BY <1>4
<1>5. ASSUME NEW s \in Servers, Run(s) PROVE Ok(s)'
  <2>0. DaemonsOf(s)' \subseteq DaemonsOf(s) \/ Launches(s)
    BY <1>2
  <2>1. CASE CheckRunning(s, main) \/ ChoosePort(s, main) \/ WriteConf(s, main) \/ Launch(s, main)
             \/ AwaitLauncher(s, main) \/ PingAnswered(s, main) \/ PingTimeout(s, main) \/ Kill(s, main)
    <3>1. at'[s][main] \in {"idle", "wait", "ping", "port", "conf", "launch", "cleanKilled"}
      BY <1>0, <2>1 DEF CheckRunning, ChoosePort, WriteConf, Launch, AwaitLauncher, PingAnswered, PingTimeout, Kill,
                        Goto, TypeOK
    <3> QED
      BY <1>4, <3>1
  <2>2. CASE BeginStop(s, main)
    <3>1. /\ at[s][main] = "stop" /\ pid'[s][main] = PidOf(s)
          /\ at'[s][main] = IF PidOf(s) = None THEN "clean" ELSE "shutdown"
          /\ DaemonsOf(s)' = DaemonsOf(s)
      BY <1>0, <2>2 DEF BeginStop, Goto, TypeOK, daemons, DaemonsOf
    <3>2. CASE PidOf(s) = None
      <4>1. DaemonsOf(s) \subseteq unseen'
        BY <1>5, <3>1, <3>2 DEF Run, Overlooked
      <4> QED
        BY <3>1, <3>2, <4>1
    <3>3. CASE PidOf(s) # None
      <4>1. PidOf(s) \in Pids /\ home[PidOf(s)] = s /\ Launched(PidOf(s))
        BY <1>0, <3>3, SoleDirectory DEF PidOf, PidfileInv, Launched, TypeOK
      <4>2. DaemonsOf(s) \subseteq {PidOf(s)}
        BY <1>0, <4>1 DEF Once, DaemonsOf, Launched, Live
      <4> QED
        BY <3>1, <3>3, <4>2
    <3> QED
      BY <3>2, <3>3
  <2>3. CASE Shutdown(s, main)
    <3>1. at[s][main] = "shutdown" /\ at'[s][main] = "term" /\ pid' = pid
      BY <1>0, <2>3 DEF Shutdown, Goto, TypeOK
    <3> QED
      BY <1>0, <2>0, <3>1 DEF Launches
  <2>4. CASE BindProcess(s, main)
    <3>1. /\ at[s][main] = "term" /\ pid' = pid
          /\ at'[s][main] = IF ~Exists(pid[s][main]) THEN "clean"
                            ELSE IF proc[pid[s][main]] = "foreign" THEN "signalForeign" ELSE "signal"
          /\ DaemonsOf(s)' = DaemonsOf(s)
      BY <1>0, <2>4 DEF BindProcess, Goto, TypeOK, daemons, DaemonsOf
    <3>2. pid[s][main] \in Pids /\ DaemonsOf(s) \subseteq {pid[s][main]}
      BY <1>0, <3>1 DEF TypeOK
    <3>3. ~Exists(pid[s][main]) \/ proc[pid[s][main]] = "foreign" => DaemonsOf(s) = {}
      BY <3>2 DEF Exists, DaemonsOf, Live
    <3> QED
      BY <3>1, <3>2, <3>3
  <2>5. CASE Signal(s, main)
    <3>1. at[s][main] = "signal" /\ at'[s][main] = "clean" /\ Escalate(pid[s][main]) /\ home' = home
      BY <1>0, <2>5 DEF Signal, Goto, TypeOK
    <3>2. pid[s][main] \in Pids /\ DaemonsOf(s) \subseteq {pid[s][main]}
      BY <1>0, <3>1 DEF TypeOK
    <3>3. proc'[pid[s][main]] \notin Live
      BY <1>0, <3>1, <3>2 DEF Escalate, ExitOrderly, ExitKilled, SendKill, TypeOK, Live
    <3>4. DaemonsOf(s)' \subseteq DaemonsOf(s)
      BY <2>0, <3>1 DEF Launches
    <3>5. DaemonsOf(s)' = {}
      BY <3>2, <3>3, <3>4 DEF DaemonsOf
    <3> QED
      BY <3>1, <3>5
  <2>6. CASE SignalForeign(s, main)
    <3>1. at[s][main] = "signalForeign" => DaemonsOf(s)' = {}
      BY <1>0, <2>0 DEF Launches
    <3>2. at'[s][main] = IF at[s][main] = "signalForeign" THEN "clean" ELSE "cleanKilled"
      BY <1>0, <2>6 DEF SignalForeign, Goto, TypeOK
    <3> QED
      BY <3>1, <3>2
  <2>7. CASE Clean(s, main)
    <3>1. at'[s][main] = "idle"
      BY <1>0, <2>7 DEF Clean, Back, Goto, TypeOK
    <3> QED
      BY <1>4, <3>1
  <2>8. CASE BeginTerminate(s, main)
    <3>1. at'[s][main] \in {"cleanKilled", "kill", "killForeign"}
      BY <1>0, <2>8 DEF BeginTerminate, Goto, TypeOK
    <3> QED
      BY <1>4, <3>1
  <2> QED
    BY <1>5, <2>1, <2>2, <2>3, <2>4, <2>5, <2>6, <2>7, <2>8 DEF Run, Step
<1>6. \A r \in Servers : Ok(r)'
  <2>1. ASSUME NEW s \in Servers, Run(s), NEW r \in Servers PROVE Ok(r)'
    BY <1>0, <1>3, <1>5, <2>1, RunMoves
  <2> QED
    BY <1>3, <1>4, <2>1, Moves
<1> QED
  BY <1>6 DEF StopsOK

\* A hook that runs stops its server before the next one runs.
LEMMA HooksKept ==
    ASSUME ProgramTypeOK, Places, HooksRun, [ProgramNext]_pvars
    PROVE  HooksRun'
<1> USE MainThread
<1>0. TypeOK /\ CallsOK
  BY DEF ProgramTypeOK, Places
<1>1. CASE Leave
  <2>1. ASSUME NEW s \in Servers, hook[s], Exit(s, main), pc' = "leaving" PROVE HooksRun'
    <3>1. /\ at'[s][main] = "stop" /\ \A r \in Servers \ {s} : at'[r] = at[r] /\ exited'[r] = exited[r]
          /\ UNCHANGED hook
      BY <1>0, <2>1 DEF Exit, Goto, TypeOK
    <3> QED
      BY <1>1, <2>1, <3>1 DEF HooksRun, Leave, Free, StopSteps
  <2>2. CASE (\A s \in Servers : hook[s] => exited[s]) /\ pc' = "ended" /\ UNCHANGED world
    <3>1. \A s \in Servers : ~hook[s]
      BY <1>1, <2>2 DEF HooksRun, Leave, Free, StopSteps
    <3> QED
      BY <2>2, <3>1 DEF HooksRun, world, object
  <2> QED
    BY <1>1, <2>1, <2>2 DEF Leave, Become
<1>2. ASSUME NEW s \in Servers, Run(s) PROVE HooksRun'
  <2>1. pc # "ended"
    BY <1>0, <1>2 DEF CallsOK, Resting, Run, Step, CheckRunning, ChoosePort, WriteConf, Launch, AwaitLauncher,
          PingAnswered, PingTimeout, BeginStop, Shutdown, BindProcess, Signal, SignalForeign, Clean,
          BeginTerminate, Kill
  <2>2. ASSUME exited[s], hook'[s], pc # "killed" PROVE at'[s][main] \in StopSteps
    <3>1. hook[s] /\ at[s][main] # "clean"
      BY <1>0, <1>2, <2>2, RunMoves DEF CallsOK, StartSteps, Ended
    <3>2. at[s][main] \in StopSteps \ {"clean"}
      BY <2>2, <3>1 DEF HooksRun
    <3>3. BeginStop(s, main) \/ Shutdown(s, main) \/ BindProcess(s, main) \/ Signal(s, main)
             \/ SignalForeign(s, main)
      BY <1>2, <3>2 DEF Run, Step, StopSteps, CheckRunning, ChoosePort, WriteConf, Launch, AwaitLauncher, PingAnswered,
                        PingTimeout, Clean, BeginTerminate, Kill
    <3> QED
      BY <1>0, <3>2, <3>3 DEF BeginStop, Shutdown, BindProcess, Signal, SignalForeign, Goto, TypeOK,
                              StopSteps
  <2> QED
    BY <1>0, <1>2, <2>1, <2>2, RunMoves DEF HooksRun
<1>3. /\ UNCHANGED <<object, calls, pc>> => HooksRun'
      /\ (UNCHANGED object /\ pc' = "killed") => HooksRun'
      /\ (UNCHANGED object /\ pc' \notin {"killed", "ended"} /\ \A s \in Servers : ~exited[s])
            => HooksRun'
  BY DEF HooksRun, object, calls
<1>4. pc \notin {"leaving"} \cup Ended => \A s \in Servers : ~exited[s]
  BY <1>0 DEF CallsOK
<1>5. CASE CliStart \/ CliStarted \/ CliHandle \/ CliLoop
  BY <1>3, <1>4, <1>5 DEF CliStart, CliStarted, CliHandle, CliLoop, Free, Become, Invoke, Ended, world
<1>6. CASE SessionStart \/ SessionStarted \/ EndSession
  BY <1>3, <1>4, <1>6 DEF SessionStart, SessionStarted, EndSession, Free, Become, Invoke, Ended, world
<1>7. CASE BeginTest \/ Create \/ Created \/ UseServer
  BY <1>3, <1>4, <1>7 DEF BeginTest, Create, Created, UseServer, Free, Become, Invoke, Ended, world
<1>8. CASE EndTest \/ TearDown
  BY <1>3, <1>4, <1>8 DEF EndTest, TearDown, Free, Become, Invoke, Ended, world
<1>9. CASE Sigint \/ Sigterm
  <2>1. Sigint => (UNCHANGED <<object, calls, pc>>)
                     \/ (UNCHANGED object /\ pc' \notin {"killed", "ended"} /\ \A s \in Servers : ~exited[s])
    BY DEF Sigint, MaySignal, RequestStop, Interrupted, Abandon, world
  <2>2. Sigterm => (UNCHANGED <<object, calls, pc>>) \/ (UNCHANGED object /\ pc' = "killed")
    BY DEF Sigterm, RequestStop, Killed, Abandon, world
  <2> QED
    BY <1>3, <1>9, <2>1, <2>2
<1>10. CASE Machine \/ UNCHANGED pvars
  <2>1. UNCHANGED <<object, calls, pc>>
    BY <1>10 DEF Machine, Boot, WritePidfile, Serve, BindFails, Die, Crash, ReusePid, TakePort, pvars, world,
                 own
  <2> QED
    BY <1>3, <2>1
<1> QED
  BY <1>1, <1>2, <1>5, <1>6, <1>7, <1>8, <1>9, <1>10 DEF ProgramNext, Advance

\* Whatever a signal cuts off, this is kept.
LEMMA LeftKept ==
    ASSUME OwnDirectories, IInv, ProgramTypeOK, TypeOK', Places, LeftInv, [ProgramNext]_pvars
    PROVE  LeftInv'
BY OnceKept, Births, HookedKept, StopsKept, HooksKept DEF LeftInv

-----------------------------------------------------------------------------
(* Part 4: the servers of the fixtures.                                    *)

\* A start raises where it has no daemon: it had none when it looked, or nobody
\* answered on the port that its daemon would have been listening to.
LEMMA RaisesEmpty ==
    ASSUME Orderly, TypeOK, SerialInv, NEW s \in Servers, Step(s, main), StartRaises(s),
           at'[s][main] = "idle"
    PROVE  DaemonsOf(s)' = {}
<1> USE MainThread, NamesAssumption
<1>1. CASE at[s][main] = "conf"
  <2>1. DaemonsOf(s) = {}
    BY <1>1 DEF SerialInv, CallInv, CallOk
  <2>2. WriteConf(s, main)
    BY <1>1 DEF Step, CheckRunning, ChoosePort, Launch, AwaitLauncher, PingAnswered, PingTimeout, BeginStop,
                Shutdown, BindProcess, Signal, SignalForeign, Clean, BeginTerminate, Kill
  <2> QED
    BY <2>1, <2>2 DEF WriteConf, daemons, DaemonsOf
<1>2. CASE at[s][main] = "ping" /\ Answering(s) = None
  <2>1. PingTimeout(s, main)
    BY <1>2 DEF Step, CheckRunning, ChoosePort, WriteConf, Launch, AwaitLauncher, PingAnswered, BeginStop, Shutdown,
                BindProcess, Signal, SignalForeign, Clean, BeginTerminate, Kill
  <2>2. \A p \in DaemonsOf(s) : proc[p] = "up"
    BY <2>1 DEF PingTimeout, Orderly, DaemonsOf, Live
  <2>3. \A p \in DaemonsOf(s) : tport[p] = port[s] /\ port[s] \in Ports /\ tcp[port[s]] = p
    BY <2>2, Housed DEF SerialInv, DaemonInv, DaemonsOf
  <2>4. DaemonsOf(s) = {}
    BY <1>2, <2>2, <2>3 DEF Answering, DaemonsOf
  <2> QED
    BY <2>1, <2>4 DEF PingTimeout, daemons, DaemonsOf
<1> QED
  BY <1>1, <1>2 DEF StartRaises

\* A start that has raised has left no daemon.
LEMMA RaisedKept ==
    ASSUME Orderly, IInv, ProgramTypeOK, Places, Calm => SerialInv, RaisedInv, [ProgramNext]_pvars
    PROVE  RaisedInv'
<1> SUFFICES ASSUME Calm', pc' = "created", raised', at'[callee'][main] = "idle"
             PROVE  DaemonsOf(callee)' = {}
  BY DEF RaisedInv
<1> USE MainThread
<1>0. TypeOK /\ callee \in Servers /\ Calm /\ SerialInv /\ [Next]_vars
  BY CalmBefore, StepsOfServers DEF ProgramTypeOK
<1>1. ASSUME NEW s \in Servers, Run(s) PROVE DaemonsOf(callee)' = {}
  <2>1. StartRaises(s) /\ at'[s][main] = "idle" /\ pc = "created" /\ callee' = callee /\ Step(s, main)
    BY <1>1 DEF Run
  <2>2. s = callee
    BY <2>1 DEF StartRaises, Places, CallsOK, StartSteps
  <2> QED
    BY <1>0, <2>1, <2>2, RaisesEmpty
<1>2. CASE Create
  BY <1>0, <1>2 DEF Create, Invoke, Goto, TypeOK
<1>3. CASE UNCHANGED <<pc, callee, raised, at>>
  <2>1. DaemonsOf(callee) = {}
    BY <1>0, <1>3 DEF RaisedInv
  <2>2. \A t \in Threads : \A s \in Servers : ~Launch(s, t)
    BY <1>0, <1>3 DEF Launch, Goto, TypeOK
  <2> QED
    BY <1>0, <1>3, <2>1, <2>2, OnlyLaunches DEF NoBirth, DaemonsOf, Orderly, OwnDirectories
<1>4. CASE Sigint \/ Sigterm
  <2>1. UNCHANGED <<pc, callee, raised, at>>
    BY <1>0, <1>4 DEF Sigint, Sigterm, RequestStop, Interrupted, Killed, world, calls, Ended, MaySignal,
                      Places, PathsOK, Calm, ProgramTypeOK
  <2> QED
    BY <1>3, <2>1
<1>5. CASE Machine \/ UNCHANGED pvars
  BY <1>3, <1>5 DEF Machine, Boot, WritePidfile, Serve, BindFails, Die, Crash, ReusePid, TakePort, pvars,
                    world, own, calls
<1>6. ~(Advance \/ BeginTest \/ UseServer)
  BY DEF Advance, CliStart, CliStarted, CliHandle, CliLoop, SessionStart, SessionStarted, Created,
         EndTest, TearDown, EndSession, Leave, BeginTest, UseServer, Become
<1> QED
  BY <1>1, <1>2, <1>4, <1>5, <1>6 DEF ProgramNext

\* Every daemon of a pytest session has a fixture that will stop it.
LEMMA FixtureKept ==
    ASSUME Orderly, IInv, ProgramTypeOK, TypeOK', Places, Calm => SerialInv, RaisedInv, FixtureInv,
           [ProgramNext]_pvars
    PROVE  FixtureInv'
<1> USE MainThread
<1> DEFINE Has(r) == \/ r = Session
                     \/ \E i \in DOMAIN servers : servers[i] = r
                     \/ at[r][main] \in StopSteps
                     \/ pc = "created" /\ r = callee
<1> SUFFICES ASSUME program' = "pytest", Calm', NEW r \in Servers, NEW p \in DaemonsOf(r)'
             PROVE  Has(r)'
  <2>1. \A p \in Pids : proc'[p] \in Live => home'[p] \in Servers /\ p \in DaemonsOf(home[p])'
    BY DEF TypeOK, DaemonsOf, Live
  <2> QED
    BY <2>1 DEF FixtureInv
<1>0. TypeOK /\ callee \in Servers /\ Calm /\ SerialInv /\ [Next]_vars
  BY CalmBefore, StepsOfServers DEF ProgramTypeOK
<1>1. program = "pytest"
  BY DEF ProgramNext, Advance, CliStart, CliStarted, CliHandle, CliLoop, SessionStart, SessionStarted,
         Created, EndTest, TearDown, EndSession, Leave, BeginTest, Create, UseServer, Become, Run,
         Sigint, Sigterm, Machine, pvars, own
<1>2. ASSUME NEW s \in Servers, Launch(s, main), Run(s) PROVE Has(r)'
  <2>0. UNCHANGED <<servers, pc, callee>>
    BY <1>2 DEF Run, fixtures
  <2>1. CASE r = s
    BY <1>1, <1>2, <2>0, <2>1 DEF Launch, Places, CallsOK, PathsOK, StartSteps, Ended
  <2>2. CASE r # s
    <3>1. p \in DaemonsOf(r) /\ at'[r] = at[r]
      BY <1>0, <1>2, <2>2, LaunchedOne DEF DaemonsOf
    <3>2. Has(r)
      BY <1>1, <1>0, <3>1 DEF FixtureInv, DaemonsOf
    <3> QED
      BY <2>0, <3>1, <3>2
  <2> QED
    BY <2>1, <2>2
<1>3. ASSUME \A s \in Servers, t \in Threads : ~Launch(s, t)
      PROVE  Has(r) /\ p \in DaemonsOf(r)
  <2>1. p \in DaemonsOf(r)
    BY <1>0, <1>3, OnlyLaunches DEF NoBirth, DaemonsOf, Orderly, OwnDirectories
  <2> QED
    BY <1>0, <1>1, <2>1 DEF FixtureInv, DaemonsOf
<1>4. (\E s \in Servers, t \in Threads : Launch(s, t)) => \E s \in Servers : Launch(s, main) /\ ~Idle(s)
  BY ProgramAssumption DEF Launch, Idle
<1>5. ASSUME NEW s \in Servers, Run(s) PROVE Has(r)'
  <2>0. UNCHANGED <<servers, pc, callee>>
    BY <1>5 DEF Run, fixtures
  <2>1. CASE Launch(s, main)
    BY <1>2, <1>5, <2>1
  <2>2. CASE ~Launch(s, main)
    <3>1. \A q \in Servers : q # s => ~Launch(q, main)
      BY <1>0, <1>5, RunMoves DEF Launch, Goto, TypeOK
    <3>2. Has(r) /\ p \in DaemonsOf(r)
      BY <1>3, <1>4, <2>2, <3>1
    <3>3. CASE r # s
      BY <1>0, <1>5, <2>0, <3>2, <3>3, RunMoves
    <3>4. CASE r = s /\ at[s][main] \in StopSteps
      <4>1. at[s][main] # "clean"
        BY <1>0, <3>2, <3>4 DEF SerialInv, CallInv, CallOk
      <4>2. BeginStop(s, main) \/ Shutdown(s, main) \/ BindProcess(s, main) \/ Signal(s, main)
               \/ SignalForeign(s, main)
        BY <1>5, <3>4, <4>1 DEF Run, Step, StopSteps, CheckRunning, ChoosePort, WriteConf, Launch, AwaitLauncher,
                                PingAnswered, PingTimeout, Clean, BeginTerminate, Kill
      <4>3. at'[s][main] \in StopSteps
        BY <1>0, <3>4, <4>1, <4>2 DEF BeginStop, Shutdown, BindProcess, Signal, SignalForeign, Goto,
                                      TypeOK, StopSteps
      <4> QED
        BY <3>4, <4>3
    <3>5. CASE at[s][main] \notin StopSteps /\ r = s
      BY <2>0, <3>2, <3>5
    <3> QED
      BY <3>3, <3>4, <3>5
  <2> QED
    BY <2>1, <2>2
<1>6. CASE CliStart \/ CliStarted \/ CliHandle \/ CliLoop
  BY <1>1, <1>6 DEF CliStart, CliStarted, CliHandle, CliLoop, Free, Places, PathsOK
<1>7. ASSUME Resting, daemons' = daemons
      PROVE  /\ p \in DaemonsOf(r)
             /\ \/ r = Session
                \/ \E i \in DOMAIN servers : servers[i] = r
                \/ pc = "created" /\ r = callee
  <2>1. p \in DaemonsOf(r)
    BY <1>7 DEF daemons, DaemonsOf
  <2> QED
    BY <1>0, <1>1, <1>7, <2>1 DEF FixtureInv, DaemonsOf, Resting, StopSteps
<1>8. CASE SessionStart \/ SessionStarted \/ BeginTest \/ EndTest \/ EndSession \/ Create \/ UseServer
  <2>1. Resting /\ daemons' = daemons /\ pc # "created" /\ servers' = servers
    BY <1>8 DEF SessionStart, SessionStarted, BeginTest, EndTest, EndSession, Create, UseServer, Free,
                Resting, Invoke, world, fixtures
  <2> QED
    BY <1>7, <2>1
<1>9. CASE Leave
  <2>1. Resting /\ daemons' = daemons /\ pc # "created" /\ servers' = servers
    BY <1>9 DEF Leave, Free, Resting, Exit, world, fixtures
  <2> QED
    BY <1>7, <2>1
<1>10. CASE Created
  <2>1. Resting /\ daemons' = daemons /\ pc = "created"
    BY <1>10 DEF Created, Free, Resting, world
  <2>2. CASE raised
    <3>1. r # callee
      BY <1>0, <1>7, <2>1, <2>2 DEF RaisedInv, Resting
    <3> QED
      BY <1>7, <1>10, <2>1, <2>2, <3>1 DEF Created
  <2>3. CASE ~raised
    <3>1. servers' = Append(servers, callee) /\ servers \in Seq(Servers)
      BY <1>10, <2>3 DEF Created, Places, ListOK
    <3>2. \A q \in Servers : (q = callee \/ \E i \in DOMAIN servers : servers[i] = q)
              => \E i \in DOMAIN servers' : servers'[i] = q
      BY <1>0, <3>1, AppendProperties
    <3> QED
      BY <1>7, <2>1, <3>2
  <2> QED
    BY <2>2, <2>3
<1>11. CASE TearDown
  <2>1. Resting /\ daemons' = daemons /\ pc # "created"
    BY <1>11 DEF TearDown, Free, Resting, Invoke, world
  <2>2. CASE servers = <<>>
    BY <1>7, <1>11, <2>1, <2>2 DEF TearDown
  <2>3. CASE servers # <<>>
    <3>1. servers' = Tail(servers) /\ Invoke(Head(servers), "stop") /\ servers \in Seq(Servers)
      BY <1>11, <2>3 DEF TearDown, Others, Places, ListOK
    <3>2. Head(servers) \in Servers /\ Tail(servers) \in Seq(Servers)
      BY <2>3, <3>1, HeadTailProperties
    <3>3. at'[Head(servers)][main] = "stop"
      BY <1>0, <2>1, <3>1, <3>2, Invoked DEF Steps, StopSteps
    <3>4. \A i \in DOMAIN servers : servers[i] = Head(servers)
                                    \/ \E j \in DOMAIN servers' : servers'[j] = servers[i]
      <4> SUFFICES ASSUME NEW i \in DOMAIN servers, i # 1
                   PROVE  \E j \in DOMAIN servers' : servers'[j] = servers[i]
        BY <2>3, <3>1
      <4>1. i - 1 \in DOMAIN servers' /\ servers'[i - 1] = servers[i]
        BY <2>3, <3>1, HeadTailProperties
      <4> QED
        BY <4>1
    <3> QED
      BY <1>7, <2>1, <3>3, <3>4 DEF StopSteps
  <2> QED
    BY <2>2, <2>3
<1>12. CASE UNCHANGED <<world, pc, callee, servers>>
  <2>1. \A t \in Threads : \A s \in Servers : ~Launch(s, t)
    BY <1>0, <1>12 DEF Launch, Goto, TypeOK, world, calls
  <2> QED
    BY <1>3, <1>12, <2>1 DEF world, calls
<1>13. CASE Sigint \/ Sigterm
  <2>1. UNCHANGED <<world, pc, callee, servers>>
    BY <1>0, <1>13 DEF Sigint, Sigterm, RequestStop, Interrupted, Killed, Ended, MaySignal, Calm,
                       ProgramTypeOK, fixtures
  <2> QED
    BY <1>12, <2>1
<1>14. CASE Machine \/ UNCHANGED pvars
  <2>1. UNCHANGED <<calls, pc, callee, servers>>
    BY <1>14 DEF Machine, Boot, WritePidfile, Serve, BindFails, Die, Crash, ReusePid, TakePort, pvars, world,
                 own, fixtures
  <2>2. \A t \in Threads : \A s \in Servers : ~Launch(s, t)
    BY <1>0, <2>1 DEF Launch, Goto, TypeOK, calls
  <2> QED
    BY <1>3, <2>1, <2>2 DEF calls
<1> QED
  BY <1>5, <1>6, <1>8, <1>9, <1>10, <1>11, <1>13, <1>14 DEF ProgramNext, Advance

-----------------------------------------------------------------------------
(* Part 5: the theorems.                                                   *)

LEMMA InitProgram ==
    ProgramInit => /\ IInv /\ ProgramTypeOK /\ Places /\ SerialInv /\ RaisedInv /\ FixtureInv
                   /\ LeftInv
<1> SUFFICES ASSUME ProgramInit
             PROVE  /\ IInv /\ ProgramTypeOK /\ Places /\ SerialInv /\ RaisedInv /\ FixtureInv
                    /\ LeftInv
  OBVIOUS
<1> USE MainThread, ProgramAssumption
<1>1. Init /\ IInv /\ TypeOK /\ SerialInv
  BY InitInvariant, InitSerial DEF ProgramInit, IInv
<1>2. ProgramTypeOK
  <2>1. program \in {"cli", "pytest"} /\ pc = "begin" /\ callee \in Servers
    BY DEF ProgramInit
  <2>2. /\ raised = FALSE /\ session = FALSE /\ flag = FALSE /\ sent = {} /\ handled = {}
        /\ tests = 0 /\ created = {} /\ given = {} /\ unseen = {} /\ unhooked = {}
    BY DEF ProgramInit
  <2>3. \A i \in DOMAIN servers : servers[i] \in given
    BY DEF ProgramInit
  <2>4. raised \in BOOLEAN /\ session \in BOOLEAN /\ flag \in BOOLEAN /\ ~flag
    BY <2>2
  <2>5. tests \in 0..MaxTests
    BY <2>2
  <2>6. pc \in Pcs
    BY <2>1 DEF Pcs
  <2>7. /\ handled \subseteq {"INT", "TERM"} /\ sent \subseteq {"INT", "TERM"}
        /\ given \subseteq created /\ created \subseteq Servers \ {Session}
        /\ unseen \subseteq Pids /\ unhooked \subseteq Pids
    BY <2>2
  <2> QED
    BY <1>1, <2>1, <2>3, <2>4, <2>5, <2>6, <2>7 DEF ProgramTypeOK
<1>3. Resting /\ (\A s \in Servers : ~exited[s]) /\ \A p \in Pids : proc[p] = "free"
  BY <1>1 DEF Init, Resting
<1>4. Places
  <2>1. ListOK
    BY DEF ProgramInit, ListOK
  <2>2. PathsOK
    BY DEF ProgramInit, PathsOK, Calm
  <2>3. CallsOK
    BY <1>3 DEF Resting, CallsOK, StartSteps
  <2> QED
    BY <2>1, <2>2, <2>3 DEF Places
<1>5. RaisedInv /\ FixtureInv
  BY <1>3 DEF ProgramInit, RaisedInv, FixtureInv, Live
<1>6. LeftInv
  BY <1>1, <1>3 DEF ProgramInit, SerialInv, LeftInv, Once, Launched, Hooked, StopsOK, HooksRun, Resting,
                    StartSteps, Live
<1> QED
  BY <1>1, <1>2, <1>4, <1>5, <1>6

\* Every variable of the two programs keeps its shape, whatever a signal cuts
\* off; no flag is set but by a handler that is registered, and the list of a
\* test holds servers that its factory returned.
THEOREM ProgramTypeCorrect == ProgramSpec => []ProgramTypeOK
<1> DEFINE Inv == IInv /\ ProgramTypeOK /\ Places
<1>1. ProgramInit => Inv
  BY InitProgram
<1>2. Inv /\ [ProgramNext]_pvars => Inv'
  <2> SUFFICES ASSUME Inv, [ProgramNext]_pvars PROVE Inv'
    OBVIOUS
  <2>1. IInv'
    BY ServersKeep
  <2>2. ProgramTypeOK'
    BY <2>1, OwnTyped DEF IInv
  <2> QED
    BY <2>1, <2>2, ListKept, PathsKept, CallsKept DEF Places
<1>3. Inv => ProgramTypeOK
  OBVIOUS
<1> HIDE DEF Inv
<1> QED
  BY <1>1, <1>2, <1>3, PTL DEF ProgramSpec

\* The fixtures, until a signal cuts off a call.
FixturesInv == /\ IInv /\ ProgramTypeOK /\ Places /\ (Calm => SerialInv)
               /\ RaisedInv /\ FixtureInv

LEMMA Fixtures == ASSUME Orderly PROVE ProgramSpec => []FixturesInv
<1>1. ProgramInit => FixturesInv
  BY InitProgram DEF FixturesInv
<1>2. FixturesInv /\ [ProgramNext]_pvars => FixturesInv'
  <2> SUFFICES ASSUME FixturesInv, [ProgramNext]_pvars PROVE FixturesInv'
    OBVIOUS
  <2>0. IInv /\ ProgramTypeOK /\ Places /\ (Calm => SerialInv) /\ RaisedInv /\ FixtureInv
    BY DEF FixturesInv
  <2>1. IInv' /\ TypeOK'
    BY <2>0, ServersKeep DEF IInv
  <2>2. ProgramTypeOK'
    BY <2>0, <2>1, OwnTyped
  <2>3. Places' /\ (Calm' => SerialInv')
    BY <2>0, SerialKept
  <2>4. RaisedInv'
    BY <2>0, RaisedKept
  <2>5. FixtureInv'
    BY <2>0, <2>1, FixtureKept
  <2> QED
    BY <2>1, <2>2, <2>3, <2>4, <2>5 DEF FixturesInv
<1> QED
  BY <1>1, <1>2, PTL DEF ProgramSpec

\* Between two tests, nothing but the session's server has a daemon.
LEMMA BetweenTests ==
    ASSUME FixturesInv, Calm, pc = "between"
    PROVE  SerialInv /\ \A p \in Pids : proc[p] \in Live => home[p] = Session
<1>1. Resting /\ servers = <<>> /\ program = "pytest"
  BY DEF FixturesInv, ProgramTypeOK, Places, ListOK, PathsOK, CallsOK, Ended
<1>2. \A p \in Pids : proc[p] \in Live => home[p] \in Servers
  BY Housed DEF FixturesInv, ProgramTypeOK
<1> QED
  BY <1>1, <1>2 DEF FixturesInv, FixtureInv, Resting, StopSteps

\* "all servers created through the factory are stopped when the test finishes":
\* a server that the factory returned, and a server whose start raised, has no
\* daemon once the test has been torn down, whatever the test did with it, a
\* daemon that crashed and a binary or a config that failed included.
THEOREM ReleasedByFactory == ASSUME Orderly PROVE ProgramSpec => [](FactoryReleases /\ FactoryReleasesAll)
<1>1. FixturesInv => FactoryReleases /\ FactoryReleasesAll
  <2> SUFFICES ASSUME FixturesInv, pc = "between", "INT" \notin sent, NEW p \in Pids, home[p] \in created
               PROVE  proc[p] \notin Live
    BY DEF FactoryReleases, FactoryReleasesAll, FixturesInv, ProgramTypeOK
  <2>1. Session \notin created
    BY DEF FixturesInv, ProgramTypeOK
  <2> QED
    BY <2>1, BetweenTests DEF Calm
<1> QED
  BY <1>1, Fixtures, PTL

\* "keys never leak between tests": the FLUSHALL before a test reaches the
\* session's own daemon or nobody.
THEOREM FlushesTheSession == ASSUME Orderly PROVE ProgramSpec => FlushesOwn
<1> DEFINE Own == Answering(Session) \in DaemonsOf(Session) \cup {None}
<1>1. FixturesInv /\ [ProgramNext]_pvars => [session /\ tests' # tests /\ pc = "between" => Own]_pvars
  <2> SUFFICES ASSUME FixturesInv, [ProgramNext]_pvars, tests' # tests, pc = "between",
                      Answering(Session) # None
               PROVE  Answering(Session) \in DaemonsOf(Session)
    OBVIOUS
  <2> USE ProgramAssumption
  <2>1. BeginTest \/ Sigint
    BY DEF ProgramNext, Advance, CliStart, CliStarted, CliHandle, CliLoop, SessionStart, SessionStarted,
           Created, EndTest, TearDown, EndSession, Leave, Create, UseServer, Become, Run, Sigterm,
           RequestStop, Killed, Machine, pvars, own, fixtures
  <2>2. Calm
    BY <2>1 DEF BeginTest, Sigint, MaySignal, FixturesInv, Places, PathsOK, Calm
  <2>3. TypeOK /\ ListenInv
    BY <2>2 DEF FixturesInv, ProgramTypeOK, SerialInv
  <2>4. /\ port[Session] \in Ports /\ tcp[port[Session]] # None
        /\ Answering(Session) = tcp[port[Session]]
    BY <2>3 DEF Answering, TypeOK
  <2>5. Answering(Session) \in Pids /\ proc[Answering(Session)] = "up"
    BY <2>3, <2>4 DEF ListenInv, Answering
  <2> QED
    BY <2>2, <2>5, BetweenTests DEF DaemonsOf, Live
<1> HIDE DEF Own
<1> QED
  BY <1>1, Fixtures, PTL DEF ProgramSpec, FlushesOwn, Own

\* A program that comes to its end has left no daemon, whatever raised, crashed
\* or was interrupted on the way, except one that had not written its pidfile
\* when it was stopped, and one whose start was interrupted while it waited for
\* the launcher, before it registered its atexit hook.
THEOREM LeavesNone == ASSUME OwnDirectories PROVE ProgramSpec => []NoneLeft
<1> DEFINE Inv == IInv /\ ProgramTypeOK /\ Places /\ LeftInv
<1>1. ProgramInit => Inv
  BY InitProgram
<1>2. Inv /\ [ProgramNext]_pvars => Inv'
  <2> SUFFICES ASSUME Inv, [ProgramNext]_pvars PROVE Inv'
    OBVIOUS
  <2>1. IInv' /\ TypeOK'
    BY ServersKeep DEF IInv
  <2>2. ProgramTypeOK'
    BY <2>1, OwnTyped
  <2>3. Places'
    BY ListKept, PathsKept, CallsKept DEF Places
  <2>4. LeftInv'
    BY <2>1, LeftKept
  <2> QED
    BY <2>1, <2>2, <2>3, <2>4
<1>3. Inv => NoneLeft
  <2> SUFFICES ASSUME Inv, pc = "ended", NEW p \in Pids, proc[p] \in Live
               PROVE  p \in unseen \cup unhooked
    BY DEF NoneLeft
  <2>1. home[p] \in Servers /\ ~hook[home[p]] /\ at[home[p]][main] # "wait"
    BY Housed DEF ProgramTypeOK, Places, CallsOK, Resting, LeftInv, HooksRun
  <2> QED
    BY <2>1 DEF LeftInv, Hooked
<1> HIDE DEF Inv
<1> QED
  BY <1>1, <1>2, <1>3, PTL DEF ProgramSpec
=============================================================================
