------------------------------ MODULE Programs ------------------------------
(***************************************************************************)
(* The two programs of the repository that use ValkeyServer: the command   *)
(* line (__main__.py), which runs one server until it gets a signal, and   *)
(* the pytest plugin (pytest_plugin.py), whose fixtures hold one server    *)
(* for the session and the servers that a test asks its factory for.       *)
(*                                                                         *)
(* A call that the program makes runs through the steps of ExplicitServer; *)
(* the program goes on when no call is in progress.  Signals come between  *)
(* any two steps, also inside a call.                                      *)
(***************************************************************************)
EXTENDS ExplicitServer, Sequences

CONSTANTS
    main,       \* the thread, the only one of Threads
    Session,    \* the server of the fixture valkey_server
    MaxTests    \* bound: tests in a session

ASSUME ProgramAssumption == /\ Threads = {main} /\ Session \in Servers /\ Overlap = "none"
                            /\ MaxTests \in Nat

VARIABLES
    program,    \* "cli" or "pytest"
    pc,         \* where the program is, or what it does when its call returns
    callee,     \* the server of the command line, or of the last call of the factory
    raised,     \* did the last start raise?
    sent, handled, flag,    \* signals: sent, those with a handler, stopping["flag"]
    session,    \* is the fixture valkey_server set up?
    tests,      \* that have begun
    created, given, servers,    \* by the factory; those it returned; the list of a test
    \* daemons that a stop or terminate overlooked, as they had no pidfile yet, and
    \* those whose start a signal cut off before it registered the atexit hook
    unseen, unhooked

signals == <<sent, handled, flag>>
fixtures == <<session, tests, created, given, servers>>
world == <<daemons, files, object, calls>>
lost == <<unseen, unhooked>>
own == <<program, pc, callee, raised, signals, fixtures, lost>>
pvars == <<world, own>>

Ended == {"ended", "killed"}
Pcs == {"begin", "started", "handlers", "loop", "session", "between", "test", "created",
        "teardown", "leaving"} \cup Ended

ProgramInit ==
    /\ Init
    /\ program \in {"cli", "pytest"} /\ pc = "begin"
    /\ callee \in IF program = "cli" THEN Servers ELSE {Session}
    /\ raised = FALSE
    /\ sent = {} /\ handled = {} /\ flag = FALSE
    /\ session = FALSE /\ tests = 0 /\ created = {} /\ given = {} /\ servers = <<>>
    /\ unseen = {} /\ unhooked = {}

-----------------------------------------------------------------------------
(* A call in progress.                                                     *)

\* start raises in open, when there is no binary, and when nobody answers.
StartRaises(s) ==
    at[s][main] = "conf" \/ (at[s][main] = "ping" /\ Answering(s) = None)

Overlooked(s) ==
    IF at[s][main] \in {"stop", "terminate"} /\ PidOf(s) = None THEN DaemonsOf(s) ELSE {}

Run(s) ==
    /\ Step(s, main)
    /\ raised' = (StartRaises(s) /\ at'[s][main] = "idle")
    /\ unseen' = unseen \cup Overlooked(s)
    /\ UNCHANGED <<program, pc, callee, signals, fixtures, unhooked>>

\* The program itself goes on.
Free(place) == pc = place /\ \A s \in Servers : Idle(s)
Invoke(s, call) == Goto(s, main, call) /\ UNCHANGED <<daemons, files, object, pid>>
Become(place) == pc' = place /\ UNCHANGED <<program, raised, sent, lost>>

-----------------------------------------------------------------------------
(* main of __main__.py                                                     *)

CliStart ==
    /\ program = "cli" /\ Free("begin")
    /\ Invoke(callee, "check")
    /\ Become("started") /\ UNCHANGED <<callee, handled, flag, fixtures>>

CliStarted ==
    /\ Free("started")
    /\ Become(IF raised THEN "leaving" ELSE "handlers")
    /\ UNCHANGED <<world, callee, handled, flag, fixtures>>

\* signal.signal for SIGINT, then for SIGTERM.
CliHandle ==
    /\ Free("handlers")
    /\ IF "INT" \notin handled THEN handled' = {"INT"} /\ Become("handlers")
                               ELSE handled' = {"INT", "TERM"} /\ Become("loop")
    /\ UNCHANGED <<world, callee, flag, fixtures>>

FlagOnly == flag                        \* mutant: does not watch the daemon
LoopEnds == flag \/ ~IsRunning(callee)

\* The loop ends, finally: stop.
CliLoop ==
    /\ Free("loop") /\ LoopEnds
    /\ Invoke(callee, "stop")
    /\ Become("leaving") /\ UNCHANGED <<callee, handled, flag, fixtures>>

-----------------------------------------------------------------------------
(* The fixtures.                                                           *)

\* The first test that wants it starts the session server, if any does.
SessionStart ==
    /\ program = "pytest" /\ Free("begin")
    /\ \/ Invoke(Session, "check") /\ Become("session")
       \/ Become("between") /\ UNCHANGED world
    /\ UNCHANGED <<callee, handled, flag, fixtures>>

\* __enter__ that raises is not followed by __exit__.
SessionStarted ==
    /\ Free("session")
    /\ session' = ~raised
    /\ Become("between")
    /\ UNCHANGED <<world, callee, handled, flag, tests, created, given, servers>>

\* A test with valkey_client has whoever answers flush first: if nobody does,
\* the test does not run.
BeginTest ==
    /\ Free("between") /\ tests < MaxTests
    /\ tests' = tests + 1
    /\ \/ Become("test")
       \/ session /\ Answering(Session) = None /\ Become("between")
    /\ UNCHANGED <<world, callee, handled, flag, session, created, given, servers>>

\* factory(...): ValkeyServer and start.
Create ==
    /\ Free("test")
    /\ \E s \in Servers \ (created \cup {Session}) :
          /\ created' = created \cup {s} /\ callee' = s
          /\ Invoke(s, "check")
    /\ Become("created") /\ UNCHANGED <<handled, flag, session, tests, given, servers>>

\* A server whose start raises is not registered; the test goes on or fails.
Created ==
    /\ Free("created")
    /\ IF raised THEN UNCHANGED <<given, servers>>
                 ELSE given' = given \cup {callee} /\ servers' = Append(servers, callee)
    /\ Become("test")
    /\ UNCHANGED <<world, callee, handled, flag, session, tests, created>>

\* The test stops or terminates a server of its own.
UseServer ==
    /\ Free("test")
    /\ \E i \in DOMAIN servers, call \in {"stop", "terminate"} :
          port[servers[i]] # None /\ Invoke(servers[i], call)
    /\ Become("test") /\ UNCHANGED <<callee, handled, flag, fixtures>>

EndTest ==
    /\ Free("test")
    /\ Become("teardown") /\ UNCHANGED <<world, callee, handled, flag, fixtures>>

FirstOnly == <<>>                       \* mutant: one server is stopped
Others == Tail(servers)

TearDown ==
    /\ Free("teardown")
    /\ IF servers = <<>>
       THEN Become("between") /\ UNCHANGED <<world, servers>>
       ELSE Become("teardown") /\ Invoke(Head(servers), "stop") /\ servers' = Others
    /\ UNCHANGED <<callee, handled, flag, session, tests, created, given>>

\* __exit__ of the session server.
EndSession ==
    /\ Free("between")
    /\ IF session THEN Invoke(Session, "stop") ELSE UNCHANGED world
    /\ session' = FALSE
    /\ Become("leaving")
    /\ UNCHANGED <<callee, handled, flag, tests, created, given, servers>>

-----------------------------------------------------------------------------
\* The interpreter ends: one atexit hook after the other.
Leave ==
    /\ Free("leaving")
    /\ \/ \E s \in Servers : hook[s] /\ Exit(s, main) /\ Become("leaving")
       \/ (\A s \in Servers : hook[s] => exited[s]) /\ Become("ended") /\ UNCHANGED world
    /\ UNCHANGED <<callee, handled, flag, fixtures>>

Unhooked == UNION {DaemonsOf(s) : s \in {r \in Servers : at[r][main] = "wait"}}

\* The call in progress is abandoned where it is.
Abandon ==
    /\ at' = [s \in Servers |-> [t \in Threads |-> "idle"]]
    /\ pid' = [s \in Servers |-> [t \in Threads |-> None]]
    /\ UNCHANGED <<daemons, files, object>>

\* KeyboardInterrupt: pytest tears down the fixtures it has not torn down, but
\* does not come back to the loop that was interrupted.
Interrupted ==
    /\ Abandon
    /\ pc' = IF program = "cli" THEN "leaving"
             ELSE IF pc \in {"test", "created"} THEN "teardown"
             ELSE IF pc \in {"teardown", "between"} THEN "between" ELSE "leaving"
    /\ servers' = IF pc = "teardown" THEN <<>> ELSE servers
    /\ tests' = MaxTests
    /\ unhooked' = unhooked \cup Unhooked
    /\ UNCHANGED <<flag, session, created, given>>

\* _request_stop
RequestStop == flag' = TRUE /\ UNCHANGED <<world, pc, fixtures, unhooked>>

\* Bound: one signal.
MaySignal == pc \notin Ended /\ sent = {}

\* (SIGINT during the atexit hooks cuts off one of them, and is left out.)
Sigint ==
    /\ MaySignal /\ \A s \in Servers : ~exited[s]
    /\ sent' = {"INT"}
    /\ IF "INT" \in handled THEN RequestStop ELSE Interrupted
    /\ UNCHANGED <<program, callee, raised, handled, unseen>>

\* The default action ends the process without atexit.
Killed == Abandon /\ pc' = "killed" /\ UNCHANGED <<flag, fixtures, unhooked>>

Sigterm ==
    /\ MaySignal
    /\ sent' = {"TERM"}
    /\ IF "TERM" \in handled THEN RequestStop ELSE Killed
    /\ UNCHANGED <<program, callee, raised, handled, unseen>>

-----------------------------------------------------------------------------
Machine ==
    /\ \/ \E p \in Pids : Boot(p) \/ Die(p) \/ Crash(p) \/ ReusePid(p)
       \/ \E n \in Ports : TakePort(n)
    /\ UNCHANGED own

Advance ==
    \/ CliStart \/ CliStarted \/ CliHandle \/ CliLoop
    \/ SessionStart \/ SessionStarted \/ Created \/ EndTest \/ TearDown \/ EndSession \/ Leave

ProgramNext ==
    \/ \E s \in Servers : Run(s)
    \/ Advance \/ BeginTest \/ Create \/ UseServer \/ Sigint \/ Sigterm \/ Machine

ProgramSpec == ProgramInit /\ [][ProgramNext]_pvars

\* The programs and the daemons get on, and a test ends.  No signal has to come.
FairPrograms ==
    /\ ProgramSpec
    /\ \A s \in Servers : WF_pvars(Run(s))
    /\ WF_pvars(Advance)
    /\ \A p \in Pids : WF_pvars(Boot(p) /\ UNCHANGED own) /\ WF_pvars(Die(p) /\ UNCHANGED own)

-----------------------------------------------------------------------------
\* Shapes; a flag is raised by a handler only, and the list of a test holds
\* servers that its factory made.
ProgramTypeOK ==
    /\ TypeOK
    /\ program \in {"cli", "pytest"} /\ pc \in Pcs /\ callee \in Servers
    /\ raised \in BOOLEAN /\ flag \in BOOLEAN /\ session \in BOOLEAN
    /\ handled \subseteq {"INT", "TERM"} /\ sent \subseteq {"INT", "TERM"}
    /\ flag => handled \cap sent # {}
    /\ tests \in 0..MaxTests /\ given \subseteq created /\ created \subseteq Servers \ {Session}
    /\ unseen \subseteq Pids /\ unhooked \subseteq Pids
    /\ \A i \in DOMAIN servers : servers[i] \in given

\* "The server runs until interrupted, then shuts down and cleans up": the
\* command line ends after a signal that it handles and after its daemon died,
\* and a test session ends whatever its servers do.
Finishes ==
    (program = "pytest" \/ flag \/ (pc = "loop" /\ ~IsRunning(callee))) ~> pc \in Ended

\* A program that comes to its end leaves no daemon: whatever raised or was
\* interrupted on the way, a teardown or an atexit hook has stopped it, except
\* one that had not written its pidfile when it was stopped, and one whose start
\* was interrupted while it waited for the launcher.
NoneLeft == pc = "ended" => \A p \in Pids : proc[p] \in Live => p \in unseen \cup unhooked

\* "all servers created through the factory are stopped when the test finishes":
\* those that it returned are, unless the teardown itself was interrupted.
FactoryReleases ==
    pc = "between" /\ "INT" \notin sent =>
        \A p \in Pids : home[p] \in given => proc[p] \notin Live

\* "keys never leak between tests": FLUSHALL is executed by the session's own
\* daemon or by nobody, though that daemon may have died in an earlier test and a
\* server of the factory may have been given its port.
FlushesOwn ==
    [][session /\ tests' # tests /\ pc = "between" =>
          Answering(Session) \in DaemonsOf(Session) \cup {None}]_pvars

-----------------------------------------------------------------------------
\* Promises that the code does not keep, and the README's constants refute.

\* "The server runs until interrupted (Ctrl+C / SIGTERM), then shuts down".
TermStops == pc = "killed" => \A p \in Pids : proc[p] \notin Live

\* "Any exception terminates only the acquired process": so does one that comes
\* between Popen and atexit.register.
InterruptCleans == pc = "ended" => \A p \in Pids : proc[p] \in Live => p \in unseen

\* "all servers created through the factory are stopped when the test finishes".
FactoryReleasesAll ==
    pc = "between" /\ "INT" \notin sent => \A p \in Pids : home[p] \in created => proc[p] \notin Live
=============================================================================
