--------------------------- MODULE ExplicitServer ---------------------------
(***************************************************************************)
(* ValkeyServer (server.py): explicit start, stop and terminate of a       *)
(* daemon with a TCP endpoint.  The object knows its daemon by a pidfile   *)
(* in its data directory and by a port it has not reserved: a free port is *)
(* found by binding and releasing it, and readiness is a PING answered by  *)
(* whoever listens there by then.                                          *)
(*                                                                         *)
(* Every start may launch another daemon, so daemons are named by their    *)
(* pids, of which there are Pids; each is launched at most once.           *)
(***************************************************************************)
EXTENDS Integers

CONSTANTS
    Servers,      \* ValkeyServer objects
    OwnsDir,      \* those without a data_dir, in a temp directory of their own
    Persist,      \* those that keep the directory
    SameDir,      \* those that are given one and the same data_dir
    Threads,      \* threads that call into one object
    Pids,         \* daemons that may be launched
    Ports,        \* TCP ports
    Fixed,        \* servers that are given a port instead of finding one
    FixedPort,    \* the port they are given
    PortInConfig, \* servers whose config overrides port with that one
    PidInConfig,  \* servers whose config overrides pidfile
    None,
    Outsider,     \* a Valkey server that is not ours
    DeepDir,      \* do socket paths overflow sun_path?
    Overlap,      \* which calls overlap: "none", "stops" of one object, or "any"
    Faults        \* what may go wrong, of FaultKinds

FaultKinds == {"daemon_crash", "pid_reuse", "port_taken", "slow_start", "no_binary",
               "bad_config", "shutdown_fails", "hung_daemon", "slow_exit"}

ASSUME ServersAssumption == /\ OwnsDir \cup Persist \cup Fixed \subseteq Servers
                            /\ PortInConfig \cup PidInConfig \subseteq Servers
                            /\ SameDir \subseteq Servers \ OwnsDir
                            /\ FixedPort \in Ports
ASSUME NamesAssumption == /\ None \notin Servers \cup Threads \cup Pids \cup Ports
                          /\ Outsider \notin Pids \cup {None}
ASSUME ModeAssumption == DeepDir \in BOOLEAN /\ Overlap \in {"none", "stops", "any"}
ASSUME FaultsAssumption == Faults \subseteq FaultKinds

VARIABLES
    \* processes: "free" pids, daemons that "boot", have "named" themselves in
    \* the pidfile, are "up", "killed" (not gone yet) or "dead", and "foreign"
    \* processes
    proc,
    home, tport,  \* the server that launched a daemon, the port it is to bind
    tcp,          \* who listens on each port
    \* files: valkey.pid and valkey.conf of each Dir, directories of each server
    pidfile, conf, dir, sockdir,
    \* each ValkeyServer object
    port, hook, exited,
    \* its calls in progress
    at, pid

daemons == <<proc, home, tport, tcp>>
files == <<pidfile, conf, dir, sockdir>>
object == <<port, hook, exited>>
calls == <<at, pid>>
vars == <<daemons, files, object, calls>>

Live == {"boot", "named", "up"}
Exists(p) == p # None /\ proc[p] \in Live \cup {"killed", "foreign"}

\* The server that stands for the data directory of s.
Dir(s) == IF s \in SameDir THEN CHOOSE r \in SameDir : TRUE ELSE s

\* The pid property and is_running.
PidOf(s) == LET p == pidfile[Dir(s)] IN IF Exists(p) THEN p ELSE None
IsRunning(s) == port[s] # None /\ PidOf(s) # None

\* Who answers a client of s; without a port client() raises RuntimeError.
Answering(s) ==
    IF port[s] = None THEN None
    ELSE IF tcp[port[s]] \in Pids /\ proc[tcp[port[s]]] # "up" THEN None
    ELSE tcp[port[s]]

StartSteps == {"check", "port", "conf", "launch", "wait", "ping"}
StopSteps == {"stop", "shutdown", "term", "signal", "signalForeign", "clean"}
KillSteps == {"terminate", "kill", "killForeign", "cleanKilled"}
Steps == {"idle"} \cup StartSteps \cup StopSteps \cup KillSteps

Idle(s) == \A t \in Threads : at[s][t] = "idle"

\* Bound: may this call begin while others are in progress?
MayBegin(s, step) ==
    \/ Overlap = "any"
    \/ \A r \in Servers : Idle(r)
    \/ /\ Overlap = "stops" /\ step # "check"
       /\ \A r \in Servers \ {s} : Idle(r)
       /\ \A t \in Threads : at[s][t] \notin StartSteps

Goto(s, t, step) == at' = [at EXCEPT ![s][t] = step]
Back(s, t) == Goto(s, t, "idle") /\ pid' = [pid EXCEPT ![s][t] = None]

-----------------------------------------------------------------------------
\* __init__ configures, but does not start: directories exist, no port is set.
Init ==
    /\ proc = [p \in Pids |-> "free"]
    /\ home = [p \in Pids |-> None]
    /\ tport = [p \in Pids |-> None]
    /\ tcp = [n \in Ports |-> None]
    /\ pidfile = [s \in Servers |-> None]
    /\ conf = [s \in Servers |-> None]
    /\ dir = [s \in Servers |-> TRUE]
    /\ sockdir = [s \in Servers |-> DeepDir]
    /\ port = [s \in Servers |-> None]
    /\ hook = [s \in Servers |-> FALSE]
    /\ exited = [s \in Servers |-> FALSE]
    /\ at = [s \in Servers |-> [t \in Threads |-> "idle"]]
    /\ pid = [s \in Servers |-> [t \in Threads |-> None]]

\* A caller, or __enter__, __exit__ and __del__, which only call these.
Call(s, t) ==
    /\ at[s][t] = "idle" /\ ~exited[s]
    /\ \E step \in {"check", "stop", "terminate"} : MayBegin(s, step) /\ Goto(s, t, step)
    /\ UNCHANGED <<daemons, files, object, pid>>

-----------------------------------------------------------------------------
(* start                                                                   *)

NeverRunning(s) == FALSE            \* mutant: start does not look
AlreadyRunning(s) == IsRunning(s)

CheckRunning(s, t) ==
    /\ at[s][t] = "check"
    /\ Goto(s, t, IF AlreadyRunning(s) THEN "idle" ELSE "port")
    /\ UNCHANGED <<daemons, files, object, pid>>

AnyPort == Ports                    \* mutant: does not ask the OS
FreePorts == {n \in Ports : tcp[n] = None}

OldDirectory(s) == UNCHANGED sockdir \* mutant: it is made by __init__ only
SocketDirectory(s) == sockdir' = [sockdir EXCEPT ![s] = DeepDir]

\* The port asked for, or one that _find_free_port has seen free: either may be
\* taken by the time the daemon binds it.  A fallback socket directory is made
\* anew.
ChoosePort(s, t) ==
    /\ at[s][t] = "port"
    /\ \E n \in IF s \in Fixed THEN {FixedPort} ELSE FreePorts : port' = [port EXCEPT ![s] = n]
    /\ SocketDirectory(s)
    /\ Goto(s, t, "conf")
    /\ UNCHANGED <<daemons, pidfile, conf, dir, hook, exited, pid>>

\* The port that valkey.conf names; config has the last word.
Rendered(s) == IF s \in PortInConfig THEN FixedPort ELSE port[s]

\* valkey.conf, which raises if the data directory is gone; then the binary.
WriteConf(s, t) ==
    /\ at[s][t] = "conf"
    /\ IF dir[s]
       THEN /\ conf' = [conf EXCEPT ![Dir(s)] = Rendered(s)]
            /\ \/ Goto(s, t, "launch")
               \/ "no_binary" \in Faults /\ Goto(s, t, "idle")
       ELSE Goto(s, t, "idle") /\ UNCHANGED conf
    /\ UNCHANGED <<daemons, pidfile, dir, sockdir, object, pid>>

HookIfReady(s) ==                   \* mutant: only a server that answers has one
    hook' = [hook EXCEPT ![s] = @ \/ Answering(s) # None]
RegisterHook(s) == hook' = [hook EXCEPT ![s] = TRUE]

ReadsAnyConf(s) == TRUE             \* mutant: a lost valkey.conf is not noticed
ReadsConf(s) == conf[Dir(s)] # None

\* Popen.  A launcher that cannot read valkey.conf, or is told a port that is
\* none, exits without a word.
Launch(s, t) ==
    /\ at[s][t] = "launch"
    /\ \/ /\ ReadsConf(s)
          /\ \E p \in {q \in Pids : proc[q] = "free"} :
                /\ proc' = [proc EXCEPT ![p] = "boot"]
                /\ home' = [home EXCEPT ![p] = s]
                /\ tport' = [tport EXCEPT ![p] = conf[Dir(s)]]
       \/ /\ ~ReadsConf(s) \/ "bad_config" \in Faults
          /\ UNCHANGED <<proc, home, tport>>
    /\ Goto(s, t, "wait")
    /\ UNCHANGED <<tcp, files, object, pid>>

\* The launcher has exited, or the wait for it timed out: atexit.register.
AwaitLauncher(s, t) ==
    /\ at[s][t] = "wait"
    /\ RegisterHook(s)
    /\ Goto(s, t, "ping")
    /\ UNCHANGED <<daemons, files, port, exited, pid>>

\* _wait_until_ready: somebody answers on the port...
PingAnswered(s, t) ==
    /\ at[s][t] = "ping" /\ Answering(s) # None
    /\ Goto(s, t, "idle")
    /\ UNCHANGED <<daemons, files, object, pid>>

\* ...or nobody does in time, or client() raises because the port was unset.
PingTimeout(s, t) ==
    /\ at[s][t] = "ping" /\ Answering(s) = None
    /\ \/ "slow_start" \in Faults
       \/ \A p \in Pids : proc[p] \in {"boot", "named"} => home[p] # s /\ tport[p] # port[s]
    /\ Goto(s, t, "idle")
    /\ UNCHANGED <<daemons, files, object, pid>>

-----------------------------------------------------------------------------
(* stop                                                                    *)

BeginStop(s, t) ==
    /\ at[s][t] = "stop"
    /\ pid' = [pid EXCEPT ![s][t] = PidOf(s)]
    /\ Goto(s, t, IF PidOf(s) = None THEN "clean" ELSE "shutdown")
    /\ UNCHANGED <<daemons, files, object>>

\* An orderly exit removes the pidfile by name.
ExitOrderly(p) ==
    /\ proc' = [proc EXCEPT ![p] = "dead"]
    /\ tcp' = [n \in Ports |-> IF tcp[n] = p THEN None ELSE tcp[n]]
    /\ pidfile' = IF home[p] \in PidInConfig THEN pidfile ELSE [pidfile EXCEPT ![Dir(home[p])] = None]

ExitKilled(p) ==
    /\ proc' = [proc EXCEPT ![p] = "dead"]
    /\ tcp' = [n \in Ports |-> IF tcp[n] = p THEN None ELSE tcp[n]]
    /\ UNCHANGED pidfile

\* SIGKILL is sent: the process runs no more, but has its pid and its port yet.
SendKill(p) ==
    /\ proc' = [proc EXCEPT ![p] = "killed"]
    /\ UNCHANGED <<tcp, pidfile>>

\* A wait ends when the process is gone, or times out, which is swallowed.
WaitEnds(p) == proc[p] # "killed" \/ "slow_exit" \in Faults

\* SHUTDOWN goes to whoever answers on the port; every failure is swallowed.
Shutdown(s, t) ==
    /\ at[s][t] = "shutdown"
    /\ LET p == Answering(s)
       IN  \/ p \in Pids /\ ExitOrderly(p)
           \/ /\ p = Outsider
              /\ tcp' = [tcp EXCEPT ![port[s]] = None] /\ UNCHANGED <<proc, pidfile>>
           \/ /\ p = None \/ "shutdown_fails" \in Faults
              /\ UNCHANGED <<proc, tcp, pidfile>>
    /\ Goto(s, t, "term")
    /\ UNCHANGED <<home, tport, conf, dir, sockdir, object, pid>>

\* _terminate: psutil.Process(pid), then wait, SIGTERM and SIGKILL.
BindProcess(s, t) ==
    /\ at[s][t] = "term"
    /\ LET p == pid[s][t]
       IN  Goto(s, t, IF ~Exists(p) THEN "clean"
                      ELSE IF proc[p] = "foreign" THEN "signalForeign" ELSE "signal")
    /\ UNCHANGED <<daemons, files, object, pid>>

NoEscalation(p) ==                  \* mutant: waits, but does not signal
    UNCHANGED <<proc, tcp, pidfile>>
Escalate(p) ==
    \/ proc[p] \notin Live /\ WaitEnds(p) /\ UNCHANGED <<proc, tcp, pidfile>>
    \/ proc[p] = "up" /\ ExitOrderly(p)
    \/ proc[p] \in {"boot", "named"} /\ ExitKilled(p)
    \* SIGKILL, and no wait
    \/ proc[p] \in Live /\ "hung_daemon" \in Faults /\ SendKill(p)

Signal(s, t) ==
    /\ at[s][t] = "signal"
    /\ Escalate(pid[s][t])
    /\ Goto(s, t, "clean")
    /\ UNCHANGED <<home, tport, conf, dir, sockdir, object, pid>>

\* A reused pid: the unrelated process is terminated (stop) or killed.
SignalForeign(s, t) ==
    /\ at[s][t] \in {"signalForeign", "killForeign"}
    /\ proc' = [proc EXCEPT ![pid[s][t]] = "dead"]
    /\ Goto(s, t, IF at[s][t] = "signalForeign" THEN "clean" ELSE "cleanKilled")
    /\ UNCHANGED <<home, tport, tcp, files, object, pid>>

\* _cleanup_files and the end of stop; terminate leaves the atexit hook alone.
Clean(s, t) ==
    /\ at[s][t] \in {"clean", "cleanKilled"}
    /\ pidfile' = [pidfile EXCEPT ![Dir(s)] = None]
    /\ conf' = [conf EXCEPT ![Dir(s)] = None]
    /\ dir' = [dir EXCEPT ![s] = @ /\ s \notin OwnsDir \ Persist]
    /\ sockdir' = [sockdir EXCEPT ![s] = FALSE]
    /\ port' = [port EXCEPT ![s] = None]
    /\ hook' = [hook EXCEPT ![s] = @ /\ at[s][t] = "cleanKilled"]
    /\ Back(s, t)
    /\ UNCHANGED <<daemons, exited>>

-----------------------------------------------------------------------------
(* terminate                                                               *)

BeginTerminate(s, t) ==
    /\ at[s][t] = "terminate"
    /\ pid' = [pid EXCEPT ![s][t] = PidOf(s)]
    /\ Goto(s, t, IF PidOf(s) = None THEN "cleanKilled"
                  ELSE IF proc[PidOf(s)] = "foreign" THEN "killForeign" ELSE "kill")
    /\ UNCHANGED <<daemons, files, object>>

Kill(s, t) ==
    /\ at[s][t] = "kill"
    /\ LET p == pid[s][t]
       IN  \/ proc[p] \notin Live /\ WaitEnds(p) /\ UNCHANGED <<proc, tcp, pidfile>>
           \/ proc[p] \in Live /\ ExitKilled(p)
           \/ proc[p] \in Live /\ "slow_exit" \in Faults /\ SendKill(p)
    /\ Goto(s, t, "cleanKilled")
    /\ UNCHANGED <<home, tport, conf, dir, sockdir, object, pid>>

-----------------------------------------------------------------------------
\* The program that uses s ends: atexit calls stop if it is registered.
Exit(s, t) ==
    /\ ~exited[s] /\ Idle(s) /\ MayBegin(s, "stop")
    /\ exited' = [exited EXCEPT ![s] = TRUE]
    /\ IF hook[s] THEN Goto(s, t, "stop") ELSE UNCHANGED at
    /\ UNCHANGED <<daemons, files, port, hook, pid>>

-----------------------------------------------------------------------------
(* The daemon (external), and the rest of the machine.                     *)

WritePidfile(p) ==
    /\ proc[p] = "boot"
    /\ proc' = [proc EXCEPT ![p] = "named"]
    /\ pidfile' = IF dir[home[p]] /\ home[p] \notin PidInConfig
                  THEN [pidfile EXCEPT ![Dir(home[p])] = p] ELSE pidfile
    /\ UNCHANGED <<home, tport, tcp, conf, dir, sockdir, object, calls>>

CanBind(p) == tcp[tport[p]] = None /\ (IF DeepDir THEN sockdir[home[p]] ELSE dir[home[p]])

Serve(p) ==
    /\ proc[p] = "named" /\ CanBind(p)
    /\ proc' = [proc EXCEPT ![p] = "up"]
    /\ tcp' = [tcp EXCEPT ![tport[p]] = p]
    /\ UNCHANGED <<home, tport, files, object, calls>>

\* The port or the socket cannot be bound: it exits and leaves its pidfile.
BindFails(p) ==
    /\ proc[p] = "named" /\ ~CanBind(p)
    /\ ExitKilled(p)
    /\ UNCHANGED <<home, tport, conf, dir, sockdir, object, calls>>

\* Killed from outside.
Crash(p) ==
    /\ proc[p] \in Live /\ "daemon_crash" \in Faults
    /\ ExitKilled(p)
    /\ UNCHANGED <<home, tport, conf, dir, sockdir, object, calls>>

\* A process that was sent SIGKILL is gone at last, and its port is free.
Die(p) ==
    /\ proc[p] = "killed"
    /\ ExitKilled(p)
    /\ UNCHANGED <<home, tport, conf, dir, sockdir, object, calls>>

ReusePid(p) ==
    /\ proc[p] = "dead" /\ "pid_reuse" \in Faults
    /\ proc' = [proc EXCEPT ![p] = "foreign"]
    /\ UNCHANGED <<home, tport, tcp, files, object, calls>>

TakePort(n) ==
    /\ tcp[n] = None /\ "port_taken" \in Faults
    /\ tcp' = [tcp EXCEPT ![n] = Outsider]
    /\ UNCHANGED <<proc, home, tport, files, object, calls>>

-----------------------------------------------------------------------------
Step(s, t) ==
    \/ CheckRunning(s, t) \/ ChoosePort(s, t) \/ WriteConf(s, t) \/ Launch(s, t)
    \/ AwaitLauncher(s, t) \/ PingAnswered(s, t) \/ PingTimeout(s, t)
    \/ BeginStop(s, t) \/ Shutdown(s, t) \/ BindProcess(s, t) \/ Signal(s, t)
    \/ SignalForeign(s, t) \/ Clean(s, t) \/ BeginTerminate(s, t) \/ Kill(s, t)

Boot(p) == WritePidfile(p) \/ Serve(p) \/ BindFails(p)

Next ==
    \/ \E s \in Servers, t \in Threads : Call(s, t) \/ Step(s, t) \/ Exit(s, t)
    \/ \E p \in Pids : Boot(p) \/ Die(p) \/ Crash(p) \/ ReusePid(p)
    \/ \E n \in Ports : TakePort(n)

Spec == Init /\ [][Next]_vars

\* A thread inside a call keeps running, a booting daemon gets on, and SIGKILL
\* takes effect.  Nobody has to call, the program need not end, and no fault
\* has to happen.
FairSpec == /\ Spec
            /\ \A s \in Servers, t \in Threads : WF_vars(Step(s, t))
            /\ \A p \in Pids : WF_vars(Boot(p)) /\ WF_vars(Die(p))

-----------------------------------------------------------------------------
\* Every variable keeps its shape, and a daemon that was launched has a server
\* and a port, even when another thread stops the server during its start.
TypeOK ==
    /\ proc \in [Pids -> Live \cup {"free", "killed", "dead", "foreign"}]
    /\ home \in [Pids -> Servers \cup {None}]
    /\ tport \in [Pids -> Ports \cup {None}]
    /\ \A p \in Pids : proc[p] # "free" => home[p] # None /\ tport[p] # None
    /\ tcp \in [Ports -> Pids \cup {None, Outsider}]
    /\ pidfile \in [Servers -> Pids \cup {None}]
    /\ conf \in [Servers -> Ports \cup {None}]
    /\ dir \in [Servers -> BOOLEAN] /\ sockdir \in [Servers -> BOOLEAN]
    /\ port \in [Servers -> Ports \cup {None}]
    /\ hook \in [Servers -> BOOLEAN] /\ exited \in [Servers -> BOOLEAN]
    /\ at \in [Servers -> [Threads -> Steps]]
    /\ pid \in [Servers -> [Threads -> Pids \cup {None}]]

DaemonsOf(s) == {p \in Pids : home[p] = s /\ proc[p] \in Live}

\* "start is idempotent while running": one object never has two daemons.
OneDaemon == \A s \in Servers : \A p, q \in DaemonsOf(s) : p = q

\* start returns only when this very server answers on the port, not whoever
\* happens to listen there ("A port/socket answering is not proof that it
\* belongs to this launch").
ReadyIsOurs ==
    [][\A s \in Servers, t \in Threads :
          at[s][t] = "ping" /\ at'[s][t] = "idle" /\ Answering(s) # None
             => Answering(s) \in DaemonsOf(s) /\ IsRunning(s)]_vars

\* A call on one object never ends the daemon of another, and nobody else's
\* server: calls move, and a daemon that dies belongs to a server that moved.
OthersSpared ==
    [][/\ \A s, r \in Servers : s # r /\ at'[s] # at[s] /\ at'[r] = at[r] =>
             \A p \in DaemonsOf(r) : proc'[p] = proc[p]
       /\ \A n \in Ports : tcp[n] = Outsider => tcp'[n] = Outsider]_vars

\* After stop or terminate, no daemon of the object is left.
Stopped(s) == Idle(s) /\ port[s] = None
StopReleases ==
    \A s \in Servers : Stopped(s) => DaemonsOf(s) = {}

\* Whatever a start that fails leaves behind, the atexit hook will release: a
\* daemon that no call is working on is covered by a registered hook.
HookCovers ==
    \A s \in Servers : Idle(s) /\ DaemonsOf(s) # {} => hook[s] /\ ~exited[s]

\* "Repeated/restart transitions must recompute per-run paths": a server that keeps
\* its data directory finds, whatever stops and failures came before, the
\* directories that its next daemon needs.
StartsAgain ==
    \A s \in Servers, t \in Threads :
        at[s][t] = "launch" /\ s \notin OwnsDir \ Persist => dir[s] /\ (DeepDir => sockdir[s])

\* However the program uses it, when it has ended the daemons are gone.
ExitReleases == \A s \in Servers : exited[s] ~> Idle(s) /\ DaemonsOf(s) = {}

-----------------------------------------------------------------------------
(* Promises that the code does not keep: the README names, for each, the   *)
(* constants for which TLC refutes it.                                     *)

\* A process that got the pid of a dead daemon is never signalled.
ForeignSpared == [][\A p \in Pids : proc[p] = "foreign" => proc'[p] = "foreign"]_vars

\* "Any exception terminates only the acquired process and rolls back owned
\* files, ports, callbacks, and state": a start that returns without a server
\* has no port either.
StartRollsBack ==
    [][\A s \in Servers, t \in Threads :
          at[s][t] \in StartSteps /\ at'[s][t] = "idle" /\ DaemonsOf(s) = {}
             => port'[s] = None]_vars

\* terminate "waits for the daemon to actually exit before returning, so callers
\* can rely on the pid being gone".
TerminateWaits ==
    \A s \in Servers, t \in Threads :
        at[s][t] = "cleanKilled" /\ pid[s][t] # None => ~Exists(pid[s][t])

\* Every stopped server can be started again.
Restartable == \A s \in Servers, t \in Threads : at[s][t] = "conf" => dir[s]
=============================================================================
