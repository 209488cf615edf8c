--------------------------- MODULE EmbeddedClient ---------------------------
(***************************************************************************)
(* The self-managed client of valkey_embedded (client.py, ValkeyMixin):    *)
(* opening an instance starts a valkey-server daemon, or attaches to the   *)
(* one that the settings registry beside the RDB file points at; closing   *)
(* an instance shuts the daemon down when CLIENT LIST shows nobody else.   *)
(*                                                                         *)
(* A handle is one ValkeyMixin instance: opened once, closed any number of *)
(* times.  It launches at most one daemon, so that daemon, its pid and its *)
(* temp directories carry the name of the handle.  Handles may live in     *)
(* different processes; they share only the file system, the process       *)
(* table and the daemons' sockets.  Every access to those is a step of its *)
(* own, except that the unlinks of one clean-up are taken together.        *)
(***************************************************************************)
EXTENDS Integers, FiniteSets

CONSTANTS
    Handles,      \* client instances
    Isolated,     \* those opened without an RDB path
    Siblings,     \* those opened with a second RDB path in the same directory
    Given,        \* those with a unix_socket_path of their own from the caller
    Writers,      \* those that write a key of their own
    Threads,      \* threads that may call into one instance
    Shared,       \* the directory of the RDB paths
    None,         \* absent file, no pid, no connection, lock free
    Torn,         \* a registry that has been truncated but not yet written
    DeepPath,     \* do socket paths overflow sun_path?
    Serialized,   \* does one thread of one process drive every instance?
    Faults        \* what may go wrong, of FaultKinds

FaultKinds == {"daemon_crash", "client_crash", "client_crash_idle", "pid_reuse",
               "slow_start", "ping_rejected", "save_fails", "no_binary",
               "bad_config", "bad_override", "interrupt", "count_timeout", "shutdown_fails",
               "hung_daemon", "external_client", "pool_growth", "use_after_close"}

ASSUME HandlesAssumption == /\ Isolated \cup Given \cup Writers \subseteq Handles
                            /\ Siblings \subseteq Handles \ Isolated
ASSUME NamesAssumption == /\ Shared \notin Handles
                          /\ None \notin Handles \cup Threads \cup {Shared}
                          /\ Torn \notin Handles \cup {Shared, None}
ASSUME ModeAssumption == DeepPath \in BOOLEAN /\ Serialized \in BOOLEAN
ASSUME FaultsAssumption == Faults \subseteq FaultKinds

VARIABLES
    \* the daemon launched by each handle
    proc,         \* "free", "boot", "named" (pidfile written), "up", "dead",
                  \* or "foreign": the pid now belongs to an unrelated process
    setup,        \* the valkey.conf it has read
    mem,          \* its data set: the writers whose key it holds
    \* the file system
    rdb,          \* each RDB file: the writers whose key it holds
    pidfile,      \* valkey.pid of each directory
    conf,         \* valkey.conf of each directory
    sock,         \* the daemon that owns the socket file at each location
    registry,     \* the .settings file of each RDB file: None, Torn, or the
                  \* location of the socket it names
    tmpdirs,      \* private data directories that exist
    sockdirs,     \* fallback socket directories that exist
    \* each ValkeyMixin object
    life, started, running, socketFile,
    \* its calls in progress
    at, pid, lock,
    \* connections to the daemons
    link,         \* the daemon of the handle's pooled connection
    others        \* owners of further connections; None is an outside client

daemons == <<proc, setup, mem>>
runfiles == <<pidfile, conf, sock, registry>>
dirs == <<tmpdirs, sockdirs>>
object == <<life, started, running, socketFile>>
calls == <<at, pid, lock>>
conns == <<link, others>>
vars == <<daemons, rdb, runfiles, dirs, object, calls, conns>>

-----------------------------------------------------------------------------
Dirs == Isolated \cup {Shared}
Locs == Handles \cup {Shared}

\* Where a handle keeps its files (dbdir), and where its socket goes: to the
\* caller's path, beside the files, or in a fallback directory of its own when
\* that path is too long.
DirOfClass(h) == Shared             \* mutant: no temp directory of its own
Dir(h) == IF h \in Isolated THEN h ELSE Shared
BesideFiles(h) == Dir(h)            \* mutant: a path too long is not noticed
Loc(h) == IF DeepPath \/ h \in Given THEN h ELSE Dir(h)

\* The RDB paths.  Everything but the registry goes by the directory.
Files == {"main", "sibling"}
File(h) == IF h \in Siblings THEN "sibling" ELSE "main"

LocExists(l) == l = Shared \/ l \in Given \cup (IF DeepPath THEN sockdirs ELSE tmpdirs)

Live == {"boot", "named", "up"}
Exists(p) == p # None /\ proc[p] \in Live \cup {"foreign"}

\* The pid property: what the pidfile says, if some process has that number.
PidOf(h) == LET p == pidfile[Dir(h)] IN IF Exists(p) THEN p ELSE None

\* What valkey.conf says: where to bind the socket, which RDB file to keep.
Confs == [sock : Locs, file : Files]
Rendered(h) == [sock |-> Loc(h), file |-> File(h)]

\* The daemon a command of h reaches: the one it is connected to or, over a
\* new connection, whichever listens on the socket path.
Up(q) == q # None /\ proc[q] = "up"
Reach(h) == IF Up(link[h]) THEN link[h]
            ELSE IF Up(sock[socketFile[h]]) THEN sock[socketFile[h]] ELSE None
Connect(h) == link' = [link EXCEPT ![h] = Reach(h)]

\* Length of CLIENT LIST as h gets it back.
Conns(h) == LET q == Reach(h)
            IN  Cardinality({g \in Handles : g = h \/ link[g] = q})
                + Cardinality(others[q])

CtorSteps == {"load", "probe", "conf", "launch", "truncate", "save", "ping", "undo"}
TermSteps == {"term", "signal", "signalForeign"}
CloseSteps == {"count", "leave", "capture", "shutdown", "remove"}
Steps == {"idle", "lock"} \cup CtorSteps \cup TermSteps \cup CloseSteps

Idle(h) == \A t \in Threads : at[h][t] = "idle"
Quiet == Serialized => \A h \in Handles : Idle(h)
Goto(h, t, s) == at' = [at EXCEPT ![h][t] = s]
Back(h, t) == Goto(h, t, "idle") /\ pid' = [pid EXCEPT ![h][t] = None]

-----------------------------------------------------------------------------
Init ==
    /\ proc = [h \in Handles |-> "free"]
    /\ setup = [h \in Handles |-> None]
    /\ mem = [h \in Handles |-> {}]
    /\ rdb = [f \in Files |-> {}]
    /\ pidfile = [d \in Dirs |-> None]
    /\ conf = [d \in Dirs |-> None]
    /\ sock = [l \in Locs |-> None]
    /\ registry = [f \in Files |-> None]
    /\ tmpdirs = {} /\ sockdirs = {}
    /\ life = [h \in Handles |-> "unborn"]
    /\ started = [h \in Handles |-> FALSE]
    /\ running = [h \in Handles |-> FALSE]
    /\ socketFile = [h \in Handles |-> Loc(h)]
    /\ at = [h \in Handles |-> [t \in Threads |-> "idle"]]
    /\ pid = [h \in Handles |-> [t \in Threads |-> None]]
    /\ lock = [h \in Handles |-> None]
    /\ link = [h \in Handles |-> None]
    /\ others = [h \in Handles |-> {}]

-----------------------------------------------------------------------------
(* Opening an instance: __init__.                                          *)

FirstStep(h) == IF h \in Isolated THEN "conf" ELSE "load"

Open(h, t) ==
    /\ life[h] = "unborn" /\ Quiet
    /\ life' = [life EXCEPT ![h] = "building"]
    /\ tmpdirs' = tmpdirs \cup ({h} \cap Isolated)
    /\ sockdirs' = IF DeepPath THEN sockdirs \cup ({h} \ Given) ELSE sockdirs
    /\ Goto(h, t, FirstStep(h))
    /\ UNCHANGED <<daemons, rdb, runfiles, started, running, socketFile, pid, lock, conns>>

NeverReadable(r) == FALSE           \* mutant: the registry is not consulted
ReadableIfPresent(r) == r # None    \* mutant: a torn registry is not noticed
Readable(r) == r \in Locs

\* _load_setting_registry, first read: absent, unreadable or torn means no
\* server.  The socket it names is kept in socketFile until the pid is checked.
LoadRegistry(h, t) ==
    /\ at[h][t] = "load"
    /\ IF Readable(registry[File(h)])
       THEN /\ socketFile' = [socketFile EXCEPT ![h] = registry[File(h)]]
            /\ Goto(h, t, "probe")
       ELSE Goto(h, t, "conf") /\ UNCHANGED socketFile
    /\ UNCHANGED <<daemons, rdb, runfiles, dirs, life, started, running, pid, lock, conns>>

\* Second read: the pidfile.  Any process with that pid counts as the server.
ProbePid(h, t) ==
    /\ at[h][t] = "probe"
    /\ IF PidOf(h) # None
       THEN /\ sockdirs' = sockdirs \ {h}
            /\ Goto(h, t, "ping") /\ UNCHANGED socketFile
       ELSE /\ socketFile' = [socketFile EXCEPT ![h] = Loc(h)]
            /\ Goto(h, t, "conf") /\ UNCHANGED sockdirs
    /\ UNCHANGED <<daemons, rdb, runfiles, tmpdirs, life, started, running, pid, lock, conns>>

\* _start_server up to the binary check; a failure rolls back an instance that
\* has started nothing.  A serverconfig that repeats an argument of config, such
\* as pidfile, is a TypeError.
WriteConf(h, t) ==
    /\ at[h][t] = "conf"
    /\ \/ /\ conf' = [conf EXCEPT ![Dir(h)] = Rendered(h)]
          /\ Goto(h, t, "launch") \/ ("no_binary" \in Faults /\ Goto(h, t, "undo"))
       \/ "bad_override" \in Faults /\ Goto(h, t, "undo") /\ UNCHANGED conf
    /\ UNCHANGED <<daemons, rdb, pidfile, sock, registry, dirs, object, pid, lock, conns>>

\* Popen and wait: the launcher reads valkey.conf and forks the daemon, or
\* exits at once if it cannot; its exit status is not looked at.
Launch(h, t) ==
    /\ at[h][t] = "launch"
    /\ \/ /\ conf[Dir(h)] # None
          /\ proc' = [proc EXCEPT ![h] = "boot"]
          /\ setup' = [setup EXCEPT ![h] = conf[Dir(h)]]
       \/ /\ conf[Dir(h)] = None \/ "bad_config" \in Faults
          /\ UNCHANGED <<proc, setup>>
    /\ started' = [started EXCEPT ![h] = TRUE]
    /\ Goto(h, t, IF h \in Isolated THEN "ping" ELSE "truncate")
    /\ UNCHANGED <<mem, rdb, runfiles, dirs, life, running, socketFile, pid, lock, conns>>

RollBackAny(h, t) ==                \* mutant: whoever launched the server
    pid' = [pid EXCEPT ![h][t] = PidOf(h)] /\ Goto(h, t, "term")

\* The except clause for an instance that has launched a server: read the pid
\* to terminate.  One that has not goes on with no pid.
RollBack(h, t) ==
    /\ pid' = [pid EXCEPT ![h][t] = IF started[h] THEN PidOf(h) ELSE None]
    /\ Goto(h, t, "term")

\* _save_setting_registry: open with O_TRUNC, then write.
TruncateRegistry(h, t) ==
    /\ at[h][t] = "truncate"
    /\ \/ registry' = [registry EXCEPT ![File(h)] = Torn] /\ Goto(h, t, "save") /\ UNCHANGED pid
       \/ "save_fails" \in Faults /\ RollBack(h, t) /\ UNCHANGED registry
    /\ UNCHANGED <<daemons, rdb, pidfile, conf, sock, dirs, object, lock, conns>>

\* The write goes to the open file, which another clean-up may have unlinked, or
\* fails half way.
SaveRegistry(h, t) ==
    /\ at[h][t] = "save"
    /\ \/ /\ registry' = [registry EXCEPT ![File(h)] = IF @ = None THEN None ELSE Loc(h)]
          /\ Goto(h, t, "ping") /\ UNCHANGED pid
       \/ "save_fails" \in Faults /\ RollBack(h, t) /\ UNCHANGED registry
    /\ UNCHANGED <<daemons, rdb, pidfile, conf, sock, dirs, object, lock, conns>>

\* _wait_until_ready, and the end of __init__.
PingAnswered(h, t) ==
    /\ at[h][t] = "ping" /\ Reach(h) # None
    /\ Connect(h)
    /\ life' = [life EXCEPT ![h] = "built"]
    /\ running' = [running EXCEPT ![h] = TRUE]
    /\ Goto(h, t, "idle")
    /\ UNCHANGED <<daemons, rdb, runfiles, dirs, started, socketFile, pid, lock, others>>

\* start_timeout passes unanswered, or with every PING rejected.  Unless daemons
\* may boot slowly, it passes only if its own has booted and none that could
\* answer is on its way.
PingTimeout(h, t) ==
    /\ at[h][t] = "ping"
    /\ IF Reach(h) # None
       THEN "ping_rejected" \in Faults
       ELSE \/ "slow_start" \in Faults
            \/ \A q \in Handles :
                  proc[q] \in {"boot", "named"} => q # h /\ setup[q].sock # socketFile[h]
    /\ RollBack(h, t)
    /\ UNCHANGED <<daemons, rdb, runfiles, dirs, object, lock, conns>>

\* The rest of the except clause.  The pidfile, the configuration and the
\* socket of a shared directory stay behind.
Undo(h, t) ==
    /\ at[h][t] = "undo"
    /\ registry' = IF started[h] /\ h \notin Isolated
                   THEN [registry EXCEPT ![File(h)] = None] ELSE registry
    /\ pidfile' = [d \in Dirs |-> IF d = h THEN None ELSE pidfile[d]]
    /\ conf' = [d \in Dirs |-> IF d = h THEN None ELSE conf[d]]
    /\ sock' = IF h \in Given THEN sock ELSE [sock EXCEPT ![h] = None]
    /\ tmpdirs' = tmpdirs \ {h}
    /\ sockdirs' = sockdirs \ {h}
    /\ life' = [life EXCEPT ![h] = "failed"]
    /\ Back(h, t)
    /\ UNCHANGED <<daemons, rdb, started, running, socketFile, lock, conns>>

-----------------------------------------------------------------------------
(* _terminate, which rolling back and closing share.                       *)

AfterTerm(h) == IF life[h] = "building" THEN "undo" ELSE "remove"

\* psutil.Process(pid): from here on the process is known by its creation
\* time, so a later reuse of the pid is noticed, an earlier one is not.
BindProcess(h, t) ==
    /\ at[h][t] = "term"
    /\ LET p == pid[h][t]
       IN  Goto(h, t, IF ~Exists(p) THEN AfterTerm(h)
                      ELSE IF proc[p] = "foreign" THEN "signalForeign" ELSE "signal")
    /\ UNCHANGED <<daemons, rdb, runfiles, dirs, object, pid, lock, conns>>

\* An orderly exit of daemon q: save if told to, unlink the pidfile and the
\* socket by name, whoever owns them by now.
ExitOrderly(q, save) ==
    /\ proc' = [proc EXCEPT ![q] = "dead"]
    /\ rdb' = IF save /\ q \notin Isolated THEN [rdb EXCEPT ![setup[q].file] = mem[q]] ELSE rdb
    /\ pidfile' = [pidfile EXCEPT ![Dir(q)] = None]
    /\ sock' = [sock EXCEPT ![setup[q].sock] = None]

\* The process is gone, or it is asked to terminate after the wait: a serving
\* daemon saves and exits, one still booting just dies, a hung one is killed.
Signal(h, t) ==
    /\ at[h][t] = "signal"
    /\ LET p == pid[h][t]
       IN  \/ /\ proc[p] \notin Live
              /\ UNCHANGED <<proc, rdb, pidfile, sock>>
           \/ /\ proc[p] = "up"
              /\ ExitOrderly(p, TRUE)
           \/ /\ proc[p] \in (IF "hung_daemon" \in Faults THEN Live ELSE {"boot", "named"})
              /\ proc' = [proc EXCEPT ![p] = "dead"]
              /\ UNCHANGED <<rdb, pidfile, sock>>
    /\ Goto(h, t, AfterTerm(h))
    /\ UNCHANGED <<setup, mem, conf, registry, dirs, object, pid, lock, conns>>

\* The pid belonged to an unrelated process when psutil looked it up.
SignalForeign(h, t) ==
    /\ at[h][t] = "signalForeign"
    /\ proc' = [proc EXCEPT ![pid[h][t]] = "dead"]
    /\ Goto(h, t, AfterTerm(h))
    /\ UNCHANGED <<setup, mem, rdb, runfiles, dirs, object, pid, lock, conns>>

-----------------------------------------------------------------------------
(* Closing an instance: close, __exit__, __del__ and atexit run _cleanup.  *)

\* The concrete client's close(): the connection pool is disconnected.
Disconnect(h) ==
    /\ link' = [link EXCEPT ![h] = None]
    /\ others' = [q \in Handles |-> others[q] \ {h}]

BeginClose(h, t) ==
    /\ life[h] \in {"built", "failed"} /\ at[h][t] = "idle" /\ Quiet
    /\ Goto(h, t, "lock")
    /\ UNCHANGED <<daemons, rdb, runfiles, dirs, object, pid, lock, conns>>

LockIgnored(h) == TRUE              \* mutant: _cleanup without its lock
LockFree(h) == lock[h] = None

NeverRetired(h) == FALSE            \* mutant: the running flag is not tested
Retired(h) == ~running[h]

\* Take the lifecycle lock; an instance that is not running only disconnects.
Acquire(h, t) ==
    /\ at[h][t] = "lock" /\ LockFree(h)
    /\ IF Retired(h)
       THEN Goto(h, t, "idle") /\ Disconnect(h) /\ UNCHANGED lock
       ELSE /\ lock' = [lock EXCEPT ![h] = t]
            /\ Goto(h, t, IF h \in Isolated THEN "capture" ELSE "count")
            /\ UNCHANGED conns
    /\ UNCHANGED <<daemons, rdb, runfiles, dirs, object, pid>>

ReturnLocked(h, t) ==               \* mutant: the lock is not released
    Disconnect(h) /\ Back(h, t) /\ UNCHANGED lock

\* The finally clause: disconnect, release the lock, return.
Return(h, t) ==
    /\ Disconnect(h)
    /\ lock' = [lock EXCEPT ![h] = None]
    /\ Back(h, t)

LastOfTwo(h) == Reach(h) = None \/ Conns(h) <= 2       \* mutant: off by one
LastReachable(h) == Reach(h) # None /\ Conns(h) <= 1   \* mutant: no answer, not last
\* _connection_count() <= 1; an unreachable server counts 0.
LastClient(h) == Reach(h) = None \/ Conns(h) <= 1

Count(h, t) ==
    /\ at[h][t] = "count"
    /\ Connect(h)
    /\ Goto(h, t, IF LastClient(h) THEN "capture" ELSE "leave")
    /\ UNCHANGED <<daemons, rdb, runfiles, dirs, object, pid, lock, others>>

\* CLIENT LIST fails with something else than a ConnectionError: close raises
\* and stays retryable, with its pool disconnected.
CountRaises(h, t) ==                \* mutant: the lock is not released
    /\ at[h][t] = "count" /\ "count_timeout" \in Faults
    /\ ReturnLocked(h, t)
    /\ UNCHANGED <<daemons, rdb, runfiles, dirs, object>>
CountFails(h, t) ==
    /\ at[h][t] = "count" /\ "count_timeout" \in Faults
    /\ Return(h, t)
    /\ UNCHANGED <<daemons, rdb, runfiles, dirs, object>>

\* Somebody else is connected: retire and leave the server to them.
Leave(h, t) ==
    /\ at[h][t] = "leave"
    /\ running' = [running EXCEPT ![h] = FALSE]
    /\ Return(h, t)
    /\ UNCHANGED <<daemons, rdb, runfiles, dirs, life, started, socketFile>>

LatePid(h) == None                  \* mutant: read when SHUTDOWN has removed it
CapturedPid(h) == PidOf(h)

CapturePid(h, t) ==
    /\ at[h][t] = "capture"
    /\ pid' = [pid EXCEPT ![h][t] = CapturedPid(h)]
    /\ Goto(h, t, "shutdown")
    /\ UNCHANGED <<daemons, rdb, runfiles, dirs, object, lock, conns>>

NosaveAlways(h) == FALSE            \* mutant: the shared server does not save
Saves(h) == h \notin Isolated

\* SHUTDOWN SAVE, or NOSAVE for a private server; every failure is swallowed.
Shutdown(h, t) ==
    /\ at[h][t] = "shutdown"
    /\ \/ Reach(h) # None /\ ExitOrderly(Reach(h), Saves(h))
       \/ /\ Reach(h) = None \/ "shutdown_fails" \in Faults
          /\ UNCHANGED <<proc, rdb, pidfile, sock>>
    /\ Goto(h, t, "term")
    /\ UNCHANGED <<setup, mem, conf, registry, dirs, object, pid, lock, conns>>

KeepRunFiles(h) ==                  \* mutant: trusts the server to have removed them
    UNCHANGED <<pidfile, sock>>
RemoveRunFiles(h) ==
    /\ pidfile' = [pidfile EXCEPT ![Dir(h)] = None]
    /\ sock' = [l \in Locs |-> IF l \in ({h} \ Given) \cup ({socketFile[h]} \ Isolated)
                                THEN None ELSE sock[l]]

\* _remove_files, and retirement.  The socket of a private instance goes with its
\* directories, so one at a path of the caller stays.  Only the instance that rendered valkey.conf
\* knows its path.
RemoveFiles(h, t) ==
    /\ at[h][t] = "remove"
    /\ registry' = IF h \in Isolated THEN registry ELSE [registry EXCEPT ![File(h)] = None]
    /\ RemoveRunFiles(h)
    /\ conf' = IF started[h] THEN [conf EXCEPT ![Dir(h)] = None] ELSE conf
    /\ tmpdirs' = tmpdirs \ {h}
    /\ sockdirs' = sockdirs \ {h}
    /\ running' = [running EXCEPT ![h] = FALSE]
    /\ Return(h, t)
    /\ UNCHANGED <<daemons, rdb, life, started, socketFile>>

-----------------------------------------------------------------------------
(* The daemon (external: Valkey as valkey.conf configures it).             *)

\* After daemonizing, the daemon writes its pidfile if the directory exists...
WritePidfile(q) ==
    /\ proc[q] = "boot"
    /\ proc' = [proc EXCEPT ![q] = "named"]
    /\ pidfile' = IF q \in Isolated \ tmpdirs THEN pidfile
                  ELSE [pidfile EXCEPT ![Dir(q)] = q]
    /\ UNCHANGED <<setup, mem, rdb, conf, sock, registry, dirs, object, calls, conns>>

\* ...replaces whatever socket is at its path, loads the RDB and serves.
Serve(q) ==
    /\ proc[q] = "named" /\ LocExists(setup[q].sock)
    /\ proc' = [proc EXCEPT ![q] = "up"]
    /\ sock' = [sock EXCEPT ![setup[q].sock] = q]
    /\ mem' = [mem EXCEPT ![q] = IF q \in Isolated THEN {} ELSE rdb[setup[q].file]]
    /\ UNCHANGED <<setup, rdb, pidfile, conf, registry, dirs, object, calls, conns>>

\* It exits if the directory of the socket is gone, leaving its pidfile.
BindFails(q) ==
    /\ proc[q] = "named" /\ ~LocExists(setup[q].sock)
    /\ proc' = [proc EXCEPT ![q] = "dead"]
    /\ UNCHANGED <<setup, mem, rdb, runfiles, dirs, object, calls, conns>>

\* Killed from outside.
Crash(q) ==
    /\ proc[q] \in Live /\ "daemon_crash" \in Faults
    /\ proc' = [proc EXCEPT ![q] = "dead"]
    /\ UNCHANGED <<setup, mem, rdb, runfiles, dirs, object, calls, conns>>

ReusePid(q) ==
    /\ proc[q] = "dead" /\ "pid_reuse" \in Faults
    /\ proc' = [proc EXCEPT ![q] = "foreign"]
    /\ UNCHANGED <<setup, mem, rdb, runfiles, dirs, object, calls, conns>>

-----------------------------------------------------------------------------
(* The program around the instances.                                       *)

\* A write reconnects if need be.  Nothing stops a closed instance from it.
Write(h) ==
    /\ life[h] = "built" /\ Quiet
    /\ running[h] \/ "use_after_close" \in Faults
    /\ Reach(h) # None
    /\ Connect(h)
    /\ mem' = [mem EXCEPT ![Reach(h)] = @ \cup ({h} \cap Writers)]
    /\ UNCHANGED <<proc, setup, rdb, runfiles, dirs, object, calls, others>>

\* The pool opens a second connection under concurrent commands.
Grow(h) ==
    /\ "pool_growth" \in Faults /\ running[h] /\ Up(link[h])
    /\ others' = [others EXCEPT ![link[h]] = @ \cup {h}]
    /\ UNCHANGED <<daemons, rdb, runfiles, dirs, object, calls, link>>

\* A plain client connects to the socket of daemon q, and leaves again.
Visit(q) ==
    /\ "external_client" \in Faults /\ Up(q)
    /\ \/ None \notin others[q] /\ others' = [others EXCEPT ![q] = @ \cup {None}]
       \/ None \in others[q] /\ others' = [others EXCEPT ![q] = @ \ {None}]
    /\ UNCHANGED <<daemons, rdb, runfiles, dirs, object, calls, link>>

\* kill -9 of the process h lives in.
ClientCrash(h) ==
    /\ life[h] \in {"building", "built"}
    /\ "client_crash" \in Faults \/ ("client_crash_idle" \in Faults /\ Idle(h))
    /\ life' = [life EXCEPT ![h] = "crashed"]
    /\ running' = [running EXCEPT ![h] = FALSE]
    /\ at' = [at EXCEPT ![h] = [t \in Threads |-> "idle"]]
    /\ pid' = [pid EXCEPT ![h] = [t \in Threads |-> None]]
    /\ lock' = [lock EXCEPT ![h] = None]
    /\ Disconnect(h)
    /\ UNCHANGED <<daemons, rdb, runfiles, dirs, started, socketFile>>

\* KeyboardInterrupt is not an Exception: a constructor is abandoned without
\* rolling back, a close runs its finally clause.
Interrupt(h, t) ==
    /\ "interrupt" \in Faults /\ at[h][t] # "idle"
    /\ life' = [life EXCEPT ![h] = IF @ = "building" THEN "failed" ELSE @]
    /\ Back(h, t)
    /\ IF lock[h] = t THEN Disconnect(h) /\ lock' = [lock EXCEPT ![h] = None]
                      ELSE UNCHANGED <<conns, lock>>
    /\ UNCHANGED <<daemons, rdb, runfiles, dirs, started, running, socketFile>>

-----------------------------------------------------------------------------
Step(h, t) ==
    \/ LoadRegistry(h, t) \/ ProbePid(h, t) \/ WriteConf(h, t) \/ Launch(h, t)
    \/ TruncateRegistry(h, t) \/ SaveRegistry(h, t)
    \/ PingAnswered(h, t) \/ PingTimeout(h, t) \/ Undo(h, t)
    \/ BindProcess(h, t) \/ Signal(h, t) \/ SignalForeign(h, t)
    \/ Acquire(h, t) \/ Count(h, t) \/ CountFails(h, t) \/ Leave(h, t)
    \/ CapturePid(h, t) \/ Shutdown(h, t) \/ RemoveFiles(h, t)

Boot(q) == WritePidfile(q) \/ Serve(q) \/ BindFails(q)

Next ==
    \/ \E h \in Handles, t \in Threads :
          Open(h, t) \/ BeginClose(h, t) \/ Step(h, t) \/ Interrupt(h, t)
    \/ \E h \in Handles : Boot(h) \/ Crash(h) \/ ReusePid(h) \/ Write(h) \/ Grow(h) \/ Visit(h) \/ ClientCrash(h)

Spec == Init /\ [][Next]_vars

\* A thread inside a call keeps running, and a booting daemon gets on.  Nobody
\* has to open or close an instance, and no fault has to happen.
FairSpec == /\ Spec
            /\ \A h \in Handles, t \in Threads : WF_vars(Step(h, t))
            /\ \A q \in Handles : WF_vars(Boot(q))
=============================================================================
