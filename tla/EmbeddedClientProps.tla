------------------------ MODULE EmbeddedClientProps -------------------------
(***************************************************************************)
(* What the docstrings of client.py and docs/agent-guides/lifecycle.md     *)
(* promise of the self-managed client, as formulas over EmbeddedClient.    *)
(* Which of them hold, and under which faults, the runs tell.              *)
(***************************************************************************)
EXTENDS EmbeddedClient

\* Every variable keeps its shape: files name daemons, the registry is absent,
\* torn or names a socket location, calls are at a step of client.py, and no
\* daemon runs without having read a valkey.conf.
TypeOK ==
    /\ proc \in [Handles -> Live \cup {"free", "dead", "foreign"}]
    /\ setup \in [Handles -> Confs \cup {None}]
    /\ \A q \in Handles : proc[q] \in Live => setup[q] # None
    /\ mem \in [Handles -> SUBSET Writers]
    /\ rdb \in [Files -> SUBSET Writers]
    /\ pidfile \in [Dirs -> Handles \cup {None}]
    /\ conf \in [Dirs -> Confs \cup {None}]
    /\ sock \in [Locs -> Handles \cup {None}]
    /\ registry \in [Files -> Locs \cup {None, Torn}]
    /\ tmpdirs \in SUBSET Isolated
    /\ sockdirs \in SUBSET Handles
    /\ life \in [Handles -> {"unborn", "building", "built", "failed", "crashed"}]
    /\ started \in [Handles -> BOOLEAN]
    /\ running \in [Handles -> BOOLEAN]
    /\ socketFile \in [Handles -> Locs]
    /\ at \in [Handles -> [Threads -> Steps]]
    /\ pid \in [Handles -> [Threads -> Handles \cup {None}]]
    /\ lock \in [Handles -> Threads \cup {None}]
    /\ link \in [Handles -> Handles \cup {None}]
    /\ others \in [Handles -> SUBSET (Handles \cup {None})]

-----------------------------------------------------------------------------
(* The lifecycle lock.                                                     *)

\* t is in the part of _cleanup that decides about the server and ends it.
InTeardown(h, t) == \/ at[h][t] \in CloseSteps
                    \/ at[h][t] \in TermSteps /\ life[h] # "building"

\* Threads that close one instance at the same time (close, __exit__, __del__,
\* atexit) never tear its server down twice at once: _lifecycle_lock.
OneTeardown ==
    \A h \in Handles : \A t, u \in Threads :
        InTeardown(h, t) /\ InTeardown(h, u) => t = u

\* A retired instance stays inert ("Repeated calls are harmless"): whoever
\* closes it again reads no pid, sends no signal and removes no file, even a
\* thread that was waiting for the lock while it was retired.
RetiredInert ==
    \A h \in Handles, t \in Threads :
        life[h] \in {"built", "failed"} /\ ~running[h] => ~InTeardown(h, t)

\* "A failed ownership check or process cleanup must remain retryable": however a
\* close ends, also when CLIENT LIST raises, when it is interrupted or when its
\* process is killed, nobody is left holding the lock for which a retry, __del__
\* or atexit would wait for ever.
LockReleased ==
    \A h \in Handles, t \in Threads : lock[h] = t => InTeardown(h, t)

\* A startup that fails tears down "only what WE created (never a server we
\* merely attached to)": whom it signals is the server it has launched itself.
RollbackSparesOthers ==
    \A h \in Handles, t \in Threads :
        life[h] = "building" /\ at[h][t] \in {"signal", "signalForeign"} => pid[h][t] = h

-----------------------------------------------------------------------------
(* The shared server.                                                      *)

SharedHandles == Handles \ Isolated

\* "instances given the same path attach to one server"
OneDaemon ==
    \A p, q \in SharedHandles :
        proc[p] \in Live /\ proc[q] \in Live /\ setup[p].file = setup[q].file => p = q

\* "instances given the same path attach to one server", and those given another
\* path do not: an instance is never connected to the server of another file.
OwnPath ==
    \A h \in SharedHandles :
        link[h] # None => link[h] \in SharedHandles /\ setup[link[h]].file = File(h)

\* An instance that is in use: open, and not beyond the ownership check.
Attended(h) ==
    life[h] = "built" /\ running[h] /\ \A t \in Threads : ~InTeardown(h, t)

\* "Shared servers remain available until their last client closes": an open
\* instance reaches a server, and the registry and the pidfile lead to it.
Served ==
    \A h \in Handles : Attended(h) =>
        /\ Reach(h) # None
        /\ h \notin Isolated =>
              registry[File(h)] = setup[Reach(h)].sock /\ pidfile[Shared] = Reach(h)

\* The same as a property of steps: no call of any instance ends the server
\* that an instance in use is connected to.  Only a crash may.
SharedStaysUp ==
    [][calls' # calls =>
          \A h \in Handles : Attended(h) /\ Up(link[h]) => Up(link[h])']_vars

\* The runtime files are removed when no server is using them any more.
RemovesUnused ==
    \A h \in Handles, t \in Threads : at[h][t] = "remove" =>
        \A q \in Handles : Dir(q) = Dir(h) => proc[q] \notin Live

Gone(h) == Idle(h) /\ (life[h] \in {"unborn", "failed"} \/ (life[h] = "built" /\ ~running[h]))
AllGone == \A h \in SharedHandles : Gone(h)

\* "the last to close shuts it down": once every instance has closed or failed
\* to open, no server process and no registry is left of the path.
NoOrphan ==
    AllGone => /\ \A q \in SharedHandles : proc[q] \notin Live
               /\ \A f \in Files : registry[f] = None

\* ... nor any other runtime file ("keep the RDB, drop only runtime files"),
\* unless a startup that failed after its launch has left them behind.
Tidy ==
    AllGone /\ (\A h \in SharedHandles : life[h] = "failed" => ~started[h])
       => pidfile[Shared] = None /\ \A l \in Locs \ Isolated : sock[l] = None

-----------------------------------------------------------------------------
(* Private servers.                                                        *)

\* Closing a private instance, or failing to open one, leaves neither its
\* daemon nor its temp directories behind.
PrivateReleased ==
    \A h \in Isolated : Gone(h) => proc[h] \notin Live /\ h \notin tmpdirs \cup sockdirs

\* "Fully isolated": a private instance is never connected to, and never about
\* to signal, another instance's daemon, nor is any other instance to its own.
Isolation ==
    \A h \in Handles, t \in Threads : \A q \in {link[h], pid[h][t]} \ {None} :
        h \in Isolated \/ q \in Isolated => q = h

-----------------------------------------------------------------------------
(* Progress and the abstract store.                                        *)

\* Every constructor and every close returns or raises.
CallsReturn ==
    \A h \in Handles, t \in Threads : at[h][t] # "idle" ~> at[h][t] = "idle"

\* The instances of one path, taken together, are the store of SharedStore: an
\* instance holds it until CLIENT LIST has been counted for its close.
UpDaemons == {q \in SharedHandles : proc[q] = "up"}

Store == INSTANCE SharedStore WITH
    Holders <- SharedHandles,
    Keys <- Writers,
    serving <- UpDaemons # {},
    holding <- {h \in SharedHandles : life[h] = "built" /\ running[h] /\
                   \A t \in Threads : at[h][t] \in {"idle", "lock", "count"}},
    contents <- IF UpDaemons = {} THEN rdb["main"] ELSE UNION {mem[q] : q \in UpDaemons}

ImplementsStore == Store!Spec

-----------------------------------------------------------------------------
(* Promises that the code does not keep: the README names, for each, the   *)
(* constants for which TLC refutes it.                                     *)

\* An instance that leaves the server to the others it has counted leaves it to
\* an instance that will still do its own counting, or has decided to stop it.
LeaveJustified ==
    \A h \in Handles, t \in Threads : at[h][t] = "leave" =>
        \E g \in SharedHandles \ {h} :
            /\ life[g] = "built" /\ running[g]
            /\ \A u \in Threads : at[g][u] # "leave"

\* _load_setting_registry: "True if the registry points at a running server;
\* False if absent, unreadable, or the recorded pid is dead."
AttachesToServer ==
    [][\A h \in Handles, t \in Threads :
          at[h][t] = "probe" /\ at'[h][t] = "ping" => proc[pidfile[Shared]] \in Live]_vars

\* "PID existence alone is not identity": a process that merely got the pid of
\* a dead server is never terminated.
ForeignSpared == [][\A q \in Handles : proc[q] = "foreign" => proc'[q] = "foreign"]_vars

\* valkey.conf is a runtime file as well.
ConfRemoved == AllGone => conf[Shared] = None

\* "the fallback dir the caller must remove at cleanup"
FallbackFreed == \A h \in Handles : Gone(h) => h \notin sockdirs
=============================================================================
