# A TLA+ development of valkey-embedded

`valkey-embedded` runs a private or shared `valkey-server` behind a Python client
object. Nearly everything that can go wrong in it is about processes and files: who
launched which daemon, who may stop it, what a stale file means, what two processes do
to each other's files. This directory models that part in TLA+, checks it with TLC on
small instances, and proves its safety properties with TLAPS for every number of instances
and threads.

Paths below are relative to the repository root; `client.py`, `server.py` and so on are
in `src/valkey_embedded/`.

## 1. The system

| Component | State it keeps | Operations | Interacts through | What makes it correct |
|---|---|---|---|---|
| Self-managed client: `Valkey`, `StrictValkey` (`client.py`, `ValkeyMixin`) | per object: `running`, `start`ed, `socket_file`, lifecycle lock, temp and socket directories; on disk: `valkey.conf`, `valkey.pid`, `valkey.socket`, `<rdb>.settings`, the RDB | `__init__` (attach, or start, wait, save the registry, roll back), `close`/`__exit__`/`__del__`/atexit (all `_cleanup`), `pid` | the registry file, the pidfile, the process table, the daemon's `CLIENT LIST`, signals | one server per path; it lives exactly as long as somebody has it open; a failure undoes what this instance did and nothing else; nothing is left behind |
| Explicit server: `ValkeyServer` (`server.py`) | `port`, atexit hook, data, temp and socket directories; `valkey.conf`, `valkey.pid` | `start`, `stop`, `terminate`, `client`, `__enter__`/`__exit__`/`__del__`, atexit | TCP port, pidfile, process table, signals | start ends on its own daemon; stop, terminate and exit leave none; nobody else's process is touched |
| `valkey.conf` rendering (`configuration.py`) | none (a table of defaults) | `settings`, `config` | called by both of the above | every directive once, overrides win, `dbdir` becomes `dir`, defaults never mutated |
| `connect` and its durability presets (`client.py`) | none | `connect` | builds a `Valkey` | what survives a crash is what the preset promises |
| Monkeypatching (`patch.py`) | `_originals`, `_patched`, class attributes of the clients | `patch_valkey*`, `unpatch_valkey*` | re-points class attributes that live instances read | patch and unpatch are inverse, in any order |
| pytest plugin (`pytest_plugin.py`) | list of servers of a factory | four fixtures | `ValkeyServer` | every server that was made is stopped |
| Command line (`__main__.py`) | a stop flag | `main`, a signal handler | `ValkeyServer`, signals | a signal leads to a stop, at any moment |
| Metadata and diagnostics (`__init__.py`, `debug.py`) | none | read a JSON file, print facts | `package_metadata.json`, `bin/` | the version it reports is that of the server it has |
| Build (`tools/build_valkey.py`, `setup.py`) | `bin/`, the licenses and the metadata in a source tree | cache check, preflight, download, verify, compile, replace, package | files that later builds find and wheels carry | nothing unverified is packaged; a wheel is of one version, whatever builds failed before |
| Packaging stub, examples, CI | | | | |

The behaviours that are hard here:

* **Several processes, no lock between them.** Opening reads the registry, then the
  pidfile, then decides; closing counts connections, then shuts down, then unlinks files
  *by name*. Any other process may act between any two of these.
* **Several threads on one object.** `close`, `__exit__`, `__del__` and the atexit hook
  may run at once; `client.py` has a lock for it, `server.py` has none.
* **Crashes.** Of the daemon (stale registry, pidfile and socket), of a client (one
  connection fewer, nothing else), of either between two steps.
* **Identity.** A daemon is known by a number in a file; numbers are reused. A TCP port
  is known to be free at some earlier time.
* **Timeouts.** `start_timeout` may pass while the daemon is still on its way, before it
  has a pidfile; each stage of the shutdown escalation has its own.
* **Partial failure.** Every step of a constructor or of a start may raise.
* **Persistence.** What a preset promises depends on a merge of overrides, on what Valkey
  makes of the result, and on what earlier servers of the directory have left there.
* **Signals.** They come between any two steps of a program, also inside `start`, `stop`
  and a fixture's teardown, before and after the handlers are installed.
* **Files that outlive their build.** A build replaces several files one by one, and the
  next one looks at two of them to decide whether it has anything to do.
* **One directory, several roles.** Registry and RDB are named after the RDB path, but
  pidfile, socket and `valkey.conf` after its directory; a socket path too long for
  `sun_path` moves to a directory of its own.

`PROJECT.json` lists these hazards line by line with the properties that watch them.

## 2. The modules

| Module | What it is |
|---|---|
| `EmbeddedClient` | the self-managed client: instances, threads, daemons, file system, faults |
| `EmbeddedClientProps` | what the docstrings and `docs/agent-guides/lifecycle.md` promise of it, as formulas |
| `SharedStore` | the abstract specification: what the instances of one RDB path are together |
| `EmbeddedClient_proofs`, `Isolation_proofs`, `Shared_proofs` | theorems about the client: each instance for itself, private instances, the instances of one path |
| `MCEmbeddedClient` | the client for TLC (symmetry) |
| `ExplicitServer` | `ValkeyServer`, with its properties |
| `ExplicitServer_proofs` | theorems about it |
| `MCExplicitServer` | the same for TLC |
| `Programs` | the command line and the pytest plugin, composed with `ExplicitServer` |
| `Programs_proofs` | theorems about them |
| `Patch` | `patch.py`, with instances that open and close meanwhile |
| `Patch_proofs` | theorems about it |
| `Config` | `configuration.py` and `connect` as operators |
| `Durability` | what of the data is there the next time, over servers that `Config` configures |
| `Durability_proofs` | theorems about it |
| `MCDurability` | its paths and requests for TLC |
| `BuildValkey` | `tools/build_valkey.py`, `setup.py`, and the metadata read by `__init__.py` |
| `BuildValkey_proofs` | theorems about it |

### EmbeddedClient

A *handle* is one `ValkeyMixin` object, opened once and closed any number of times. It
launches at most one daemon, which therefore carries the handle's name, as do its pid and
the handle's temp directories. Handles in `Isolated` were opened without a path; all
others share one directory, and those in `Siblings` have a second RDB path in it.

| Variable | Code |
|---|---|
| `proc`, `setup`, `mem` | the daemon: how far its life has got, the `valkey.conf` it read, its keys |
| `rdb`, `pidfile`, `conf`, `sock`, `registry` | the files; `registry` may be absent, `Torn` (truncated) or name a socket |
| `tmpdirs`, `sockdirs` | `tempfile.mkdtemp` in `__init__` and in `_socket_path_for` |
| `life` | has `__init__` been called, returned or raised, was the process killed |
| `started`, `running`, `socketFile` | `start`, `running` and `socket_file` of the object |
| `at`, `pid`, `lock` | for each thread in a call: the step it is at and its local `pid`; `_lifecycle_lock` |
| `link`, `others` | connections: the pooled one of each handle, and any further one |

A call is a sequence of steps, and `at` says which comes next. A step ends where the code
touches something another process can see:

| Step of `at` | Action | Code |
|---|---|---|
| (call) | `Open` | `__init__` up to the first look at the registry |
| `load`, `probe` | `LoadRegistry`, `ProbePid` | `_load_setting_registry` reads the registry, then the pidfile |
| `conf`, `launch` | `WriteConf`, `Launch` | `_start_server` |
| `truncate`, `save` | `TruncateRegistry`, `SaveRegistry` | `_save_setting_registry`: open for writing, then write |
| `ping` | `PingAnswered`, `PingTimeout` | `_wait_until_ready` |
| `undo` | `Undo` | the `except` clause of `__init__`, after `_terminate` |
| `term`, `signal`, `signalForeign` | `BindProcess`, `Signal`, `SignalForeign` | `_terminate`, for rolling back and for closing |
| `lock` | `Acquire` | `_cleanup` takes the lock and tests `running` |
| `count`, `leave` | `Count`, `CountFails`, `Leave` | `_connection_count` and the branch that leaves the server to others |
| `capture`, `shutdown`, `remove` | `CapturePid`, `Shutdown`, `RemoveFiles` | the branch of the last client |

The daemon (`WritePidfile`, `Serve`, `BindFails`) is external: it is modelled from what
`valkey.conf` and the code's own comments rely on. It forks, writes its pidfile, replaces
the socket file, loads the RDB and serves; an orderly exit saves if told to and unlinks
pidfile and socket by name. The environment may crash daemons and clients, reuse pids and
more, each of these only if it is in `Faults`.

What the model simplifies:

* the unlinks of one clean-up, and the writes of one rendered file, are one step;
* files are known by name, not by inode: a registry that is written after somebody else
  has unlinked *and recreated* it lands in the new file;
* killing a process that merely got the pid always succeeds (permissions are not modelled);
* SIGKILL is instantaneous: the code (`client.py:403-407`) sends it as the last stage of the
  escalation and does not wait, so the pid of a hung daemon may outlive the clean-up for a
  moment. It executes nothing any more, and nobody starts its handle again;
  `ExplicitServer`, where restarts follow, has the moment as a state (`killed`);
* `__del__` needs no action: it is one more close, by any thread;
* binding the socket and loading the RDB are one step of the daemon;
* the handles in `Given` have a `unix_socket_path` of the caller, each its own, in a
  directory that exists; nobody but the daemon and `_remove_files` removes that socket, so
  that of a private instance stays when its daemon is killed;
* of a `serverconfig` only that it may repeat an argument which the client passes itself
  (`pidfile`, `unixsocket`, `dbfilename`...), a `TypeError` before anything is launched
  (`bad_override`); what its other directives do is in `Config` and `Durability`.

### ExplicitServer

Servers may start many times, so here daemons are named by their pids. `tcp` says who
listens on each port; `Outsider` is a Valkey server of somebody else. `start` is `check`,
`port`, `conf`, `launch`, `wait`, `ping`: `Launch` is `Popen`, `AwaitLauncher` the return of
the blocking wait for the launcher and the `atexit.register` after it. `stop` is `stop`,
`shutdown`, `term`, `signal`, `clean`; `terminate` is `terminate`, `kill`, `cleanKilled`.
`Exit` is the end of the program: it runs `stop` if the atexit hook is registered. There is
no lock, because `server.py` has none: `Overlap` restricts the programs instead, to those
that make one call at a time (`"none"`), to those that make each start alone but may stop
and terminate one object from several threads, the atexit hook among them (`"stops"`), or to
nothing (`"any"`). A process that was sent SIGKILL is `killed` until it dies (`Die`):
`_terminate` does not wait for that, and the wait of `terminate` may time out (`slow_exit`),
which is swallowed; both go on to remove the files. `Fixed` servers are told their port.
`Dir` says whose `valkey.pid` and `valkey.conf` an object uses: its own, or those that all
objects of `SameDir` have in common. `config` has the last word in `valkey.conf`, so a
server of `PortInConfig` looks for one port and its daemon binds another, and the daemon of
one in `PidInConfig` writes its pidfile where the object does not look. The data set is left
out, since no property of this component speaks about it.

### Programs

`__main__.py` and `pytest_plugin.py` are programs of one thread that call `ValkeyServer`, so
this module extends `ExplicitServer`: `Invoke` puts the thread at the first step of a call,
`Run` takes the steps of the call, and the program goes on when it has returned. `pc` is
where the program is.

| Variable | Code |
|---|---|
| `program`, `pc`, `callee` | which program it is, the place it has reached, the server it works on |
| `raised` | did the last `start` raise? |
| `sent`, `handled`, `flag` | signals sent, those with a handler, `stopping["flag"]` |
| `session`, `tests` | is `valkey_server` set up; how many tests have begun |
| `created`, `given`, `servers` | what the factory made, what it returned, the list it tears down |
| `unseen` | daemons that a `stop` could not see, as they had no pidfile yet |
| `unhooked` | daemons whose `start` was cut off between `Popen` and `atexit.register` |

| Action | Code |
|---|---|
| `CliStart`, `CliStarted`, `CliHandle`, `CliLoop` | `main`: `start`, its outcome, each `signal.signal`, the loop and the `stop` after it |
| `SessionStart`, `SessionStarted`, `EndSession` | `valkey_server` |
| `BeginTest` | `valkey_client`: ping and `FLUSHALL` by whoever answers on the port |
| `Create`, `Created`, `TearDown` | `valkey_server_factory` |
| `UseServer`, `EndTest` | what a test does with a server of the factory |
| `Leave` | the interpreter's end: one atexit hook after the other |
| `Sigint`, `Sigterm` | a signal between any two steps: the handler, `KeyboardInterrupt`, or the end of the process |

A signal abandons the call in progress where it is (`Abandon`) unless a handler is
installed. Simplified: at most one signal is sent; SIGINT during the atexit hooks is left
out, as is the parsing of arguments; after `KeyboardInterrupt` pytest runs the teardowns it
has not finished and no further test.

### Config and Durability

`Config` has no state: `Settings`, `Lines` and `ServerConfig` are `settings`, `config` and
the merge in `connect`, on functions from directives to the list of lines a value renders
to. `None` removes a directive, an empty value renders to nothing, `dbdir` becomes `dir`
unless `dir` is given. Of the table of defaults it keeps the four directives that decide
where data goes and what is kept. `Reads` and `Daemon` are Valkey's part, external: its own
default for a directive that is missing, the program's working directory for a missing
`dir`, the last line for one that is repeated.

`Durability` is about data and forgets how a server is found: the first to open starts it,
the last to close stops it, as `EmbeddedClient` is shown to implement.

| Variable | Meaning |
|---|---|
| `open` | what each object has open, and with which `durable`, `serverconfig` and `persist` |
| `up`, `conf`, `mem` | the server, what it read in `valkey.conf`, its data |
| `rdb`, `aof`, `synced` | snapshots by directory and file; the append-only file of a directory, and what of it has been fsynced |
| `acked`, `promised`, `recent`, `kept` | history: what was acknowledged, at which level, in the current second, and what closes have left on disk |

`Start` and `Attach` are opening, `Stop`, `StopUnsaved` and `Leave` closing, with SHUTDOWN
SAVE or NOSAVE, which may be refused and end in SIGKILL (`StopUnsaved`: close returns as
usual, and has left what the append-only file had, if there is one). `Write`, `Second` and
`Snapshot` are Valkey's. `Kill` loses what was in memory, `PowerLoss` also any suffix of
what was not fsynced. Simplified: programs use one path at a time, keys are added and never
deleted, the append-only file is never rewritten, snapshots are atomic; a private instance
only appears as one for which `connect` refuses durability (`Accepts`).

### BuildValkey

One build at a time runs in a source tree: `at` is its stage; `version`, `force`, `allow`
and `ci` are its environment (`VALKEY_VERSION`, `VALKEY_FORCE_REBUILD`,
`VALKEY_ALLOW_UNPINNED`, `CI`), which the next build need not share; `tarball` is what it
downloaded. `bin` and `metadata` are the tree, which outlives builds, `wheel` is what was
packaged last. A file has contents of some version, genuine or not, or is absent (`None`) or
was not written to its end (`Torn`): copying is two steps, and a build may be interrupted
between any two. `behind` remembers that a build was cut off between the first file it
replaced and the metadata, `waived` the unpinned versions that some build outside CI was
told to allow. Simplified: the three licenses are one file, a missing license in the archive
is not modelled (the code prints a note), neither are target architectures and build modes,
which the cache check does not compare, nor the package's own version in the metadata.

### Patch

`module`, `originals` and `patched` are the two names of the `valkey` module and the two
dictionaries of `patch.py`. `classFile` stands for the three class attributes that a dbfile
re-points together (`dbdir`, `dbfilename`, `settingregistryfile`); upstream's two names are
one embedded class, so there is one set of them. `own` is the path an instance was given,
which hides the class's. What makes patching delicate is `Registry(c)`: an instance that was
opened *without* a path reads the class attribute again when it closes. Here one thread
makes all calls and nothing fails, so opening and closing are one step each, and `pidfile`
and socket, which then always agree, are one variable (`runfiles`). `ResetClass` is what a
test of the repository does by hand, since `unpatch_valkey` leaves the attributes as they
are. `PatchFirst` restricts programs to those that re-point the attributes only while nobody
has an instance open that was opened without a path (`MayRepoint`); instances with a path of
their own may be open all the while.

### SharedStore

Whoever has opened one RDB path holds a store. It is served while anyone holds it, stopped
by the last to leave, and keeps its contents from one service to the next.
`EmbeddedClientProps` maps the client to it (`Store`): a handle holds the store from the end
of its constructor until it has counted connections for its close; the contents are the data
set of the running daemon or else the RDB.

## 3. The runs

Run one with `tlc -workers 2 -config <run>.cfg <module>`. All of them say
`CHECK_DEADLOCK FALSE`: each handle is opened once, each pid launched once, writes run out,
and programs end, so the system may stop.

| Run | Instance | Checks | States |
|---|---|---|---|
| `shared` | 4 instances of one path, two of which write, one with a socket of the caller, the others with fallback sockets, one thread, fair | `Served`, `ImplementsStore` | 37,815 |
| `shared_faults` | 3 instances of one path, one thread; daemons crash, hang, ignore SHUTDOWN, reject PING, fail to launch or get a bad `serverconfig`; clients are killed between calls | `OneDaemon`, `NoOrphan`, `Tidy`, `RemovesUnused`, `RollbackSparesOthers`, `SharedStaysUp` | 8,432 |
| `private` | 2 private instances, one on a socket of the caller, with 2 threads each, daemons crash, hang, ignore SHUTDOWN, fail to launch, fair | `OneTeardown`, `RetiredInert`, `PrivateReleased`, `CallsReturn` | 14,625 |
| `mixed` | two paths in one directory and a private instance, in three processes, a socket of the caller and fallback sockets | `Isolation`, `OwnPath` | 74,438 |
| `faults` | 2 instances in two processes, every fault but a crash of the daemon | `TypeOK`, `LockReleased` | 879,458 |
| `server_stops` | 2 servers, one in a directory of the caller, 2 pids, 2 ports, fallback sockets, 2 threads whose stops and terminates overlap; daemons crash, hang, ignore SHUTDOWN, die slowly, fail to launch, fair | `OneDaemon`, `StopReleases`, `StartsAgain`, `HookCovers`, `ReadyIsOurs`, `OthersSpared`, `ExitReleases` | 482,296 |
| `server_faults` | 1 server whose `config` overrides its port, 2 threads in any overlap, every fault | `TypeOK` | 461,460 |
| `programs` | the command line over any of 3 servers, and a session of 2 tests with a session server and a factory; daemons crash or fail to launch, one signal at any moment, fair | `NoneLeft`, `FactoryReleases`, `FlushesOwn`, `Finishes` | 1,136,098 |
| `patched` | 3 instances, 2 paths, both names; a dbfile is applied only while no instance without a path is open | `Restorable`, `OneDaemon`, `Served`, `Tidy` | 13,132 |
| `durability` | 2 objects, 3 writes, 3 paths (snapshots, append-only file, no persistence) with the presets and overrides of `MCDurability`; kills, power losses, refused saves | `AlwaysKept`, `OneSecondLost`, `CloseKeeps`, `OwnData` | 319,228 |
| `builds` | any number of builds of a pinned and an unpinned version, each with its own environment, each of which may fail at every stage or be interrupted | `OnlyVerified`, `ReportsItsServer`, `WheelComplete` | 6,092,915 |
| `close_race` | 2 instances of one path in two processes, no fault | refutes `NoOrphan` | |

What they show together. When the instances of a path are driven by **one thread**, the
promise of `client.py` ("instances given the same path attach to one server, and the last
to close shuts it down") holds in full: in every order of opening, writing and closing
there is one server, it is reachable for whoever is open, it stops with the last, and the
next one finds the data. This survives, as far as it can, crashes of the server and of idle
clients. When instances live in **different processes**, only weaker rules hold: that private
instances stay private, and that an instance is served by its own path where every path has
its socket. Within **one object** the lifecycle lock does its work for any threads, and is free
again whatever raises. `ValkeyServer` keeps its promises about
processes when each start is made alone, with a port it finds itself, whichever stops and
terminates overlap (that a stopped one can start
again is refuted below), and a server in a directory of the caller always finds what its
next start needs. The programs built on it end, and those that end by themselves leave no
daemon behind, wherever a signal meets them, with three exceptions: a SIGTERM that kills them
outright, a daemon that had no pidfile yet when it was stopped, and an interrupt before the hook is
registered. Patching always restores the originals, and is harmless while the instances that
are open have a path of their own. As long as the objects of a path ask for the same, each
preset of `connect` keeps what it says through kills, power losses and refused saves; what a
close has left on disk is found again, which is everything unless the save was refused;
and no server has the data of another path. No sequence of failing and
interrupted builds, in whatever environments, gets anything unverified into a wheel but
unpinned versions that one of them was told to allow, and a wheel whose tree was not
left half replaced is of one version.

The bounds. Two instances are enough to have an opener and a closer, three to have a third
that attaches between them, and four add a second generation: two that end a server and two
that start and end the next. Two threads are enough for every pairwise race on a lock. For
`Patch`, three instances and two paths let one instance close on a path while two use
another. `SameDir` and `PidInConfig` are empty in the runs, most of whose properties they
break (see below). Two pids let two servers run side by side, or one be restarted after its
first daemon was stopped, crashed, or is still dying; a third port would never be needed.
Two threads are a stop and the terminate or atexit hook that overlaps it. In `programs` two
daemons are a session server and one of the factory, or one that dies and its successor on
the same server, and two tests are one that does harm and one that suffers it; three ports
leave a choice when one is free again. Three writes put one on each side of a snapshot, a
second or a crash and one after the reopening; two objects are the one that starts the
server and the one that attaches. Two versions are an old and a new one of which one is
pinned; builds are not counted, so a tree may go through any number of them. The only
symmetry used is among interchangeable handles and threads, in runs with no liveness
property. No counter in the models is unbounded, so no state constraint is needed; what
bounds the models is that a handle is opened once (`EmbeddedClient`, `Patch`), a pid
launched once (`ExplicitServer`), a write acknowledged once (`MaxWrites`), and the tests of
a session are counted (`MaxTests`).

Fairness (`FairSpec`): each thread inside a call keeps running (weak fairness of `Step`), as
the operating system's scheduler guarantees, a daemon that is booting gets on (weak fairness
of `Boot`), and a process that was sent SIGKILL is gone some time (weak fairness of `Die`).
Nothing makes anybody open, close or exit, no fault has to happen, and nothing is strongly
fair. `CallsReturn` needs the first two: a constructor waits for its daemon to boot (`start_timeout`
is longer than that unless `slow_start` is among the faults), and a close that waits for the
lock is enabled again for good once the holder, which cannot loop, has released it.
`ExitReleases` needs the first, as the atexit hook must run `stop` to its end, and the last,
as `stop` may leave a process that is still dying. `Finishes` (`FairPrograms`) needs that
the program goes on when no call is in progress, with its calls and its daemons as before: a
test is assumed to end and the interpreter to run its hooks, but no further test has to
begin, no signal has to come, and a server that is never interrupted runs for ever.
`ImplementsStore` includes the fairness of the abstract `Stop`: a store that nobody holds
does not stay up.

### Where the code departs from what it says

`close_race` expects a violation of `NoOrphan`, which `client.py:128` promises ("the last to
close shuts it down"): two instances close at once, each counts the other's connection, and
both leave the server to each other.

Further disagreements were met in the same way. No run is kept for them; the constants
below make TLC show each, with the rest as in `close_race.cfg` for the client (*serialized* and
*concurrent* are `Serialized = TRUE` and `FALSE`), as in `server_stops.cfg` without faults and
with one thread for `ExplicitServer`, and as in the run of the module for the others. Where the
table names a `.cfg`, its own constants will do.

| Property | Constants | What happens |
|---|---|---|
| `OneDaemon` | two shared handles, concurrent | both find no registry and both launch a server on one RDB |
| `SharedStaysUp` | two shared handles, concurrent | one attaches between the other's count and its SHUTDOWN |
| `RemovesUnused` | two shared handles, concurrent | a slow closer unlinks the files of the next server |
| `LeaveJustified` | two shared handles, concurrent | the cause of `close_race` |
| `RollbackSparesOthers` | two shared handles, concurrent, `slow_start` | a roll-back finds another server's pid in the pidfile and terminates it |
| `NoOrphan` | one handle, `external_client` or `pool_growth` | `CLIENT LIST` counts connections, not instances |
| `NoOrphan` | one handle, `interrupt` | `KeyboardInterrupt` in a constructor is not an `Exception`: no roll-back |
| `NoOrphan` | one handle, `save_fails` | the registry cannot be opened or written, and the daemon that has just been launched has no pidfile yet |
| `Served` | two shared handles, serialized, `count_timeout` | a failed count disconnects the instance, so the other no longer counts it and stops the server |
| `AttachesToServer`, `ForeignSpared` | two shared handles, serialized, `daemon_crash`, `pid_reuse` | a process with the number in a stale pidfile counts as the server, and close terminates it |
| `SharedStaysUp` | two shared handles, serialized, `DeepPath`, `daemon_crash` | after a crash, an instance that cannot reach its old fallback socket takes itself for the last and terminates the *next* server, whose pid is in the shared pidfile |
| `PrivateReleased` | one private handle, `slow_start` | the roll-back of a timed-out start reads the pid before the daemon has written it, and forgets the daemon |
| `FallbackFreed` | two shared handles, serialized, `DeepPath` | the creator of the fallback socket directory leaves it to nobody |
| `ConfRemoved` | two shared handles, serialized | only the instance that started the server knows where its `valkey.conf` is |
| `OwnPath` | three shared handles, one of them in `Siblings`, serialized | two RDB paths in one directory: an instance of one path is answered by the server of the other, since pidfile and socket go by the directory (`client.py:168`; `client.py:127` says that instances *given the same path* attach to one server) |
| `Restartable` | one server that owns its directory and does not persist | `stop` removes the temp directory, the next `start` needs it |
| `StartRollsBack` | one server, `no_binary` | a start that fails keeps its port |
| `StopReleases` | one server with a directory of the caller, `slow_start` | stop finds no pidfile and forgets the daemon |
| `OneDaemon`, `HookCovers` (`ExplicitServer`) | one server, two threads, `Overlap = "any"` | two starts at once; a stop during a start |
| `ReadyIsOurs` | two servers, one of them in `Fixed` | a server told to use a port another one listens on starts "successfully" (`server.py:160`; `lifecycle.md:19`) |
| `OthersSpared` | two servers, two threads, `Overlap = "any"` | both find the same free port, and one stops the other |
| `OthersSpared` | two servers, `PortInConfig = {s2}` | `config={"port": ...}`: start times out waiting on the port it had found, keeps it, and a later stop sends SHUTDOWN to whichever server found that port free meanwhile (`server.py:129`) |
| `StopReleases`, `OneDaemon`, `ReadyIsOurs` (`is_running` after `start`) | two servers, `PidInConfig = {s2}` | `config={"pidfile": ...}`: the server never counts as running, a second start launches a second daemon, stop ends neither |
| `OthersSpared`, `StopReleases`, `ExitReleases` | two servers, `SameDir = {s1, s2}`, `OwnsDir = {}` | two objects on one `data_dir` share the pidfile, which names the later daemon: whoever stops first sends SHUTDOWN to its own and then terminates the other's, or loses its own for good |
| `Tidy` (`Patch`) | `PatchFirst = FALSE` | a private instance is open while `patch_valkey(dbfile)` is called: at its close it takes itself for a shared one, keeps its temp directory and removes the registry of the patched path (`patch.py:33`) |
| `OneDaemon`, `Served` (`Patch`) | `PatchFirst = FALSE` | the removed registry makes the next instance start a second server on the patched path; whoever of the first closes then ends both |
| `ForeignSpared` (`ExplicitServer`) | one server, `daemon_crash`, `pid_reuse` | stop and terminate signal the process that has the number |
| `TerminateWaits` | `server_stops.cfg` | `terminate` "waits for the daemon to actually exit before returning, so callers can rely on the pid being gone" (`server.py:197`), but swallows the time-out of that wait, cleans up and returns (`server.py:206`) |
| `AlwaysKept` | `Agree = FALSE`, no fault | an instance that asks for `always` attaches to a server without the append-only file: its request is ignored (`client.py:181`) |
| `CloseKeeps` | `Requests <- MCSwitching` | a path that was used without the append-only file is opened with it: Valkey starts from the file, which is empty, and not from the snapshot |
| `OwnData` | `Requests <- MCSiblings` | two durable paths of one directory share its append-only file: the second loads the data of the first |
| `Discarded` | `durability.cfg` | "without this flag data is discarded even with `--data-dir`" (`__main__.py:53`), but `persist=False` only decides about SHUTDOWN: the default save points, which the command line always has, write a snapshot into `data_dir` all the same |
| `CloseSaves` | `save_fails` | a refused SHUTDOWN SAVE is swallowed, the escalation kills the server, and close returns as usual (`client.py:352`) |
| `InterruptCleans` | `programs.cfg` | `lifecycle.md:25` says "Any exception terminates only the acquired process"; a `KeyboardInterrupt` while `start` waits for the launcher (`server.py:143`) leaves the daemon without an atexit hook |
| `TermStops` | `programs.cfg`, no fault | SIGTERM before its handler is installed ends the command line without `stop` and leaves the daemon |
| `FactoryReleasesAll` | `programs.cfg`, `slow_start` | a server whose `start` timed out is not in the factory's list, and its daemon runs until the session ends |
| `FactoryReleases` | `programs.cfg`, `slow_start` and `port_taken` | somebody else's server answers the PING of `start`, while the daemon has no pidfile yet: a stop at that moment does not see it |
| `NoneLeft` | `programs.cfg`, `SameDir = {s2, s3}` and not in `OwnsDir`, `shutdown_fails` | two servers share the pidfile: the stop of one, refused, goes on to terminate the other's daemon and forgets its own |
| `FlushesOwn` | `programs.cfg`, `port_taken` | somebody else's server got the session server's port, before it could bind it or after it died: `FLUSHALL` goes there |
| `BuiltAsAsked` | `builds.cfg`, `interrupt` | after a build that was cut off, the reuse check finds a server and the version it wants in the old metadata, and packages half-replaced files (`build_valkey.py:168`; `packaging.md` asks to reuse only after checking server, CLI, licenses, modes, version and architecture) |
| `VerifiedAsAsked` | `builds.cfg` | `packaging.md:23` says that `VALKEY_ALLOW_UNPINNED=1` "is local experimentation only and is refused in CI"; once such a build has put its server into the tree, a build in CI or without the variable reuses it before anything is verified (`build_valkey.py:178`) and packages it |

Two sentences of `packaging.md` speak of what the model leaves out: missing license inputs
are "a build failure, not a note-only success", but `build_valkey.py:208` prints a note; and
"a package-version bump refreshes metadata even when the Valkey binary is reused", but a
build that reuses the binary returns before it writes metadata.

## 4. The proofs

Every invariant and every action property that a run checks is also a theorem, for every
value of the constants that its hypotheses admit. Some theorems have none; where the code keeps a
promise only for programs of a certain kind, the theorem says for which, as formulas about
the constants. The departures of section 3 are what these formulas exclude, so each of them
is needed for some theorem that has it.

| Hypothesis | Says | Why the code needs it |
|---|---|---|
| `Orderly` of `Shared_proofs` | one thread makes all calls on the finitely many instances; one RDB path in the shared directory; the faults are among `MildFaults`, and a crash of the daemon or a failing `CLIENT LIST` only with `OneSocket` | there is no lock between processes; pidfile and socket go by the directory |
| `OneSocket` | the sockets of the path are beside its shared files | sockets elsewhere outlive the knowledge of where they are |
| `Lossless` | no crash of the daemon, no failing `CLIENT LIST` | either takes the connection of an open instance |
| `Counted` | nobody but an instance in use has a connection | the last client is known by the number of connections |
| `Gentle` | the daemon does not hang, a closed instance does not write | SIGKILL loses what was not saved |
| `OwnSockets` of `Isolation_proofs` | no socket location serves two RDB paths | an instance is answered by whoever listens there |
| `Patient` | `start_timeout` is long enough, no `KeyboardInterrupt` in a constructor | a roll-back knows the daemon by its pidfile and is skipped by `KeyboardInterrupt` |
| `Orderly` of `ExplicitServer_proofs` | while one server starts there is no other call, and calls on two servers do not overlap (stops and terminates of one may); `data_dir`s differ; `config` leaves port and pidfile alone; a server that is given its port is the only one; no `slow_start`, no `port_taken` | no lock, no reservation of a port, the daemon known by pidfile and port |
| `FreshPids` | pids are not reused | a pid is all that stop knows of the process that it signals |
| `OwnDirectories` of `Programs_proofs` | `data_dir`s differ | two servers share a pidfile |
| `PatchFirst` | the class attributes are re-pointed only while no instance without a path is open | such instances read class attributes when they close |
| `Agree`, `Uniform` | the objects of a path ask for the same; for the append-only file, or not | a second object's request is ignored; Valkey loads either the file or the snapshot |
| `Homed`, `OneLogged` | requests keep to the directory of their path; no two paths of a directory ask for the append-only file | the files go by directory and name |

### The client, whatever happens

`EmbeddedClient_proofs` proves, for every set of handles, threads and faults:

* `TypeCorrect`: `Spec => []TypeOK`.
* `LifecycleLock`: `Spec => []OneTeardown` and `Spec => []RetiredInert`.
* `LockCorrect`: `Spec => []LockReleased`.

The assumptions are the four named ones of `EmbeddedClient`: the kinds of handles are
subsets of the handles, the two modes are booleans, faults are fault kinds, and the names
for a shared directory, for nothing and for a torn registry are not names of anything else.
No set is assumed to be finite.

The three properties are not inductive. Nothing in `OneTeardown` says who holds the lock, so
a second thread could take it; `RetiredInert` would break if a thread could retire the
instance under the one in the teardown; and `LockReleased` says that a holder is in the
teardown, but not that whoever is there is the holder. `CallInv` is `TypeOK` with `HandleOK`
of every handle, which says what the code relies on:

* an instance that runs has been built (`running => life = "built"`);
* an instance under construction is known to one thread (`OneBuilder`): the object has not
  been handed out yet, so nobody can close it;
* the steps of a constructor occur only while it runs (`BuilderOK`), waiting for the lock
  only after it (`WaiterOK`), and nobody is in a call of an instance that does not exist or
  whose process is dead (`AbsentOK`);
* a thread in the teardown holds the lifecycle lock of an instance that has not retired
  (`TeardownOK`), and nobody else holds it: `OneTeardown`, `RetiredInert` and `LockReleased`
  follow;
* a thread about to signal has a pid (`SignalOK`), and during a roll-back only an instance
  that has launched a server has one (`RollbackOK`), which `Shared_proofs` builds on.

Part 1 of the module proves that steps preserve types, given `SignalOK`. Part 2 is the
induction. A step changes the calls of one thread of one handle at most (`Alone`), so the
other handles are settled by one lemma (`Frame`), and there is one step per action for the
handle that moves, by way of a lemma for steps of a constructor (`Building`) and one for
steps of a teardown (`Closing`). Part 3 draws the conclusions.

`Isolation_proofs` goes on for instances of any processes:

* `PrivateApart`: `Spec => []Isolation`, under every fault. The client knows daemons by
  files only, so the invariant `Apart` says of every file, socket, connection and pid that it
  leads to a daemon of the directory it was found for: pidfiles, sockets and `valkey.conf` of
  a directory name daemons and locations of that directory (`PidfilesApart`, `SocketsApart`,
  `ConfsApart`), the registry names shared sockets (`RegistriesApart`), and a private
  instance never is at a step that reads it (`StepsApart`).
* `PathCorrect`: under `OwnSockets`, `Spec => []OwnPath`, under every fault. Two paths of a
  directory overwrite each other's pidfile and `valkey.conf`, and one may launch with what
  the other has rendered. `Matching` says that still every location that is written anywhere
  goes with the RDB file of its users, and every daemon is where its configuration says.
* `PrivateCorrect`: under `Patient`, `Spec => []PrivateReleased`. `Once` says that an instance
  launches one daemon and that connections and pids lead to processes which have been
  launched; `PrivateInv` says who will end the daemon of a private instance (`DaemonCared`)
  and remove its directories (`DirsCared`), and that no client of another instance is ever
  counted (`NeverCounts`).

### The shared server

`Shared_proofs` is about the instances of one RDB path, with private ones among them, driven by
one thread (`Orderly`), in any number:

* `OneServer` (`OneDaemon`), `RollbackSpares` (`RollbackSparesOthers`), `FilesUnused`
  (`RemovesUnused`), `StaysUp` (`SharedStaysUp`: no call of an instance ends the server
  that another one uses);
* `AlwaysServed` (`Served`), if also `Lossless`;
* `LastStops` (`NoOrphan`), if also `Counted`, and `LastTidies` (`Tidy`), if also `OneSocket`;
* `StepsOfTheStore`: under `Lossless` and `Gentle`, the instances begin as `SharedStore` does, and
  each step of theirs maps, under the mapping of `ImplementsStore`, to one of its steps or to
  none. With the fairness of the abstract `Stop`, which is left to TLC, this is the
  implementation that the run `shared` checks.

None of the properties is inductive: that there is one server is kept only because nobody
launches one without having looked, that nobody is left alone only because whoever shuts
down has counted. `SharedInv` relates the files to the server and the server to the calls: a
live daemon is what registry, pidfile and socket lead to (`Found`), or its constructor is
still waiting for it (`Booting`); what each step of a call has written is there
(`WrittenOK`), and which servers there can be at that step (`ServersOK`); a call that is
about to start or stop a server has nobody to consider (`Exclusive`, `Unused`); an instance that
counts on the server is connected to the one that is found (`MembersOK`). It is proved on top
of `Known`: the invariants of the two modules above and that one call is active at a time.
For what is left at the end, `KeptInv` adds that a server or a registry always has a keeper: an
instance in use, a constructor that has launched it, or a client that was killed; and
`TidyInv` the same of pidfile and socket, where a startup that failed after its launch may
leave a remnant. Here finiteness is used: one connection counted means nobody else.

### The explicit server

`ExplicitServer_proofs` proves, for every set of servers, threads, pids and ports and every
fault, `TypeCorrect`, whoever else calls the same server, shares its `data_dir` or overrides its
port or pidfile.

Under `Orderly`, where starts are made alone but stops and terminates of one server overlap
in any number of threads, it proves `OneAtATime` (`OneDaemon`), `NothingLeft`
(`StopReleases`), `AnsweredByOurs` (`ReadyIsOurs`) and `HookOwns` (`HookCovers`); with
`FreshPids`, `SparesOthers` (`OthersSpared`). `SerialInv` follows the life of a daemon through the
calls: it boots during a start of its server and at no other time, and once it is up, its server
finds it by pidfile and by port (`DaemonInv`); nobody else listens anywhere (`ListenInv`);
pidfiles, stale ones too, name daemons of their own server (`PidfileInv`); and `CallOk` says
at each step of a call whether there is a daemon, where, and whose pid was captured: a port that
was found free is still free when the daemon binds it, and a pidfile that names nobody means
that there is nobody. `SparedInv` adds that a SHUTDOWN finds the captured daemon or nobody,
`HookInv` that a daemon which outlives a call is left to a registered hook.
`FindsDirectories` (`StartsAgain`) needs only that no call overlaps a start: `DirsInv`.

### The programs

`Programs_proofs` composes this with the command line and the pytest plugin.
`ProgramTypeCorrect` holds without hypotheses. `Places` says which calls can be in progress
where the program is; so the program is a caller of its servers as `Spec` allows, until a
signal cuts a call off (`Calm`), and up to then `SerialInv` holds (`SerialKept`).

* `LeavesNone`: `ProgramSpec => []NoneLeft`, under every fault and every `config`, if
  `data_dir`s differ. It must hold after a call was cut off anywhere, when `SerialInv` does
  not. What is left then is `LeftInv`: a program starts each server once (`Once`); its daemon is
  registered with the hook, or its start still waits for the launcher, or it is one of those that
  `NoneLeft` excuses, in `unseen` and `unhooked` (`Hooked`); a stop that found a pid found the only daemon
  (`StopsOK`); and a hook is unregistered before the next one runs (`HooksRun`).
* `ReleasedByFactory` (`FactoryReleases`, and `FactoryReleasesAll`, which includes the servers
  whose start raised) and `FlushesTheSession` (`FlushesOwn`), under `Orderly`: a daemon belongs to the
  session's server, to one in the list of the test, to one that is being stopped, or to the
  one that the factory is about to return (`FixtureInv`), and a start that has raised has
  left none (`RaisedInv`).

### Patching, durability and builds

`Patch_proofs` proves, for every finite set of instances and every set of paths:

* `RestoreCorrect`: `Spec => []Restorable`, which is inductive as it stands;
* `PatchTypeCorrect`: `Spec => []TypeOK`;
* `SharingCorrect`: under `PatchFirst`, `Spec => [](OneDaemon /\ Served /\ Tidy)`.

For the last, `UseInv` relates objects, daemons and files: an open instance is where its
registry would have it (`HomeOK`, the conjunct that re-pointing the class breaks under an
open instance without a path), and connected to a running daemon of that directory
(`ServerOK`); the files of a directory lead to its daemon, which has a user (`DaemonOK`); a
registry or temp directory has an open instance (`FilesOK`). Opening (`OpenKeeps`) and
closing (`CloseKeeps`) preserve it: whoever cannot attach knows that no daemon runs on the
path, whoever counts one connection was the only user (`Counted`, for which the set of
instances must be finite).

`Durability_proofs` proves, for every set of objects, paths, requests and faults,
`TypeCorrect`, and under `Agree`
`Always`: `Spec => []AlwaysKept` and `EverySecond`: `Spec => []OneSecondLost`. Lemmas about
the operators of `Config` come first: what an override or a preset becomes in `valkey.conf`,
ending in `LevelConfigured`, which says that a request for a level is served by a server
that fsyncs at that level, and `HomeByDefault`, that a request which does not override
`dir` and `dbdir` stays in its directory. `IInv` adds to the types that the running server is
configured as every open object asked (`AsAsked`, from `Agreed`), and that what was promised at
a level is fsynced, or recent and in the file (`Settled`).

For the data of a path, without `Agree`: `Closed` (`CloseKeeps`) under `Homed` and
`Uniform`, `Owned` (`OwnData`) under `Homed` and `OneLogged`. Whether a file is the one that
the next server reads depends on what objects *may* ask for, so the invariants range over
the requests of a path: `UseInv` says that the server runs for one path and as one of its
requests configures it, `KeptInv` that what was kept is where every request would look,
`OwnInv` that snapshots and logs hold their path's data.

The assumptions are `DirsAssumption`, which keeps overrides within the modelled directories,
`NoneAssumption`, which keeps `None` apart from values, and `PathsAssumption`, by which a path
is a directory and a file name.

`BuildValkey_proofs` proves, for every set of versions and every failure, `TypeCorrect`,
`Supply` (`OnlyVerified`), `Reports` (`ReportsItsServer`), `Wheels` (`WheelComplete`) and
`Last` (`MetadataLast`: a version appears in the metadata only when its files are complete).
The invariant follows a build through its stages: after `verify` the archive it holds is
good or its version is in `waived` (`VerifiedSoFar`), the files it has replaced so far are
of its version (`InPlace`), the metadata tells the truth unless a build was cut off
(`TrueMetadata`), and a tree that is about to be packaged is complete (`Packageable`).

### What is left to TLC

Liveness is out of the prover's reach: `CallsReturn`, `ExitReleases`, `Finishes`, and that
an abstract store which nobody holds does go down (in `ImplementsStore`). The type
invariants of `Patch`, `Durability`, `BuildValkey` and `Programs`, and `MetadataLast` are
proved and were model-checked, but no run repeats them.

Before it was proved, each inductive invariant was model-checked on instances as small as those of
section 3. The conjuncts of `Orderly` of `ExplicitServer_proofs` were dropped one by one, and TLC
refuted a property of that module without each. Of the programs' properties, `LeavesNone` needs only
`OwnDirectories`; `FactoryReleases` was not refuted with `PortInConfig` alone, nor `FlushesOwn` with
`SameDir` alone, but each of the two refutes the other property.

## 5. Not modelled

* One `unix_socket_path` for several handles, or one in a directory that is removed: the
  caller's own mistake, and another location that nobody owns.
* `config` overrides of `dir`, `bind` or `unixsocket` in `ExplicitServer`: like those of
  `port` and `pidfile`, they move something the object looks for elsewhere.
* A hung server that blocks `CLIENT LIST` for ever: the command has no timeout, so the close
  never returns; there is nothing to find out.
* Argument parsing of `__main__.py`, the directives of `configuration.py` that decide neither
  where data goes nor what is kept, and the quoting of paths: pure functions that no property
  depends on.
* Extraction of the archive (`_extract`'s checks of member names) and the compiler's options:
  input and output of external programs.
* `debug.py` prints what `__init__.py` says; `_dummy.c`, the examples and CI have no logic of
  their own.

## 6. Plan

Proofs: weaker hypotheses for single properties, since those that share an invariant are
proved under what all of them need (crashes of the daemon with fallback sockets refute
`SharedStaysUp` but not every property of `Shared_proofs`); instances of several paths of one
directory; what of the refinement holds for concurrent instances.

Models: the rewriting of the append-only file.
