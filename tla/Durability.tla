----------------------------- MODULE Durability -----------------------------
(***************************************************************************)
(* What is still there the next time.  Programs open, write to and close   *)
(* data sets through connect (client.py) and ValkeyServer (server.py),     *)
(* with durability presets and overrides, over servers that crash and      *)
(* machines that lose power.  Here the life of a server is its abstract    *)
(* one: the first to open starts it, the last to close stops it, which is  *)
(* what EmbeddedClient is shown to implement.                              *)
(*                                                                         *)
(* A path is <<directory, file>>, and programs use one at a time.  Writes  *)
(* add distinct keys and are numbered in the order they are acknowledged.  *)
(***************************************************************************)
EXTENDS Config, Integers

CONSTANTS
    Handles,      \* Valkey and ValkeyServer objects, opened any number of times
    Paths,        \* what they open
    Requests,     \* for each path, the requests programs make for it: records of
                  \*   durable, config   arguments of connect
                  \*   persist           FALSE: a ValkeyServer without persist
    MaxWrites,    \* bound: writes
    Agree,        \* do objects that share a server ask for the same?
    Faults        \* what may go wrong, of FaultKinds

FaultKinds == {"kill", "power", "save_fails"}

ASSUME FaultsAssumption == Faults \subseteq FaultKinds /\ Agree \in BOOLEAN
ASSUME WritesAssumption == MaxWrites \in Nat
ASSUME PathsAssumption == \A p \in Paths : p = <<p[1], p[2]>>

Writes == 1 .. MaxWrites
Dirs == {p[1] : p \in Paths} \cup {"cwd"}
Files == {p[2] : p \in Paths}

VARIABLES
    open,         \* open[h]: the path and request of an open object, or None
    up, conf,     \* is the server running, and what it read in valkey.conf
    mem,          \* its data
    rdb,          \* snapshots, by directory and file
    aof, synced,  \* the append-only file of a directory, or None; what is fsynced
    \* what has been promised so far
    acked,        \* writes to each path that were acknowledged
    promised,     \* those of objects that asked for "always", for "everysec"
    recent,       \* those of the current second
    kept          \* those of each path that closes have left on disk

disk == <<rdb, aof, synced>>
server == <<up, conf, mem>>
promises == <<acked, promised, recent, kept>>
vars == <<open, server, disk, promises>>

Last(s) == \A h \in Handles : open[h] # None => h = s

Recorded(d) == IF aof[d] = None THEN {} ELSE aof[d]

\* What a server with configuration c on file f of its directory finds: the
\* append-only file, if it is switched on, and else the snapshot.  With an
\* append-only file that does not exist yet it does not look at the snapshot.
Loads(c, f) == IF c.aof THEN Recorded(c.dir) ELSE rdb[<<c.dir, f>>]

Overrides(p, r) == Over(ServerConfig(r.durable, r.config), [dbdir |-> <<p[1]>>])
Configured(p, r) == Daemon(Overrides(p, r))

\* Overrides do not lead to directories that are not modelled, and None is nothing else.
ASSUME DirsAssumption == \A p \in Paths : \A r \in Requests[p] : Configured(p, r).dir \in Dirs
ASSUME NoneAssumption ==
    /\ \A S \in SUBSET Writes : None # S
    /\ None \notin {<<"yes">>, <<"always">>, <<"everysec">>}
    /\ \A p \in Paths : \A r \in Requests[p] : None # [path |-> p, req |-> r]

-----------------------------------------------------------------------------
Init ==
    /\ open = [h \in Handles |-> None]
    /\ up = FALSE /\ conf = None /\ mem = {}
    /\ rdb = [loc \in Dirs \X Files |-> {}]
    /\ aof = [d \in Dirs |-> None] /\ synced = [d \in Dirs |-> {}]
    /\ acked = [p \in Paths |-> {}] /\ kept = [p \in Paths |-> {}]
    /\ promised = [level \in {"always", "everysec"} |-> {}] /\ recent = {}

MayOpen(h, p, r) ==
    /\ open[h] = None /\ Accepts(p, r.durable)
    /\ \A g \in Handles : open[g] # None =>
          open[g].path = p /\ (Agree => open[g].req = r) /\ r.persist /\ open[g].req.persist

\* The first to open starts the server.
Start(h, p, r) ==
    /\ MayOpen(h, p, r) /\ ~up
    /\ LET c == Configured(p, r)
       IN  /\ conf' = c
           /\ mem' = Loads(c, p[2])
           /\ aof' = IF c.aof THEN [aof EXCEPT ![c.dir] = Loads(c, p[2])] ELSE aof
    /\ up' = TRUE
    /\ open' = [open EXCEPT ![h] = [path |-> p, req |-> r]]
    /\ UNCHANGED <<rdb, synced, promises>>

\* Others are attached, whatever they ask for.
Attach(h, p, r) ==
    /\ MayOpen(h, p, r) /\ up
    /\ open' = [open EXCEPT ![h] = [path |-> p, req |-> r]]
    /\ UNCHANGED <<server, disk, promises>>

\* The level of durability that the docstring of connect promises for r: that of
\* the preset, or what the caller's own overrides make of it.
Level(r) ==
    IF r.durable = "no" \/ "appendonly" \in DOMAIN r.config THEN "none"
    ELSE IF "appendfsync" \notin DOMAIN r.config
         THEN IF r.durable = "always" THEN "always" ELSE "everysec"
    ELSE IF r.config["appendfsync"] \in {None, << >>} THEN "everysec"
    ELSE r.config["appendfsync"][Len(r.config["appendfsync"])]

\* The reply is sent after the record is written, and fsynced under always.
Write(h) ==
    LET p == open[h].path
        all == UNION {acked[q] : q \in Paths}
    IN  \E w \in Writes :
           /\ open[h] # None /\ up
           /\ w \notin all /\ 1 .. (w - 1) \subseteq all
           /\ mem' = mem \cup {w}
           /\ aof' = IF conf.aof THEN [aof EXCEPT ![conf.dir] = @ \cup {w}] ELSE aof
           /\ synced' = IF conf.aof /\ conf.fsync = "always"
                        THEN [synced EXCEPT ![conf.dir] = aof'[conf.dir]] ELSE synced
           /\ acked' = [acked EXCEPT ![p] = @ \cup {w}]
           /\ promised' = [level \in {"always", "everysec"} |->
                 promised[level] \cup (IF Level(open[h].req) = level THEN {w} ELSE {})]
           /\ recent' = recent \cup {w}
           /\ UNCHANGED <<open, up, conf, rdb, kept>>

\* A second goes by.
Second ==
    /\ recent # {} /\ recent' = {}
    /\ synced' = IF up /\ conf.aof /\ conf.fsync = "everysec"
                 THEN [synced EXCEPT ![conf.dir] = aof[conf.dir]] ELSE synced
    /\ UNCHANGED <<open, server, rdb, aof, acked, promised, kept>>

Here == \E h \in Handles : open[h] # None
File == LET h == CHOOSE h \in Handles : open[h] # None IN open[h].path[2]

\* A save point is reached.
Snapshot ==
    /\ up /\ Here /\ conf.autosave
    /\ rdb' = [rdb EXCEPT ![<<conf.dir, File>>] = mem]
    /\ UNCHANGED <<open, server, aof, synced, promises>>

SaveNever(r) == FALSE               \* mutant: nosave for everybody
Saves(r) == r.persist

\* The last to close stops the server, with SHUTDOWN SAVE or NOSAVE; an
\* append-only file is fsynced either way.
Stop(h) ==
    /\ open[h] # None /\ Last(h) /\ up
    /\ LET p == open[h].path
       IN  /\ rdb' = IF Saves(open[h].req)
                     THEN [rdb EXCEPT ![<<conf.dir, p[2]>>] = mem] ELSE rdb
           /\ kept' = IF open[h].req.persist THEN [kept EXCEPT ![p] = @ \cup mem] ELSE kept
    /\ synced' = IF conf.aof THEN [synced EXCEPT ![conf.dir] = aof[conf.dir]] ELSE synced
    /\ up' = FALSE /\ conf' = None /\ mem' = {}
    /\ open' = [open EXCEPT ![h] = None]
    /\ UNCHANGED <<aof, acked, promised, recent>>

\* A crash may take the writes of the last second of an everysec promise.
Excuse ==
    /\ promised' = [promised EXCEPT !["everysec"] = @ \ recent]
    /\ UNCHANGED <<acked, recent>>

\* If the snapshot cannot be saved, SHUTDOWN and SIGTERM are refused, and the
\* escalation ends with SIGKILL: a crash, after which close returns as usual.
\* Nothing is saved, and what the close has left of an append-only file for any
\* crash to come is what was fsynced already.
StopUnsaved(h) ==
    /\ "save_fails" \in Faults
    /\ open[h] # None /\ Last(h) /\ up /\ Saves(open[h].req)
    /\ kept' = IF conf.aof THEN [kept EXCEPT ![open[h].path] = @ \cup synced[conf.dir]]
               ELSE kept
    /\ up' = FALSE /\ conf' = None /\ mem' = {}
    /\ open' = [open EXCEPT ![h] = None]
    /\ Excuse
    /\ UNCHANGED disk

\* Others still use the server, or there is none any more.
Leave(h) ==
    /\ open[h] # None /\ (~Last(h) \/ ~up)
    /\ open' = [open EXCEPT ![h] = None]
    /\ UNCHANGED <<server, disk, promises>>

-----------------------------------------------------------------------------
\* The server is killed: what it had written is in the page cache.
Kill ==
    /\ up /\ "kill" \in Faults
    /\ up' = FALSE /\ conf' = None /\ mem' = {}
    /\ Excuse
    /\ UNCHANGED <<open, disk, kept>>

\* The machine loses power: of each append-only file what was fsynced, and any
\* part of the rest up to some write, is there afterwards.
PowerLoss ==
    /\ "power" \in Faults /\ (up \/ Here)
    /\ \E w \in 0 .. MaxWrites :
          aof' = [d \in Dirs |-> IF aof[d] = None THEN None
                                 ELSE synced[d] \cup {v \in aof[d] : v <= w}]
    /\ up' = FALSE /\ conf' = None /\ mem' = {}
    /\ open' = [h \in Handles |-> None]
    /\ Excuse
    /\ UNCHANGED <<rdb, synced, kept>>

-----------------------------------------------------------------------------
Next ==
    \/ \E h \in Handles, p \in Paths : \E r \in Requests[p] : Start(h, p, r) \/ Attach(h, p, r)
    \/ \E h \in Handles : Write(h) \/ Stop(h) \/ StopUnsaved(h) \/ Leave(h)
    \/ Second \/ Snapshot \/ Kill \/ PowerLoss

Spec == Init /\ [][Next]_vars

-----------------------------------------------------------------------------
\* Every variable keeps its shape; what is fsynced is in the file, and what the
\* server has in memory is what it has in its append-only file.
TypeOK ==
    /\ open \in [Handles -> {None} \cup UNION {[path : {p}, req : Requests[p]] : p \in Paths}]
    /\ up \in BOOLEAN /\ mem \subseteq Writes
    /\ up => conf.dir \in Dirs /\ (conf.aof => aof[conf.dir] = mem)
    /\ rdb \in [Dirs \X Files -> SUBSET Writes]
    /\ aof \in [Dirs -> {None} \cup SUBSET Writes]
    /\ synced \in [Dirs -> SUBSET Writes] /\ \A d \in Dirs : synced[d] \subseteq Recorded(d)
    /\ acked \in [Paths -> SUBSET Writes] /\ kept \in [Paths -> SUBSET Writes]
    /\ promised \in [{"always", "everysec"} -> SUBSET Writes] /\ recent \subseteq Writes

Fsynced == UNION {synced[d] : d \in Dirs}

\* "always" fsyncs on every write: a write that was acknowledged to an object
\* opened with it is on disk whatever crashes, and stays there.
AlwaysKept == promised["always"] \subseteq Fsynced

\* "at most ~1s of writes lost on a crash": what was acknowledged under everysec
\* before the current second is on disk.
OneSecondLost ==
    \A w \in promised["everysec"] : w \in recent \cup Fsynced

\* "leaving the with block persists": what the last object to close has left on
\* disk is found by whoever opens the path later, whatever crashes in between.
\* That is all the server had when the close stopped it; what was fsynced of the
\* append-only file, if the server refused to stop as it could not save (then
\* close returns as usual, and without such a file all since the last close is
\* gone: see CloseSaves); and nothing new, if the server had crashed before.
CloseKeeps ==
    \A p \in Paths : \A r \in Requests[p] : kept[p] \subseteq Loads(Configured(p, r), p[2])

\* A server has and saves the data of the path it was opened for, of no other.
OwnData ==
    /\ \A p \in Paths : rdb[p] \subseteq acked[p]
    /\ \A h \in Handles : up /\ open[h] # None => mem \subseteq acked[open[h].path]

-----------------------------------------------------------------------------
(* Promises that the code does not keep.                                   *)

\* Every close that stops the server has saved its data.
CloseSaves ==
    [][\A h \in Handles : open[h] # None /\ Last(h) /\ Saves(open[h].req) /\ up /\ open'[h] = None
          => mem \subseteq rdb'[<<conf.dir, open[h].path[2]>>]]_vars

\* "without this flag data is discarded even with --data-dir" (__main__.py): what
\* was written to servers without persist is not found by the next one.  It is,
\* if a save point was reached; the command line always has the default ones.
Discarded ==
    \A p \in Paths : (\A r \in Requests[p] : ~r.persist) =>
        \A r \in Requests[p] : Loads(Configured(p, r), p[2]) = {}
=============================================================================
