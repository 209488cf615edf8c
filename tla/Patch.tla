------------------------------- MODULE Patch --------------------------------
(***************************************************************************)
(* patch.py: valkey.Valkey and valkey.StrictValkey are swapped for the     *)
(* embedded client and back.  With a dbfile, class attributes of the       *)
(* client are re-pointed as well: instances opened without a path look     *)
(* their registry up there when they open, and again when they close.      *)
(*                                                                         *)
(* One thread makes all calls, so a whole open or close is one step, and   *)
(* no daemon fails: EmbeddedClient is about those.  Upstream's two names   *)
(* are one embedded class, so there is one set of class attributes.        *)
(***************************************************************************)
EXTENDS Integers, FiniteSets

CONSTANTS
    Clients,      \* instances, each opened once; its daemon bears its name
    Paths,        \* RDB paths, each in a directory of its own
    None,
    PatchFirst    \* are the class attributes re-pointed only while no instance
                  \* that was opened without a path is open?

ASSUME ClientsAssumption == IsFiniteSet(Clients)
ASSUME NamesAssumption == /\ None \notin Clients \cup Paths \cup {"upstream"}
                          /\ Clients \cap Paths = {}
ASSUME ModeAssumption == PatchFirst \in BOOLEAN

VARIABLES
    module,       \* what each name of the valkey module is bound to
    originals, patched,
    classFile,    \* class attributes: the RDB path whose registry they name
    life, own, home, server,  \* of an instance: its phase, the path it was
                  \* given, its directory, the daemon it is connected to
    up,           \* daemons that run
    runfiles,     \* the daemon that pidfile and socket of a directory belong to
    registry,     \* RDB paths that have a .settings file
    tmpdirs       \* private directories that exist

names == <<module, originals, patched>>
objects == <<life, own, home, server>>
system == <<up, runfiles, registry, tmpdirs>>
vars == <<names, classFile, objects, system>>

Names == {"Valkey", "StrictValkey"}
Targets == {{"Valkey"}, {"StrictValkey"}, Names}

Opened(c) == life[c] = "open"
NoneOpen == \A c \in Clients : ~Opened(c)
\* Instances with a path of their own may be open all the while.
MayRepoint == PatchFirst => \A c \in Clients : Opened(c) => own[c] # None

Init ==
    /\ module = [n \in Names |-> "upstream"]
    /\ originals = [n \in Names |-> None]
    /\ patched = [n \in Names |-> FALSE]
    /\ classFile = None
    /\ life = [c \in Clients |-> "unborn"]
    /\ own = [c \in Clients |-> None]
    /\ home = [c \in Clients |-> c]
    /\ server = [c \in Clients |-> None]
    /\ up = {} /\ registry = {} /\ tmpdirs = {}
    /\ runfiles = [d \in Clients \cup Paths |-> None]

-----------------------------------------------------------------------------
(* patch_valkey and unpatch_valkey, for one name or for both.              *)

EveryTime(S) == S                   \* mutant: patching twice wraps twice
ToPatch(S) == {n \in S : ~patched[n]}

\* A dbfile is looked at only if there is something to patch.
PatchValkey(S, f) ==
    /\ f # None => MayRepoint
    /\ LET new == ToPatch(S)
       IN  /\ classFile' = IF f # None /\ new # {} THEN f ELSE classFile
           /\ originals' = [n \in Names |-> IF n \in new THEN module[n] ELSE originals[n]]
           /\ module' = [n \in Names |-> IF n \in new THEN "embedded" ELSE module[n]]
           /\ patched' = [n \in Names |-> n \in new \/ patched[n]]
    /\ UNCHANGED <<objects, system>>

Original(n) == IF originals[n] # None THEN originals[n] ELSE module[n]

\* The class attributes stay as they are.
UnpatchValkey(S) ==
    /\ module' = [n \in Names |-> IF n \in S THEN Original(n) ELSE module[n]]
    /\ originals' = [n \in Names |-> IF n \in S THEN None ELSE originals[n]]
    /\ patched' = [n \in Names |-> n \notin S /\ patched[n]]
    /\ UNCHANGED <<classFile, objects, system>>

\* Programs that want private instances again reset the attributes themselves.
ResetClass ==
    /\ classFile # None /\ MayRepoint
    /\ classFile' = None
    /\ UNCHANGED <<names, objects, system>>

-----------------------------------------------------------------------------
(* The instances.                                                          *)

ClassOnly(c) == classFile           \* mutant: a path does not hide the class's
\* settingregistryfile: of the instance if it was given a path, or else of the
\* class, whatever it says by now.
Registry(c) == IF own[c] # None THEN own[c] ELSE classFile

\* An instance attaches if a registry and a pidfile lead to a running daemon.
Attachable(d) == d \in registry /\ runfiles[d] \in up

\* p is the path argument, r the registry the constructor finds.
Open(c, p) ==
    /\ life[c] = "unborn"
    /\ LET r == IF p # None THEN p ELSE classFile
           d == IF r = None THEN c ELSE r
       IN  /\ own' = [own EXCEPT ![c] = p]
           /\ home' = [home EXCEPT ![c] = d]
           /\ tmpdirs' = tmpdirs \cup ({d} \cap Clients)
           /\ IF Attachable(d)
              THEN /\ server' = [server EXCEPT ![c] = runfiles[d]]
                   /\ UNCHANGED <<up, runfiles, registry>>
              ELSE /\ server' = [server EXCEPT ![c] = c]
                   /\ up' = up \cup {c}
                   /\ runfiles' = [runfiles EXCEPT ![d] = c]
                   /\ registry' = registry \cup ({d} \cap Paths)
    /\ life' = [life EXCEPT ![c] = "open"]
    /\ UNCHANGED <<names, classFile>>

Users(q) == {c \in Clients : Opened(c) /\ server[c] = q}

LastOfTwo(c) == Registry(c) = None \/ Cardinality(Users(server[c])) <= 2  \* mutant: off by one
\* Only instances with a registry count the connections.
LastClient(c) == Registry(c) = None \/ Cardinality(Users(server[c])) <= 1

RegistryOnly(c) == registry' = registry \ {Registry(c)} /\ UNCHANGED tmpdirs
                                    \* mutant: the temp directory is kept
\* _remove_files: the registry, or the whole directory if there is none.
RemoveFiles(c) ==
    IF Registry(c) # None
    THEN registry' = registry \ {Registry(c)} /\ UNCHANGED tmpdirs
    ELSE tmpdirs' = tmpdirs \ {home[c]} /\ UNCHANGED registry

\* SHUTDOWN reaches the daemon c is connected to, the escalation ends the one
\* its pidfile named before.
Close(c) ==
    /\ Opened(c)
    /\ IF LastClient(c)
       THEN /\ up' = up \ {server[c], runfiles[home[c]]}
            /\ runfiles' = [runfiles EXCEPT ![home[c]] = None]
            /\ RemoveFiles(c)
       ELSE UNCHANGED system
    /\ life' = [life EXCEPT ![c] = "closed"]
    /\ server' = [server EXCEPT ![c] = None]
    /\ UNCHANGED <<names, classFile, own, home>>

-----------------------------------------------------------------------------
Next ==
    \/ \E S \in Targets : UnpatchValkey(S) \/ \E f \in Paths \cup {None} : PatchValkey(S, f)
    \/ ResetClass
    \/ \E c \in Clients : Close(c) \/ \E p \in Paths \cup {None} : Open(c, p)

Spec == Init /\ [][Next]_vars

-----------------------------------------------------------------------------
\* Every variable keeps its shape.
TypeOK ==
    /\ module \in [Names -> {"upstream", "embedded"}]
    /\ originals \in [Names -> {"upstream", "embedded", None}]
    /\ patched \in [Names -> BOOLEAN]
    /\ classFile \in Paths \cup {None}
    /\ life \in [Clients -> {"unborn", "open", "closed"}]
    /\ own \in [Clients -> Paths \cup {None}]
    /\ home \in [Clients -> Clients \cup Paths]
    /\ server \in [Clients -> Clients \cup {None}]
    /\ up \in SUBSET Clients
    /\ runfiles \in [Clients \cup Paths -> Clients \cup {None}]
    /\ registry \in SUBSET Paths
    /\ tmpdirs \in SUBSET Clients

\* However often, and for whichever of the names, patch and unpatch are called:
\* one unpatch of a name brings the original back ("idempotent", "Restore the
\* original").
Restorable ==
    \A n \in Names :
        /\ patched[n] => module[n] = "embedded" /\ originals[n] = "upstream"
        /\ ~patched[n] => module[n] = "upstream" /\ originals[n] = None

\* "patched instances then share one persistent server": those of one path never
\* run two on it, whether the path came from the class or from the caller.
OneDaemon == \A p, q \in up : home[p] = home[q] => p = q

\* An instance in use has its server, for the RDB path it was opened on, whoever
\* has closed since.  One with a path of its own has it however the class
\* attributes have moved; one without needs PatchFirst, as its close and the
\* closes of its fellows look the path up anew.
Served ==
    \A c \in Clients : Opened(c) =>
        /\ server[c] \in up /\ home[server[c]] = home[c]
        /\ home[c] \in Paths => Attachable(home[c])

\* "a private server whose temp directory is removed on exit", and a shared one
\* that the last to close shuts down: nothing is left.
Tidy == NoneOpen => up = {} /\ registry = {} /\ tmpdirs = {}
=============================================================================
