---------------------------- MODULE MCDurability ----------------------------
(***************************************************************************)
(* Instances of Durability for TLC: two files of one directory, one with   *)
(* snapshots only and one with the append-only file, and a file of the     *)
(* same name in another directory, used by servers that do not persist.    *)
(***************************************************************************)
EXTENDS Durability, TLC

Plain == << >>
Asks(durable, config) == [durable |-> durable, config |-> config, persist |-> TRUE]

Snapshots == <<"d1", "a.db">>
Logged == <<"d1", "b.db">>
Ephemeral == <<"d2", "a.db">>
MCPaths == {Snapshots, Logged, Ephemeral}

\* Save points (an empty value leaves Valkey's own) and none; the three presets,
\* and an override that wins over its preset.
SnapshotRequests == {Asks("no", [save |-> << >>]), Asks("no", [save |-> <<NoSave>>])}
LoggedRequests ==
    {Asks("true", Plain), Asks("always", Plain),
     Asks("everysec", [appendfsync |-> <<"always">>, dir |-> None])}
\* The command line without --persist: it has the default save points.
EphemeralRequests == {[durable |-> "no", config |-> Plain, persist |-> FALSE]}

MCRequests ==
    [p \in MCPaths |-> IF p = Snapshots THEN SnapshotRequests
                       ELSE IF p = Logged THEN LoggedRequests ELSE EphemeralRequests]

\* For the README: a path that is used with and without the append-only file, and
\* two paths of one directory that both use it.
MCSwitching == [p \in MCPaths |-> {Asks("no", Plain), Asks("always", Plain)}]
MCSiblings == [p \in MCPaths |-> {Asks("always", Plain)}]

Symmetry == Permutations(Handles)
=============================================================================
