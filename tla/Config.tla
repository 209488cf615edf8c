------------------------------- MODULE Config -------------------------------
(***************************************************************************)
(* configuration.py: the valkey.conf that settings and config make of      *)
(* keyword overrides, and connect's durability presets (client.py), as     *)
(* operators.                                                              *)
(*                                                                         *)
(* A value is the list of lines it renders to: a string is one line, the   *)
(* empty string and the empty list are none.  Overrides are functions on   *)
(* some directives, with None for a directive to remove.  Of the table of  *)
(* defaults only what decides where data goes and what is kept is here.    *)
(***************************************************************************)
EXTENDS Sequences

CONSTANT None

\* {**g, **f}: f wins.
Over(f, g) == [d \in DOMAIN f \cup DOMAIN g |-> IF d \in DOMAIN f THEN f[d] ELSE g[d]]

Defaults ==
    [appendonly |-> <<"no">>, appendfsync |-> <<"everysec">>, dbdir |-> <<"./">>,
     save |-> <<"900 1", "300 100", "60 200", "15 1000">>]

\* settings: overrides merged onto the defaults, None removes.
Settings(overrides) ==
    LET merged == Over(overrides, Defaults)
    IN  [d \in {e \in DOMAIN merged : merged[e] # None} |-> merged[d]]

DirOnly(settings) ==                \* mutant: dbdir is not mapped
    IF "dir" \in DOMAIN settings THEN settings["dir"] ELSE << >>

\* config calls the working directory dir; an explicit dir wins over dbdir,
\* even one that renders to nothing.
DirLines(settings) ==
    IF "dir" \in DOMAIN settings THEN settings["dir"]
    ELSE IF "dbdir" \in DOMAIN settings THEN settings["dbdir"] ELSE << >>

\* The lines of directive d in valkey.conf: none if it was removed or is empty.
Lines(overrides, d) ==
    LET settings == Settings(overrides)
    IN  IF d = "dir" THEN DirLines(settings)
        ELSE IF d \in DOMAIN settings THEN settings[d] ELSE << >>

\* What valkey-server makes of the file: a directive it does not find has its
\* built-in value, the working directory then being the program's; of a single
\* directive the last line counts; save "" is how to ask for no snapshots.
BuiltIn == [appendonly |-> "no", appendfsync |-> "everysec", dir |-> "cwd"]
NoSave == "\"\""
Reads(overrides, d) ==
    LET lines == Lines(overrides, d)
    IN  IF lines = << >> THEN BuiltIn[d] ELSE lines[Len(lines)]

Daemon(overrides) ==
    [dir |-> Reads(overrides, "dir"),
     aof |-> Reads(overrides, "appendonly") = "yes",
     fsync |-> Reads(overrides, "appendfsync"),
     autosave |-> Lines(overrides, "save") # <<NoSave>>]

-----------------------------------------------------------------------------
(* connect: durable is "no" (False), "true", "everysec" or "always".       *)

FsyncOnly ==                        \* mutant: the file itself is not switched on
    [d \in {"true", "everysec", "always"} |->
        [appendfsync |-> IF d = "always" THEN <<"always">> ELSE <<"everysec">>]]
Presets ==
    [d \in {"true", "everysec", "always"} |->
        [appendonly |-> <<"yes">>,
         appendfsync |-> IF d = "always" THEN <<"always">> ELSE <<"everysec">>]]

\* Anything else is a ValueError, and so is durability without a path.
Accepts(path, durable) == durable # "no" => path # None /\ durable \in DOMAIN Presets

PresetWins(durable, serverconfig) ==    \* mutant: merged the other way round
    IF durable = "no" THEN serverconfig ELSE Over(Presets[durable], serverconfig)
ServerConfig(durable, serverconfig) ==
    IF durable = "no" THEN serverconfig ELSE Over(serverconfig, Presets[durable])
=============================================================================
