---------------------------- MODULE BuildValkey -----------------------------
(***************************************************************************)
(* tools/build_valkey.py and setup.py: builds that put a verified server   *)
(* into the package, one after another in one source tree, each of which   *)
(* may fail or be interrupted anywhere; and what the package makes of it   *)
(* at import (__init__.py).                                                *)
(*                                                                         *)
(* The tree outlives the builds: a later one that finds a server and the   *)
(* version it wants in package_metadata.json builds nothing.               *)
(***************************************************************************)

CONSTANTS
    Versions,       \* of Valkey that are asked for
    Pinned,         \* those in KNOWN_SHA256
    None, Torn,     \* no file; a file that was not written to its end
    Faults          \* what may go wrong, of FaultKinds

FaultKinds == {"no_compiler", "no_network", "altered", "compile_fails", "busy", "unrunnable",
               "interrupt", "clean"}

ASSUME PinnedAssumption == Pinned \subseteq Versions
ASSUME FaultsAssumption == Faults \subseteq FaultKinds

\* The contents of a file that comes from a tarball: of what version, and is it
\* what was released?
Contents == [version : Versions, genuine : BOOLEAN]
ASSUME NamesAssumption == {None, Torn} \cap (Versions \cup Contents) = {} /\ None # Torn
Names == {"valkey-server", "valkey-cli", "VALKEY_COPYING.txt"}

VARIABLES
    bin,            \* the files in src/valkey_embedded/bin
    metadata,       \* valkey_server_version in package_metadata.json
    wheel,          \* what was packaged last: the files and the metadata
    at,             \* the stage of the build in progress, "idle" if there is none
    version, force, \* its environment: VALKEY_VERSION, VALKEY_FORCE_REBUILD,
    allow, ci,      \* VALKEY_ALLOW_UNPINNED = "1", is CI set
    tarball,        \* what it has downloaded
    behind,         \* has a build replaced files and then not come to its end?
    waived          \* unpinned versions that a build outside CI was told to allow

tree == <<bin, metadata>>
request == <<version, force, allow, ci>>
history == <<behind, waived>>
vars == <<tree, wheel, at, request, tarball, history>>

Stages == {"check", "preflight", "download", "verify", "compile", "server", "serverRest",
           "cli", "cliRest", "licenses", "licensesRest", "run", "metadata", "metadataRest",
           "package"}

Exists(name) == bin[name] # None
Content == [version |-> version, genuine |-> tarball = "released"]

Proceed(from, to) == at = from /\ at' = to
\* The environment and the temporary directory go with the build.
End ==
    /\ at' = "idle" /\ tarball' = None
    /\ version' = None /\ force' = FALSE /\ allow' = FALSE /\ ci' = FALSE
\* A SystemExit, an exception or a signal ends it where it is.
Fail == End /\ UNCHANGED <<tree, wheel, history>>

-----------------------------------------------------------------------------
Init ==
    /\ bin = [name \in Names |-> None] /\ metadata = None
    /\ wheel = None
    /\ at = "idle" /\ tarball = None
    /\ version = None /\ force = FALSE /\ allow = FALSE /\ ci = FALSE
    /\ behind = FALSE /\ waived = {}

\* BuildPyWithValkey.run calls build.
Begin ==
    /\ Proceed("idle", "check")
    /\ version' \in Versions
    /\ force' \in BOOLEAN /\ allow' \in BOOLEAN /\ ci' \in BOOLEAN
    /\ UNCHANGED <<tree, wheel, tarball, history>>

AnyVersion == ~force /\ Exists("valkey-server") /\ metadata \notin {None, Torn}  \* mutant
IsCurrent == ~force /\ Exists("valkey-server") /\ metadata = version

Check ==
    /\ at = "check"
    /\ at' = IF IsCurrent THEN "package" ELSE "preflight"
    /\ UNCHANGED <<tree, wheel, request, tarball, history>>

Preflight ==
    \/ Proceed("preflight", "download") /\ UNCHANGED <<tree, wheel, request, tarball, history>>
    \/ at = "preflight" /\ "no_compiler" \in Faults /\ Fail

\* The archive may differ from what was released.
Download ==
    \/ /\ Proceed("download", "verify")
       /\ \E bytes \in {"released"} \cup (Faults \cap {"altered"}) : tarball' = bytes
       /\ UNCHANGED <<tree, wheel, request, history>>
    \/ at = "download" /\ "no_network" \in Faults /\ Fail

PinnedOnly == version \in Pinned        \* mutant: the hash is not compared
Verified == IF version \in Pinned THEN tarball = "released" ELSE allow /\ ~ci

Verify ==
    /\ at = "verify"
    /\ IF Verified THEN at' = "compile" /\ UNCHANGED <<request, tarball>> ELSE End
    /\ waived' = waived \cup (IF allow /\ ~ci THEN {version} \ Pinned ELSE {})
    /\ UNCHANGED <<tree, wheel, behind>>

\* _extract and _compile, in a temporary directory.
Compile ==
    \/ Proceed("compile", "server") /\ UNCHANGED <<tree, wheel, request, tarball, history>>
    \/ at = "compile" /\ "compile_fails" \in Faults /\ Fail

\* Copying truncates the old file and fills it.  The server cannot be opened for
\* writing while somebody runs it.
Truncate(from, name, to) ==
    /\ Proceed(from, to)
    /\ bin' = [bin EXCEPT ![name] = Torn]
    /\ behind' = TRUE
    /\ UNCHANGED <<metadata, wheel, request, tarball, waived>>
Fill(from, name, to) ==
    /\ Proceed(from, to)
    /\ bin' = [bin EXCEPT ![name] = Content]
    /\ UNCHANGED <<metadata, wheel, request, tarball, history>>

CopyServer ==
    \/ Truncate("server", "valkey-server", "serverRest")
    \/ Fill("serverRest", "valkey-server", "cli")
    \/ at = "server" /\ "busy" \in Faults /\ Fail
CliOnce ==                              \* mutant: an old client is kept
    \/ /\ Exists("valkey-cli") /\ Proceed("cli", "licenses")
       /\ UNCHANGED <<tree, wheel, request, tarball, history>>
    \/ ~Exists("valkey-cli") /\ Truncate("cli", "valkey-cli", "cliRest")
    \/ Fill("cliRest", "valkey-cli", "licenses")
CopyCli ==
    \/ Truncate("cli", "valkey-cli", "cliRest")
    \/ Fill("cliRest", "valkey-cli", "licenses")
BundleLicenses ==
    \/ Truncate("licenses", "VALKEY_COPYING.txt", "licensesRest")
    \/ Fill("licensesRest", "VALKEY_COPYING.txt", "run")

\* _server_version runs the new server.
RunServer ==
    \/ Proceed("run", "metadata") /\ UNCHANGED <<tree, wheel, request, tarball, history>>
    \/ at = "run" /\ "unrunnable" \in Faults /\ Fail

WriteMetadata ==
    \/ /\ Proceed("metadata", "metadataRest")
       /\ metadata' = Torn
       /\ UNCHANGED <<bin, wheel, request, tarball, history>>
    \/ /\ Proceed("metadataRest", "package")
       /\ metadata' = version
       /\ behind' = FALSE
       /\ UNCHANGED <<bin, wheel, request, tarball, waived>>

\* super().run() collects the package data.
Package ==
    /\ at = "package" /\ End
    /\ wheel' = [bin |-> bin, metadata |-> metadata]
    /\ UNCHANGED <<tree, history>>

Interrupt ==
    /\ at # "idle" /\ "interrupt" \in Faults
    /\ Fail

\* Somebody removes the generated files, or only the metadata.
Clean ==
    /\ at = "idle" /\ "clean" \in Faults
    /\ \/ bin' = [name \in Names |-> None] /\ behind' = FALSE /\ UNCHANGED metadata
       \/ metadata' = None /\ UNCHANGED <<bin, behind>>
    /\ UNCHANGED <<wheel, at, request, tarball, waived>>

Next ==
    \/ Begin \/ Check \/ Preflight \/ Download \/ Verify \/ Compile \/ CopyServer \/ CopyCli
    \/ BundleLicenses \/ RunServer \/ WriteMetadata \/ Package \/ Interrupt \/ Clean

Spec == Init /\ [][Next]_vars

-----------------------------------------------------------------------------
(* What the package says of itself when it is imported.                    *)

\* _load_package_metadata: {} when absent or no JSON.
ServerVersion == IF metadata \in {None, Torn} THEN "" ELSE metadata
\* The recorded executable is the same bin/valkey-server.
Executable == IF Exists("valkey-server") THEN "bundled" ELSE IF ServerVersion # "" THEN "recorded" ELSE ""

-----------------------------------------------------------------------------
\* Every variable keeps its shape, and a build knows what it is to build.
TypeOK ==
    /\ bin \in [Names -> Contents \cup {None, Torn}]
    /\ metadata \in Versions \cup {None, Torn}
    /\ wheel # None => /\ wheel.bin \in [Names -> Contents \cup {None, Torn}]
                       /\ wheel.metadata \in Versions \cup {None, Torn}
    /\ at \in Stages \cup {"idle"}
    /\ version \in Versions \cup {None} /\ (at # "idle" => version # None)
    /\ force \in BOOLEAN /\ allow \in BOOLEAN /\ ci \in BOOLEAN
    /\ behind \in BOOLEAN /\ waived \subseteq Versions \ Pinned
    /\ tarball \in {None, "released", "altered"}

\* "Keep the upstream version SHA-256 pinned; checksum mismatch and unknown
\* versions fail closed": whatever builds came before, with whatever environment,
\* and however they ended, each file in the tree and in a wheel comes from an
\* archive that was verified; or its version is unpinned, and that build, or one
\* before it, was told to allow it and did not run in CI.
Trusted(files) ==
    \A name \in Names : files[name] \in Contents =>
        \/ files[name].version \in Pinned /\ files[name].genuine
        \/ files[name].version \in waived
OnlyVerified == Trusted(bin) /\ (wheel # None => Trusted(wheel.bin))

Complete(files, v) ==
    \A name \in Names : files[name] \in Contents /\ files[name].version = v

\* The version that the package reports is that of the files it has, if it has
\* a server at all and no build was cut off while it replaced them.
ReportsItsServer ==
    Executable = "bundled" /\ ServerVersion # "" /\ ~behind => Complete(bin, ServerVersion)

\* "Wheels include current binaries, complete bundled licenses": the same of
\* each wheel that is made, whether its build compiled or reused.
WheelComplete ==
    [][wheel' # wheel /\ ~behind
          => Complete(wheel'.bin, version) /\ wheel'.metadata = version]_vars

\* The metadata is written last: whoever finds a version there that was not
\* there before finds its files complete.
MetadataLast ==
    [][metadata' # metadata /\ metadata' \in Versions => Complete(bin, metadata')]_vars

-----------------------------------------------------------------------------
(* Promises that the code does not keep.                                   *)

\* "Reuse a cached binary only after checking server, CLI, licenses, ... embedded
\* version": a build that returns has put in place what it was asked for.
BuiltAsAsked == at = "package" => Complete(bin, version) /\ metadata = version

\* "VALKEY_ALLOW_UNPINNED=1 is local experimentation only and is refused in CI": a
\* build in CI, or without that variable, packages nothing but pinned versions.
VerifiedAsAsked ==
    at = "package" /\ (ci \/ ~allow) =>
        \A name \in Names : bin[name] \in Contents => bin[name].version \in Pinned
=============================================================================
