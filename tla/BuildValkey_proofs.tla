------------------------- MODULE BuildValkey_proofs -------------------------
(***************************************************************************)
(* That no sequence of builds puts an unverified server into the tree or   *)
(* into a wheel, and that the metadata is true of the files it is beside,  *)
(* for every set of versions and under every failure.                      *)
(***************************************************************************)
EXTENDS BuildValkey, TLAPS

Placed(name) == bin[name] \in Contents /\ bin[name].version = version

AfterLicenses == {"run", "metadata", "metadataRest"}
AfterCli == AfterLicenses \cup {"licenses", "licensesRest"}
AfterServer == AfterCli \cup {"cli", "cliRest"}
Replacing == AfterServer \cup {"serverRest"}
AfterVerify == Replacing \cup {"server", "compile"}

\* What a build has verified and put in place at each stage, and what the
\* metadata says meanwhile.
VerifiedSoFar ==
    at \in AfterVerify => IF version \in Pinned THEN tarball = "released" ELSE version \in waived
InPlace ==
    /\ at \in AfterServer => Placed("valkey-server")
    /\ at \in AfterCli => Placed("valkey-cli")
    /\ at \in AfterLicenses => Placed("VALKEY_COPYING.txt")
    /\ at \in Replacing => behind
TrueMetadata ==
    metadata \in Versions /\ ~behind /\ Exists("valkey-server") => Complete(bin, metadata)
Packageable == at = "package" => metadata = version /\ Exists("valkey-server")

IInv == TypeOK /\ OnlyVerified /\ VerifiedSoFar /\ InPlace /\ TrueMetadata /\ Packageable

\* A build that fails or stops changes nothing but its stage.
LEMMA FailKeeps ==
    ASSUME IInv, Fail
    PROVE  IInv'
BY NamesAssumption
   DEF IInv, Fail, End, TypeOK, OnlyVerified, Trusted, VerifiedSoFar, InPlace, Placed,
       TrueMetadata, Packageable, Complete, Exists, tree, request, history, AfterLicenses, AfterCli,
       AfterServer, Replacing, AfterVerify, Stages

\* So does a step that only goes on to a stage that claims no more than the
\* stage before.
LEMMA ProceedKeeps ==
    ASSUME IInv, NEW from, NEW to, Proceed(from, to), from # "idle", to \in Stages,
           UNCHANGED <<tree, wheel, request, history>>,
           tarball' \in {"released", "altered"} \/ tarball' = tarball,
           to \in AfterVerify => from \in AfterVerify /\ tarball' = tarball,
           to \in AfterServer => from \in AfterServer,
           to \in AfterCli => from \in AfterCli,
           to \in AfterLicenses => from \in AfterLicenses,
           to \in Replacing => from \in Replacing,
           to # "package"
    PROVE  IInv'
BY NamesAssumption
   DEF IInv, Proceed, TypeOK, OnlyVerified, Trusted, VerifiedSoFar, InPlace, Placed,
       TrueMetadata, Packageable, Complete, Exists, tree, request, history, Stages

\* What a verified build copies is trusted and of its version.
LEMMA ContentTrusted ==
    ASSUME TypeOK, at # "idle", at \in AfterVerify, VerifiedSoFar
    PROVE  /\ Content \in Contents /\ Content.version = version
           /\ \/ Content.version \in Pinned /\ Content.genuine
              \/ Content.version \in waived
BY DEF TypeOK, VerifiedSoFar, Content, Contents

\* While a file is being replaced the tree is marked so.
LEMMA TruncateKeeps ==
    ASSUME IInv, NEW from \in AfterVerify, NEW name \in Names, NEW to \in Replacing,
           Truncate(from, name, to),
           to \in AfterServer => from \in AfterServer /\ name # "valkey-server",
           to \in AfterCli => from \in AfterCli /\ name # "valkey-cli",
           to \notin AfterLicenses
    PROVE  IInv'
<1>1. /\ bin' = [bin EXCEPT ![name] = Torn] /\ behind' = TRUE /\ at = from /\ at' = to
      /\ UNCHANGED <<metadata, wheel, version, force, allow, ci, tarball, waived>>
  BY DEF Truncate, Proceed, request
<1>2. Torn \notin Contents /\ to \in Stages /\ to # "package" /\ from # "idle"
  BY NamesAssumption DEF Stages, AfterVerify, Replacing, AfterServer, AfterCli, AfterLicenses
<1>3. TypeOK'
  BY <1>1, <1>2 DEF IInv, TypeOK
<1>4. \A other \in Names : other # name => bin'[other] = bin[other]
  BY <1>1 DEF IInv, TypeOK
<1>5. bin'[name] = Torn
  BY <1>1 DEF IInv, TypeOK
<1>6. OnlyVerified'
  BY <1>1, <1>2, <1>4, <1>5 DEF IInv, OnlyVerified, Trusted
<1>7. VerifiedSoFar'
  BY <1>1 DEF IInv, VerifiedSoFar, AfterVerify
<1>8. InPlace'
  BY <1>1, <1>4 DEF IInv, InPlace, Placed, Names
<1>9. TrueMetadata' /\ Packageable'
  BY <1>1, <1>2 DEF TrueMetadata, Packageable
<1> QED
  BY <1>3, <1>6, <1>7, <1>8, <1>9 DEF IInv

\* A file that is filled is in place.
LEMMA FillKeeps ==
    ASSUME IInv, NEW from \in Replacing, NEW name \in Names, NEW to \in Replacing,
           Fill(from, name, to),
           to \in AfterServer => from \in AfterServer \/ name = "valkey-server",
           to \in AfterCli => from \in AfterCli \/ name = "valkey-cli",
           to \in AfterLicenses => from \in AfterLicenses \/ name = "VALKEY_COPYING.txt"
    PROVE  IInv'
<1>1. /\ bin' = [bin EXCEPT ![name] = Content] /\ at = from /\ at' = to
      /\ UNCHANGED <<metadata, wheel, version, force, allow, ci, tarball, behind, waived>>
  BY DEF Fill, Proceed, request, history
<1>2. /\ to \in Stages /\ to # "package" /\ from # "idle"
      /\ from \in AfterVerify /\ to \in AfterVerify
  BY DEF Stages, AfterVerify, Replacing, AfterServer, AfterCli, AfterLicenses
<1>3. VerifiedSoFar
  BY DEF IInv
<1>4. /\ Content \in Contents /\ Content.version = version
      /\ \/ Content.version \in Pinned /\ Content.genuine
         \/ Content.version \in waived
  BY <1>1, <1>2, <1>3, ContentTrusted DEF IInv
<1>5. TypeOK'
  BY <1>1, <1>2, <1>4 DEF IInv, TypeOK
<1>6. bin'[name] = Content /\ \A other \in Names : other # name => bin'[other] = bin[other]
  BY <1>1 DEF IInv, TypeOK
<1>7. OnlyVerified'
  BY <1>1, <1>4, <1>6 DEF IInv, OnlyVerified, Trusted
<1>8. VerifiedSoFar'
  BY <1>1, <1>2, <1>3 DEF VerifiedSoFar
<1>9. InPlace'
  BY <1>1, <1>4, <1>6 DEF IInv, InPlace, Placed, Names
<1>10. behind
  BY <1>1 DEF IInv, InPlace
<1>11. TrueMetadata' /\ Packageable'
  BY <1>1, <1>2, <1>10 DEF TrueMetadata, Packageable
<1> QED
  BY <1>5, <1>7, <1>8, <1>9, <1>11 DEF IInv

\* The invariant holds before the first build.
LEMMA InitInvariant == Init => IInv
BY NamesAssumption
   DEF Init, IInv, TypeOK, OnlyVerified, Trusted, VerifiedSoFar, InPlace, TrueMetadata,
       Packageable, Exists, Contents, Names, AfterVerify, Replacing, AfterServer, AfterCli,
       AfterLicenses

USE DEF AfterLicenses, AfterCli, AfterServer, Replacing, AfterVerify, Stages

\* Every action keeps it.
LEMMA NextInvariant == IInv /\ [Next]_vars => IInv'
<1> SUFFICES ASSUME IInv, [Next]_vars PROVE IInv'
  OBVIOUS
<1> USE NamesAssumption
<1>1. CASE Begin
  BY <1>1 DEF Begin, Proceed, IInv, TypeOK, OnlyVerified, Trusted, VerifiedSoFar, InPlace,
       TrueMetadata, Packageable, Complete, Exists, tree, history
<1>2. CASE Check
  BY <1>2 DEF Check, IsCurrent, IInv, TypeOK, OnlyVerified, Trusted, VerifiedSoFar, InPlace,
       TrueMetadata, Packageable, Complete, Exists, tree, request, history
<1>3. CASE Preflight
  BY <1>3, FailKeeps, ProceedKeeps DEF Preflight
<1>4. CASE Download
  <2>1. CASE at = "download" /\ Fail
    BY <2>1, FailKeeps
  <2>2. CASE Proceed("download", "verify") /\ UNCHANGED <<tree, wheel, request, history>>
             /\ tarball' \in {"released", "altered"}
    BY <2>2, ProceedKeeps
  <2> QED
    BY <1>4, <2>1, <2>2 DEF Download
<1>5. CASE Verify
  <2>1. CASE Verified
    BY <1>5, <2>1 DEF Verify, Verified, IInv, TypeOK, OnlyVerified, Trusted, VerifiedSoFar, InPlace,
         TrueMetadata, Packageable, Complete, Exists, tree, request, history
  <2> QED
    BY <1>5, <2>1 DEF Verify, End, IInv, TypeOK, OnlyVerified, Trusted, VerifiedSoFar, InPlace,
         TrueMetadata, Packageable, Complete, Exists, tree, request, history
<1>6. CASE Compile
  BY <1>6, FailKeeps, ProceedKeeps DEF Compile
<1>7. CASE CopyServer
  <2>1. CASE Truncate("server", "valkey-server", "serverRest")
    BY <2>1, TruncateKeeps DEF Names
  <2>2. CASE Fill("serverRest", "valkey-server", "cli")
    BY <2>2, FillKeeps DEF Names
  <2> QED
    BY <1>7, <2>1, <2>2, FailKeeps DEF CopyServer
<1>8. CASE CopyCli
  <2>1. CASE Truncate("cli", "valkey-cli", "cliRest")
    BY <2>1, TruncateKeeps DEF Names
  <2>2. CASE Fill("cliRest", "valkey-cli", "licenses")
    BY <2>2, FillKeeps DEF Names
  <2> QED
    BY <1>8, <2>1, <2>2 DEF CopyCli
<1>9. CASE BundleLicenses
  <2>1. CASE Truncate("licenses", "VALKEY_COPYING.txt", "licensesRest")
    BY <2>1, TruncateKeeps DEF Names
  <2>2. CASE Fill("licensesRest", "VALKEY_COPYING.txt", "run")
    BY <2>2, FillKeeps DEF Names
  <2> QED
    BY <1>9, <2>1, <2>2 DEF BundleLicenses
<1>10. CASE RunServer
  BY <1>10, FailKeeps, ProceedKeeps DEF RunServer
<1>11. CASE WriteMetadata
  <2>1. CASE Proceed("metadata", "metadataRest") /\ metadata' = Torn
             /\ UNCHANGED <<bin, wheel, request, tarball, history>>
    BY <2>1 DEF Proceed, IInv, TypeOK, OnlyVerified, Trusted, VerifiedSoFar, InPlace,
         Placed, TrueMetadata, Packageable, Exists, request, history
  <2>2. CASE Proceed("metadataRest", "package") /\ metadata' = version /\ behind' = FALSE
             /\ UNCHANGED <<bin, wheel, request, tarball, waived>>
    <3>1. Complete(bin, version)
      BY <2>2 DEF Proceed, IInv, InPlace, Placed, Complete, Names
    <3>2. bin["valkey-server"] # None
      BY <3>1 DEF Complete, Names
    <3> QED
      BY <2>2, <3>1, <3>2 DEF Proceed, IInv, TypeOK, OnlyVerified, Trusted, VerifiedSoFar, InPlace,
           TrueMetadata, Packageable, Complete, Exists, request, history
  <2> QED
    BY <1>11, <2>1, <2>2 DEF WriteMetadata
<1>12. CASE Package
  BY <1>12 DEF Package, End, IInv, TypeOK, OnlyVerified, Trusted, VerifiedSoFar, InPlace,
       TrueMetadata, Packageable, Complete, Exists, tree, request, history
<1>13. CASE Interrupt
  BY <1>13, FailKeeps DEF Interrupt
<1>14. CASE Clean
  <2>1. CASE bin' = [name \in Names |-> None] /\ behind' = FALSE /\ UNCHANGED metadata
    BY <1>14, <2>1 DEF Clean, IInv, TypeOK, OnlyVerified, Trusted, VerifiedSoFar, InPlace,
         TrueMetadata, Packageable, Exists, request, history, Names
  <2>2. CASE metadata' = None /\ UNCHANGED <<bin, behind>>
    BY <1>14, <2>2 DEF Clean, IInv, TypeOK, OnlyVerified, Trusted, VerifiedSoFar, InPlace,
         TrueMetadata, Packageable, Exists, request, history
  <2> QED
    BY <1>14, <2>1, <2>2 DEF Clean
<1>15. CASE UNCHANGED vars
  BY <1>15 DEF vars, tree, request, history, IInv, TypeOK, OnlyVerified, Trusted, VerifiedSoFar,
       InPlace, Placed, TrueMetadata, Packageable, Complete, Exists
<1> QED
  BY <1>1, <1>2, <1>3, <1>4, <1>5, <1>6, <1>7, <1>8, <1>9, <1>10, <1>11, <1>12, <1>13, <1>14,
     <1>15 DEF Next

\* The invariant of builds in one source tree, whatever fails.
THEOREM Builds == Spec => []IInv
BY InitInvariant, NextInvariant, PTL DEF Spec

\* Every variable keeps its shape.
THEOREM TypeCorrect == Spec => []TypeOK
<1>1. IInv => TypeOK
  BY DEF IInv
<1> QED
  BY <1>1, Builds, PTL

\* Nothing is compiled into the tree or a wheel from an archive that was not
\* verified, whatever environment each build runs in, but for unpinned versions
\* that some build outside CI was told to allow.
THEOREM Supply == Spec => []OnlyVerified
<1>1. IInv => OnlyVerified
  BY DEF IInv
<1> QED
  BY <1>1, Builds, PTL

\* The version that the package reports is that of its files.
THEOREM Reports == Spec => []ReportsItsServer
<1>1. IInv => ReportsItsServer
  BY DEF IInv, TypeOK, TrueMetadata, ReportsItsServer, Executable, ServerVersion
<1> QED
  BY <1>1, Builds, PTL

\* Every wheel that is made of a tree that no build left half replaced has one
\* version of everything.
THEOREM Wheels == Spec => WheelComplete
<1>1. IInv /\ [Next]_vars => (wheel' # wheel /\ ~behind
                                  => Complete(wheel'.bin, version) /\ wheel'.metadata = version)
  <2> SUFFICES ASSUME IInv, Next, wheel' # wheel, ~behind
               PROVE  Complete(wheel'.bin, version) /\ wheel'.metadata = version
    BY DEF vars
  <2>1. Package
    BY DEF Next, Begin, Check, Preflight, Download, Verify, Compile, CopyServer, CopyCli,
         BundleLicenses, RunServer, WriteMetadata, Interrupt, Clean, Truncate, Fill, Fail, End
  <2>2. metadata = version /\ Exists("valkey-server") /\ version \in Versions
    BY <2>1 DEF Package, IInv, Packageable, TypeOK
  <2>3. Complete(bin, version)
    BY <2>2 DEF IInv, TrueMetadata
  <2> QED
    BY <2>1, <2>2, <2>3 DEF Package, Complete
<1> QED
  BY <1>1, Builds, PTL DEF Spec, WheelComplete

\* The metadata names a version only when its files are complete.
THEOREM Last == Spec => MetadataLast
<1>1. IInv /\ [Next]_vars => (metadata' # metadata /\ metadata' \in Versions
                                  => Complete(bin, metadata'))
  <2> SUFFICES ASSUME IInv, Next, metadata' # metadata, metadata' \in Versions
               PROVE  Complete(bin, metadata')
    BY DEF vars, tree
  <2>1. at = "metadataRest" /\ metadata' = version
    BY NamesAssumption DEF Next, Begin, Check, Preflight, Download, Verify, Compile, CopyServer,
         CopyCli, BundleLicenses, RunServer, WriteMetadata, Package, Interrupt, Clean, Truncate,
         Fill, Fail, Proceed, tree
  <2> QED
    BY <2>1 DEF IInv, InPlace, Placed, Complete, Names
<1> QED
  BY <1>1, Builds, PTL DEF Spec, MetadataLast
=============================================================================
