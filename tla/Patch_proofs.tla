---------------------------- MODULE Patch_proofs -----------------------------
(***************************************************************************)
(* For any finite set of instances and any RDB paths: patching and         *)
(* unpatching always bring the original back, and if the class attributes  *)
(* are re-pointed only while no instance that relies on them is open,      *)
(* instances that open and close in any order share one server per path,   *)
(* keep it, and leave nothing behind.                                      *)
(***************************************************************************)
EXTENDS Patch, FiniteSetTheorems, TLAPS

-----------------------------------------------------------------------------
(* The names.                                                              *)

LEMMA NamesInit == Init => Restorable
BY DEF Init, Restorable

LEMMA NamesStep == ASSUME Restorable, [Next]_vars PROVE Restorable'
<1>1. ASSUME NEW S \in Targets, NEW f \in Paths \cup {None}, PatchValkey(S, f)
      PROVE  Restorable'
  BY <1>1 DEF PatchValkey, ToPatch, Targets, Restorable
<1>2. ASSUME NEW S \in Targets, UnpatchValkey(S) PROVE Restorable'
  BY <1>2, NamesAssumption DEF UnpatchValkey, Original, Targets, Restorable
<1>3. CASE UNCHANGED names  BY <1>3 DEF names, Restorable
<1> QED BY <1>1, <1>2, <1>3 DEF Next, ResetClass, Open, Close, vars

\* patch and unpatch of either name or both, in any order and any number of
\* times, never record the embedded class as the original (_originals).
THEOREM RestoreCorrect == Spec => []Restorable
<1> QED BY NamesInit, NamesStep, PTL DEF Spec

-----------------------------------------------------------------------------
(* Who uses what.  Instances:                                              *)
(*   HomeOK     an open one is where its registry would have it; this is   *)
(*              what re-pointing the class under it breaks;                *)
(*   ServerOK   it is connected to a running daemon of its directory.      *)
(* Daemons:                                                                *)
(*   DaemonOK   the files of its directory lead to it, and it has a user.  *)
(* Files:                                                                  *)
(*   FilesOK    a registry or a temp directory has an open instance.       *)

HomeOK(c) ==
    /\ Opened(c) => home[c] = IF Registry(c) = None THEN c ELSE Registry(c)
    /\ home[c] \in Clients => home[c] = c

ServerOK(c) == Opened(c) => server[c] \in up /\ home[server[c]] = home[c]

DaemonOK(q) ==
    /\ life[q] # "unborn" /\ runfiles[home[q]] = q
    /\ home[q] \in Paths => home[q] \in registry
    /\ \E c \in Clients : Opened(c) /\ server[c] = q

FilesOK ==
    /\ \A d \in registry : \E c \in Clients : Opened(c) /\ home[c] = d
    /\ \A c \in tmpdirs : Opened(c) /\ home[c] = c

UseInv ==
    /\ TypeOK
    /\ \A c \in Clients : HomeOK(c) /\ ServerOK(c)
    /\ \A q \in up : DaemonOK(q)
    /\ FilesOK

LEMMA UseType == ASSUME TypeOK, [Next]_vars PROVE TypeOK'
<1>1. ASSUME NEW S \in Targets, NEW f \in Paths \cup {None}, PatchValkey(S, f)
      PROVE  TypeOK'
  BY <1>1 DEF PatchValkey, ToPatch, Targets, Names, TypeOK, objects, system
<1>2. ASSUME NEW S \in Targets, UnpatchValkey(S) PROVE TypeOK'
  BY <1>2 DEF UnpatchValkey, Original, Targets, Names, TypeOK, objects, system
<1>3. CASE ResetClass  BY <1>3 DEF ResetClass, TypeOK, names, objects, system
<1>4. ASSUME NEW c \in Clients, NEW p \in Paths \cup {None}, Open(c, p) PROVE TypeOK'
  BY <1>4 DEF Open, Attachable, TypeOK, names
<1>5. ASSUME NEW c \in Clients, Close(c) PROVE TypeOK'
  BY <1>5 DEF Close, RemoveFiles, TypeOK, names, system
<1>6. CASE UNCHANGED vars  BY <1>6 DEF vars, TypeOK, names, objects, system
<1> QED BY <1>1, <1>2, <1>3, <1>4, <1>5, <1>6 DEF Next

LEMMA UseInit == Init => UseInv
BY DEF Init, UseInv, TypeOK, HomeOK, ServerOK, DaemonOK, FilesOK, Opened, Names

\* The one user of a daemon is alone, and of two users neither is.
LEMMA Counted ==
    ASSUME NEW q, NEW c \in Users(q)
    PROVE  Cardinality(Users(q)) <= 1 <=> Users(q) = {c}
<1>1. IsFiniteSet(Users(q))
  <2>1. Users(q) \subseteq Clients  BY DEF Users
  <2> QED BY <2>1, ClientsAssumption, FS_Subset
<1>2. Cardinality(Users(q)) \in Nat  BY <1>1, FS_CardinalityType
<1>3. Cardinality(Users(q)) # 0  BY <1>1, FS_EmptySet
<1>4. Cardinality(Users(q)) <= 1 <=> Cardinality(Users(q)) = 1  BY <1>2, <1>3
<1>5. ASSUME Cardinality(Users(q)) = 1 PROVE Users(q) = {c}
  <2>1. PICK x : Users(q) = {x}  BY <1>1, <1>5, FS_Singleton
  <2> QED BY <2>1
<1>6. Cardinality({c}) = 1  BY FS_Singleton
<1> QED BY <1>4, <1>5, <1>6

\* A daemon of a directory without a registry that leads to it does not exist,
\* so whoever cannot attach may launch one.
LEMMA OpenKeeps ==
    ASSUME UseInv, TypeOK', NEW c \in Clients, NEW p \in Paths \cup {None}, Open(c, p)
    PROVE  UseInv'
<1> DEFINE r == IF p # None THEN p ELSE classFile
           d == IF r = None THEN c ELSE r
<1>t. TypeOK  BY DEF UseInv
<1>1. /\ life[c] = "unborn" /\ life' = [life EXCEPT ![c] = "open"]
      /\ own' = [own EXCEPT ![c] = p] /\ home' = [home EXCEPT ![c] = d]
      /\ tmpdirs' = tmpdirs \cup ({d} \cap Clients) /\ classFile' = classFile
  BY DEF Open
<1>2. d \in Paths \/ (d = c /\ r = None)  BY <1>t DEF TypeOK
<1>3. c \notin up  BY <1>1 DEF UseInv, DaemonOK
<1>4. /\ Opened(c)' /\ home'[c] = d
      /\ \A e \in Clients \ {c} : /\ life'[e] = life[e] /\ own'[e] = own[e]
                                  /\ home'[e] = home[e]
  BY <1>1, <1>t DEF Opened, TypeOK
<1>5. \A e \in Clients : HomeOK(e)'
  <2>1. HomeOK(c)'
    <3>1. Registry(c)' = r  BY <1>1, <1>t DEF Registry, TypeOK
    <3> QED BY <3>1, <1>2, <1>4, NamesAssumption DEF HomeOK
  <2>2. ASSUME NEW e \in Clients \ {c} PROVE HomeOK(e)'
    BY <2>2, <1>1, <1>4 DEF UseInv, HomeOK, Opened, Registry
  <2> QED BY <2>1, <2>2
<1>6. tmpdirs' \in SUBSET Clients /\ \A e \in tmpdirs' : Opened(e)' /\ home'[e] = e
  <2>1. tmpdirs' \in SUBSET Clients  BY DEF TypeOK
  <2>2. ASSUME NEW e \in tmpdirs' PROVE Opened(e)' /\ home'[e] = e
    <3>1. CASE e \in tmpdirs /\ e # c  BY <3>1, <1>4, <1>t DEF UseInv, FilesOK, Opened, TypeOK
    <3>2. CASE e \in tmpdirs /\ e = c  BY <3>2, <1>1 DEF UseInv, FilesOK, Opened
    <3>3. CASE e \in {d} \cap Clients  BY <3>3, <1>2, <1>4, NamesAssumption
    <3> QED BY <2>2, <3>1, <3>2, <3>3, <1>1
  <2> QED BY <2>1, <2>2
<1>7. CASE Attachable(d)
  <2>1. /\ server' = [server EXCEPT ![c] = runfiles[d]]
        /\ UNCHANGED <<up, runfiles, registry>>
    BY <1>7 DEF Open
  <2>2. d \in registry /\ runfiles[d] \in up  BY <1>7 DEF Attachable
  <2>3. PICK e \in Clients : Opened(e) /\ home[e] = d  BY <2>2 DEF UseInv, FilesOK
  <2>4. server[e] \in up /\ home[server[e]] = d  BY <2>3 DEF UseInv, ServerOK
  <2>5. runfiles[d] = server[e]  BY <2>4 DEF UseInv, DaemonOK
  <2>6. \A g \in Clients : ServerOK(g)'
    <3>1. ServerOK(c)'
      <4>1. server[e] # c  BY <2>4, <1>3
      <4>2. server'[c] = server[e] /\ home'[server[e]] = d
        BY <2>1, <2>4, <2>5, <4>1, <1>4, <1>t DEF TypeOK
      <4> QED BY <4>2, <2>1, <2>4, <1>4 DEF ServerOK
    <3>2. ASSUME NEW g \in Clients \ {c} PROVE ServerOK(g)'
      BY <3>2, <2>1, <1>3, <1>4, <1>t DEF UseInv, ServerOK, Opened, TypeOK
    <3> QED BY <3>1, <3>2
  <2>7. \A q \in up' : DaemonOK(q)'
    <3> SUFFICES ASSUME NEW q \in up PROVE DaemonOK(q)'  BY <2>1
    <3>1. DaemonOK(q) /\ q # c /\ q \in Clients  BY <1>3, <1>t DEF UseInv, TypeOK
    <3>2. PICK g \in Clients : Opened(g) /\ server[g] = q  BY <3>1 DEF DaemonOK
    <3>3. g # c  BY <3>2, <1>1 DEF Opened
    <3>4. Opened(g)' /\ server'[g] = q  BY <3>2, <3>3, <2>1, <1>4, <1>t DEF Opened, TypeOK
    <3> QED BY <3>1, <3>4, <2>1, <1>4 DEF DaemonOK
  <2>8. \A f \in registry' : \E g \in Clients : Opened(g)' /\ home'[g] = f
    <3> SUFFICES ASSUME NEW f \in registry PROVE \E g \in Clients : Opened(g)' /\ home'[g] = f
      BY <2>1
    <3>1. PICK g \in Clients : Opened(g) /\ home[g] = f  BY DEF UseInv, FilesOK
    <3>2. g # c  BY <3>1, <1>1 DEF Opened
    <3> QED BY <3>1, <3>2, <1>4 DEF Opened
  <2> QED BY <1>5, <1>6, <2>6, <2>7, <2>8 DEF UseInv, FilesOK
<1>8. CASE ~Attachable(d)
  <2>1. /\ server' = [server EXCEPT ![c] = c]
        /\ up' = up \cup {c}
        /\ runfiles' = [runfiles EXCEPT ![d] = c]
        /\ registry' = registry \cup ({d} \cap Paths)
    BY <1>8 DEF Open
  <2>2. \A q \in up : home[q] # d
    <3> SUFFICES ASSUME NEW q \in up, home[q] = d PROVE FALSE  OBVIOUS
    <3>1. q \in Clients /\ DaemonOK(q) /\ HomeOK(q)  BY <1>t DEF UseInv, TypeOK
    <3>2. CASE d \in Paths  BY <3>1, <3>2, <1>8 DEF DaemonOK, Attachable
    <3>3. CASE d = c  BY <3>1, <3>3, <1>3 DEF HomeOK
    <3> QED BY <3>2, <3>3, <1>2
  <2>3. \A g \in Clients : ServerOK(g)'
    <3>1. ServerOK(c)'  BY <2>1, <1>t DEF ServerOK, TypeOK
    <3>2. ASSUME NEW g \in Clients \ {c} PROVE ServerOK(g)'
      BY <3>2, <2>1, <1>3, <1>4, <1>t DEF UseInv, ServerOK, Opened, TypeOK
    <3> QED BY <3>1, <3>2
  <2>4. \A q \in up' : DaemonOK(q)'
    <3>1. DaemonOK(c)'
      <4>1. runfiles'[d] = c  BY <2>1, <1>2, <1>t DEF TypeOK
      <4>2. server'[c] = c /\ life'[c] = "open"  BY <2>1, <1>1, <1>t DEF TypeOK
      <4> QED BY <4>1, <4>2, <2>1, <1>4 DEF DaemonOK
    <3>2. ASSUME NEW q \in up PROVE DaemonOK(q)'
      <4>1. DaemonOK(q) /\ q # c /\ q \in Clients /\ home[q] # d
        BY <2>2, <1>3, <1>t DEF UseInv, TypeOK
      <4>2. home'[q] = home[q] /\ life'[q] = life[q]  BY <4>1, <1>4
      <4>3. runfiles'[home[q]] = q
        BY <4>1, <2>1, <1>t DEF DaemonOK, TypeOK
      <4>4. PICK g \in Clients : Opened(g) /\ server[g] = q  BY <4>1 DEF DaemonOK
      <4>5. g # c  BY <4>4, <1>1 DEF Opened
      <4>6. Opened(g)' /\ server'[g] = q
        BY <4>4, <4>5, <2>1, <1>4, <1>t DEF Opened, TypeOK
      <4> QED BY <4>1, <4>2, <4>3, <4>6, <2>1 DEF DaemonOK
    <3> QED BY <3>1, <3>2, <2>1
  <2>5. \A f \in registry' : \E g \in Clients : Opened(g)' /\ home'[g] = f
    <3> SUFFICES ASSUME NEW f \in registry'
                 PROVE  \E g \in Clients : Opened(g)' /\ home'[g] = f
      OBVIOUS
    <3>1. CASE f = d  BY <3>1, <1>4
    <3>2. CASE f \in registry
      <4>1. PICK g \in Clients : Opened(g) /\ home[g] = f  BY <3>2 DEF UseInv, FilesOK
      <4>2. g # c  BY <4>1, <1>1 DEF Opened
      <4> QED BY <4>1, <4>2, <1>4 DEF Opened
    <3> QED BY <3>1, <3>2, <2>1
  <2> QED BY <1>5, <1>6, <2>3, <2>4, <2>5 DEF UseInv, FilesOK
<1> QED BY <1>7, <1>8

\* Whoever leaves the server to others leaves it to an instance that uses it;
\* whoever ends it was its only user.
LEMMA CloseKeeps ==
    ASSUME UseInv, TypeOK', NEW c \in Clients, Close(c)
    PROVE  UseInv'
<1> DEFINE q == server[c]
           d == home[c]
<1>t. TypeOK  BY DEF UseInv
<1>1. /\ Opened(c) /\ life' = [life EXCEPT ![c] = "closed"]
      /\ server' = [server EXCEPT ![c] = None]
      /\ UNCHANGED <<classFile, own, home>>
  BY DEF Close
<1>2. /\ q \in up /\ q \in Clients /\ home[q] = d /\ DaemonOK(q) /\ runfiles[d] = q
  BY <1>1, <1>t DEF UseInv, ServerOK, DaemonOK, TypeOK
<1>3. d = IF Registry(c) = None THEN c ELSE Registry(c)  BY <1>1 DEF UseInv, HomeOK
<1>4. /\ life'[c] = "closed"
      /\ \A e \in Clients \ {c} : life'[e] = life[e] /\ server'[e] = server[e]
  BY <1>1, <1>t DEF TypeOK
<1>5. Registry(c) \in Paths \cup {None}  BY <1>t DEF Registry, TypeOK
<1>6. \A e \in Clients : HomeOK(e)'
  BY <1>1, <1>4 DEF UseInv, HomeOK, Opened, Registry
<1>7. c \in Users(q)  BY <1>1 DEF Users
<1>8. CASE LastClient(c)
  <2>1. /\ up' = up \ {q} /\ runfiles' = [runfiles EXCEPT ![d] = None] /\ RemoveFiles(c)
    BY <1>2, <1>8 DEF Close
  <2>2. \A e \in Clients \ {c} : Opened(e) => server[e] # q
    <3> SUFFICES ASSUME NEW e \in Clients \ {c}, Opened(e), server[e] = q PROVE FALSE
      OBVIOUS
    <3>1. CASE Registry(c) = None
      <4>1. home[e] = c  BY <3>1, <1>2, <1>3 DEF UseInv, ServerOK
      <4> QED BY <4>1 DEF UseInv, HomeOK
    <3>2. CASE Registry(c) # None
      <4>1. Users(q) = {c}  BY <3>2, <1>7, <1>8, Counted DEF LastClient
      <4>2. e \in Users(q)  BY DEF Users
      <4> QED BY <4>1, <4>2
    <3> QED BY <3>1, <3>2
  <2>3. \A e \in up \ {q} : e \in Clients /\ home[e] # d
    BY <1>2, <1>t DEF UseInv, DaemonOK, TypeOK
  <2>4. \A e \in Clients : ServerOK(e)'
    BY <2>1, <2>2, <1>1, <1>4 DEF UseInv, ServerOK, Opened
  <2>5. \A e \in up' : DaemonOK(e)'
    <3> SUFFICES ASSUME NEW e \in up \ {q} PROVE DaemonOK(e)'  BY <2>1
    <3>1. DaemonOK(e) /\ e \in Clients /\ home[e] # d  BY <2>3 DEF UseInv
    <3>2. life'[e] # "unborn"  BY <3>1, <1>4 DEF DaemonOK
    <3>3. runfiles'[home[e]] = e  BY <3>1, <2>1, <1>t DEF DaemonOK, TypeOK
    <3>4. home[e] \in Paths => home[e] \in registry'
      BY <3>1, <2>1, <1>3 DEF DaemonOK, RemoveFiles
    <3>5. PICK g \in Clients : Opened(g) /\ server[g] = e  BY <3>1 DEF DaemonOK
    <3>6. Opened(g)' /\ server'[g] = e  BY <3>5, <1>4 DEF Opened
    <3> QED BY <3>2, <3>3, <3>4, <3>6, <1>1 DEF DaemonOK
  <2>6. \A f \in registry' : \E g \in Clients : Opened(g)' /\ home'[g] = f
    <3> SUFFICES ASSUME NEW f \in registry'
                 PROVE  \E g \in Clients : Opened(g)' /\ home'[g] = f
      OBVIOUS
    <3>1. f \in registry /\ f \in Paths /\ f # d
      BY <2>1, <1>3, <1>t, NamesAssumption DEF RemoveFiles, TypeOK
    <3>2. PICK g \in Clients : Opened(g) /\ home[g] = f  BY <3>1 DEF UseInv, FilesOK
    <3> QED BY <3>1, <3>2, <1>1, <1>4 DEF Opened
  <2>7. \A e \in tmpdirs' : Opened(e)' /\ home'[e] = e
    <3> SUFFICES ASSUME NEW e \in tmpdirs' PROVE Opened(e)' /\ home'[e] = e  OBVIOUS
    <3>1. e \in tmpdirs /\ e \in Clients  BY <2>1, <1>t DEF RemoveFiles, TypeOK
    <3>2. Opened(e) /\ home[e] = e  BY <3>1 DEF UseInv, FilesOK
    <3>3. e # c
      <4>1. CASE Registry(c) = None  BY <4>1, <2>1, <1>3 DEF RemoveFiles
      <4>2. CASE Registry(c) # None  BY <4>2, <3>2, <1>3, <1>5, NamesAssumption
      <4> QED BY <4>1, <4>2
    <3> QED BY <3>1, <3>2, <3>3, <1>1, <1>4 DEF Opened
  <2> QED BY <1>6, <2>4, <2>5, <2>6, <2>7 DEF UseInv, FilesOK
<1>9. CASE ~LastClient(c)
  <2>1. UNCHANGED <<up, runfiles, registry, tmpdirs>>  BY <1>9 DEF Close, system
  <2>2. Registry(c) \in Paths /\ d = Registry(c)  BY <1>3, <1>5, <1>9 DEF LastClient
  <2>3. PICK e \in Users(q) : e # c
    <3>1. Users(q) # {c}  BY <1>7, <1>9, Counted DEF LastClient
    <3> QED BY <3>1, <1>7
  <2>4. e \in Clients /\ Opened(e)' /\ server'[e] = q /\ home'[e] = d
    <3>1. e \in Clients /\ Opened(e) /\ server[e] = q  BY <2>3 DEF Users
    <3>2. home[e] = d  BY <3>1, <1>2 DEF UseInv, ServerOK
    <3> QED BY <3>1, <3>2, <2>3, <1>1, <1>4 DEF Opened
  <2>5. \A g \in Clients : ServerOK(g)'
    BY <2>1, <1>1, <1>4 DEF UseInv, ServerOK, Opened
  <2>6. \A p \in up' : DaemonOK(p)'
    <3> SUFFICES ASSUME NEW p \in up PROVE DaemonOK(p)'  BY <2>1
    <3>1. DaemonOK(p) /\ p \in Clients  BY <1>t DEF UseInv, TypeOK
    <3>2. life'[p] # "unborn"  BY <3>1, <1>4 DEF DaemonOK
    <3>3. \E g \in Clients : Opened(g)' /\ server'[g] = p
      <4>1. PICK g \in Clients : Opened(g) /\ server[g] = p  BY <3>1 DEF DaemonOK
      <4>2. CASE g = c  BY <4>1, <4>2, <2>4
      <4>3. CASE g # c  BY <4>1, <4>3, <1>4 DEF Opened
      <4> QED BY <4>2, <4>3
    <3> QED BY <3>1, <3>2, <3>3, <2>1, <1>1 DEF DaemonOK
  <2>7. \A f \in registry' : \E g \in Clients : Opened(g)' /\ home'[g] = f
    <3> SUFFICES ASSUME NEW f \in registry PROVE \E g \in Clients : Opened(g)' /\ home'[g] = f
      BY <2>1
    <3>1. PICK g \in Clients : Opened(g) /\ home[g] = f  BY DEF UseInv, FilesOK
    <3>2. CASE g = c  BY <3>1, <3>2, <2>4
    <3>3. CASE g # c  BY <3>1, <3>3, <1>1, <1>4 DEF Opened
    <3> QED BY <3>2, <3>3
  <2>8. \A g \in tmpdirs' : Opened(g)' /\ home'[g] = g
    <3> SUFFICES ASSUME NEW g \in tmpdirs PROVE Opened(g)' /\ home'[g] = g  BY <2>1
    <3>1. g \in Clients /\ Opened(g) /\ home[g] = g  BY <1>t DEF UseInv, FilesOK, TypeOK
    <3>2. g # c  BY <3>1, <2>2, NamesAssumption
    <3> QED BY <3>1, <3>2, <1>1, <1>4 DEF Opened
  <2> QED BY <1>6, <2>5, <2>6, <2>7, <2>8 DEF UseInv, FilesOK
<1> QED BY <1>8, <1>9

LEMMA UseStep == ASSUME PatchFirst, UseInv, [Next]_vars PROVE UseInv'
<1>t. TypeOK'  BY UseType DEF UseInv
<1>1. ASSUME UNCHANGED <<objects, system>>,
             UNCHANGED classFile \/ \A c \in Clients : Opened(c) => own[c] # None
      PROVE  UseInv'
  BY <1>1, <1>t DEF UseInv, HomeOK, ServerOK, DaemonOK, FilesOK, Opened, Registry,
                    objects, system
<1>2. ASSUME NEW S \in Targets, NEW f \in Paths \cup {None}, PatchValkey(S, f)
      PROVE  UseInv'
  BY <1>2, <1>1 DEF PatchValkey, MayRepoint
<1>3. ASSUME NEW S \in Targets, UnpatchValkey(S) PROVE UseInv'
  BY <1>3, <1>1 DEF UnpatchValkey
<1>4. CASE ResetClass  BY <1>4, <1>1 DEF ResetClass, MayRepoint
<1>5. ASSUME NEW c \in Clients, NEW p \in Paths \cup {None}, Open(c, p) PROVE UseInv'
  BY <1>5, <1>t, OpenKeeps
<1>6. ASSUME NEW c \in Clients, Close(c) PROVE UseInv'  BY <1>6, <1>t, CloseKeeps
<1>7. CASE UNCHANGED vars  BY <1>7, <1>1 DEF vars
<1> QED BY <1>2, <1>3, <1>4, <1>5, <1>6, <1>7 DEF Next

\* Every variable keeps its type, also in programs that patch at any time.
THEOREM PatchTypeCorrect == Spec => []TypeOK
<1>1. Init => TypeOK  BY UseInit DEF UseInv
<1> QED BY <1>1, UseType, PTL DEF Spec

\* If the class attributes move only while nobody has an instance open that was
\* opened without a path (others may well be open), instances of one path never
\* run two servers (Registry and Attachable lead to the one), no
\* close ends a server that is in use, and the last one clears up.
THEOREM SharingCorrect ==
    ASSUME PatchFirst
    PROVE  Spec => [](OneDaemon /\ Served /\ Tidy)
<1>1. ASSUME UseInv PROVE OneDaemon
  BY <1>1 DEF UseInv, DaemonOK, OneDaemon
<1>2. ASSUME UseInv PROVE Served
  BY <1>2 DEF UseInv, TypeOK, ServerOK, DaemonOK, Served, Attachable
<1>3. ASSUME UseInv PROVE Tidy
  BY <1>3 DEF UseInv, TypeOK, DaemonOK, FilesOK, Tidy, NoneOpen
<1>4. UseInv /\ [Next]_vars => UseInv'  BY UseStep
<1> QED BY UseInit, <1>1, <1>2, <1>3, <1>4, PTL DEF Spec
=============================================================================
