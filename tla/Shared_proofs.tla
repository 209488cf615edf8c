---------------------------- MODULE Shared_proofs ----------------------------
(***************************************************************************)
(* The server that the instances of one RDB path share, when one thread at *)
(* a time drives all of them, for any number of instances, private ones    *)
(* among them or not: there is one daemon, an instance that is open keeps  *)
(* it, the last to close stops it and removes its files.                   *)
(*                                                                         *)
(* Part 1 says under which conditions, and what makes them needed.  Part 2 *)
(* states the inductive invariant SharedInv, part 3 proves it, one action  *)
(* at a time.  Part 4 draws the conclusions about the server in use, part  *)
(* 5 about what is left when everybody has closed, and part 6 shows that   *)
(* the instances together take the steps of SharedStore.                   *)
(***************************************************************************)
EXTENDS Isolation_proofs, FiniteSetTheorems

-----------------------------------------------------------------------------
(* Part 1: the conditions.                                                 *)

\* Everybody's socket is beside the shared files.
OneSocket == ~DeepPath /\ Given \cap SharedHandles = {}

\* Faults that take the connection of an open instance away.  One that finds
\* another socket location than its successors' then takes the files of their
\* server for its own when it closes, so these are survived with OneSocket only.
LossFaults == {"daemon_crash", "count_timeout"}
Lossless == Faults \cap LossFaults = {}

\* Faults that are always survived.  Left out are those that the README shows to
\* break the promises: a client killed within a call or interrupted, a reused
\* pid, a daemon that outlives start_timeout, a registry that cannot be written.
MildFaults ==
    {"client_crash_idle", "ping_rejected", "no_binary", "bad_config", "bad_override",
     "shutdown_fails", "hung_daemon", "external_client", "pool_growth", "use_after_close"}

\* One thread of one process, one RDB path in the directory, survivable faults.
Orderly ==
    /\ Serialized /\ Siblings = {} /\ IsFiniteSet(Handles)
    /\ Faults \subseteq MildFaults \cup (IF OneSocket THEN LossFaults ELSE {})

-----------------------------------------------------------------------------
(* Part 2: the invariant.                                                  *)

\* One call at a time.
OneActive ==
    \A g, h \in Handles : \A t, u \in Threads :
        at[g][t] # "idle" /\ at[h][u] # "idle" => g = h /\ t = u

NoServer == \A q \in SharedHandles : proc[q] \notin Live
OnlyServer(p) == \A q \in SharedHandles : proc[q] \in Live => q = p

\* Whoever looks for the server finds q, by each of the files.
Found(q) ==
    /\ q \in SharedHandles /\ proc[q] = "up" /\ setup[q] = Rendered(q)
    /\ pidfile[Shared] = q /\ sock[Loc(q)] = q /\ registry["main"] = Loc(q)

\* q belongs to a constructor that is still waiting for it.
BootSteps == {"truncate", "save", "ping"}
Booting(q) ==
    /\ setup[q] = Rendered(q)
    /\ proc[q] # "boot" => pidfile[Shared] = q
    /\ proc[q] = "up" => sock[Loc(q)] = q
    /\ life[q] = "building" /\ \E t \in Threads : at[q][t] \in BootSteps

DaemonsOK == \A q \in SharedHandles : proc[q] \in Live => Found(q) \/ Booting(q)

\* The instances that count on the server: those whose close has not counted yet.
Holding(h) ==
    life[h] = "built" /\ running[h] /\ \A t \in Threads : at[h][t] \in {"idle", "lock", "count"}
MembersOK == Lossless => \A h \in SharedHandles : Holding(h) => Found(link[h])

\* A call that is going to start or to stop a server; the rest of a rollback is
\* only if this instance has launched one.
Owner(h) == started[h] \/ life[h] # "building"
Exclusive(h, t) ==
    \/ at[h][t] \in {"conf", "launch", "truncate", "save", "capture", "shutdown", "remove"}
    \/ at[h][t] \in {"ping", "term", "signal", "undo"} /\ Owner(h)
Unused == \A g \in SharedHandles : Holding(g) => ~Up(link[g])

\* What a constructor has written is still there.
WrittenOK(h, t) ==
    /\ at[h][t] \in {"truncate", "save"} => started[h]
    /\ at[h][t] = "launch" => conf[Shared] = Rendered(h)
    /\ at[h][t] = "save" => registry["main"] = Torn
    /\ at[h][t] = "ping" /\ started[h] => registry["main"] = Loc(h)
    /\ at[h][t] \in {"load", "conf", "launch", "truncate", "save"}
          \/ (at[h][t] = "ping" /\ started[h]) => socketFile[h] = Loc(h)

\* Which servers there can be, at each step, and which pid has been noted.
ServersOK(h, t) ==
    /\ at[h][t] \in {"conf", "launch", "remove"} \/ (at[h][t] = "undo" /\ started[h]) => NoServer
    /\ at[h][t] \in {"truncate", "save"}
          \/ (at[h][t] \in {"ping", "term", "signal"} /\ life[h] = "building" /\ started[h])
          => OnlyServer(h)
    /\ at[h][t] \in {"shutdown", "term", "signal"} /\ Owner(h) => OnlyServer(pid[h][t])
    /\ life[h] = "building" /\ at[h][t] \in {"term", "signal"} => pid[h][t] \in {None, h}
    /\ at[h][t] # "signalForeign"

StepOK(h, t) == WrittenOK(h, t) /\ ServersOK(h, t) /\ (Exclusive(h, t) => Unused)
StepsOK == \A h \in SharedHandles, t \in Threads : StepOK(h, t)

NoForeign == \A q \in Handles : proc[q] # "foreign"

\* The location an instance has read or kept.
PlacesOK ==
    /\ \A h \in SharedHandles : life[h] = "unborn" => socketFile[h] = Loc(h)
    /\ OneSocket => /\ \A h \in SharedHandles : socketFile[h] = Shared
                    /\ registry["main"] \in {None, Torn, Shared}

SharedInv == DaemonsOK /\ StepsOK /\ MembersOK /\ NoForeign /\ PlacesOK

\* What is known already.
Known == CallInv /\ Apart /\ Once /\ OneActive

-----------------------------------------------------------------------------
(* One call at a time.                                                     *)

LEMMA OneActiveGoto ==
    ASSUME TypeOK, OneActive, NEW h \in Handles, NEW t \in Threads, NEW s, Goto(h, t, s),
           at[h][t] # "idle" \/ \A g \in Handles : Idle(g)
    PROVE  OneActive' /\ \A g \in Handles, u \in Threads : at'[g][u] = "idle" \/ (g = h /\ u = t)
BY DEF TypeOK, OneActive, Goto, Idle

LEMMA OneActiveStep == ASSUME Serialized, CallInv, OneActive, [Next]_vars PROVE OneActive'
<1> USE DEF calls
<1>t. TypeOK  BY DEF CallInv
<1>0. ASSUME UNCHANGED at PROVE OneActive'  BY <1>0 DEF OneActive
<1>1. ASSUME NEW h \in Handles, NEW t \in Threads, Open(h, t) \/ BeginClose(h, t) PROVE OneActive'
  <2>1. \A g \in Handles : Idle(g)  BY <1>1 DEF Open, BeginClose, Quiet
  <2>2. PICK s : Goto(h, t, s)  BY <1>1 DEF Open, BeginClose
  <2> QED BY <1>t, <2>1, <2>2, OneActiveGoto
<1>2. ASSUME NEW h \in Handles, NEW t \in Threads, Step(h, t) \/ Interrupt(h, t) PROVE OneActive'
  <2>1. at[h][t] # "idle"
    BY <1>2
    DEF Step, LoadRegistry, ProbePid, WriteConf, Launch, TruncateRegistry, SaveRegistry, PingAnswered,
        PingTimeout, Undo, BindProcess, Signal, SignalForeign, Acquire, Count, CountFails, Leave,
        CapturePid, Shutdown, RemoveFiles, Interrupt
  <2>2. \E s : Goto(h, t, s)
    <3>1. CASE \/ LoadRegistry(h, t) \/ ProbePid(h, t) \/ WriteConf(h, t) \/ Launch(h, t)
               \/ PingAnswered(h, t) \/ BindProcess(h, t) \/ Signal(h, t) \/ SignalForeign(h, t)
               \/ Acquire(h, t) \/ Count(h, t) \/ CapturePid(h, t) \/ Shutdown(h, t)
      BY <3>1
      DEF LoadRegistry, ProbePid, WriteConf, Launch, PingAnswered, BindProcess, Signal,
          SignalForeign, Acquire, Count, CapturePid, Shutdown
    <3>2. CASE \/ TruncateRegistry(h, t) \/ SaveRegistry(h, t) \/ PingTimeout(h, t) \/ Undo(h, t)
               \/ CountFails(h, t) \/ Leave(h, t) \/ RemoveFiles(h, t) \/ Interrupt(h, t)
      BY <3>2 DEF TruncateRegistry, SaveRegistry, PingTimeout, RollBack, Undo, Back, CountFails, Leave,
                  RemoveFiles, Return, Interrupt
    <3> QED BY <1>2, <3>1, <3>2 DEF Step
  <2>3. PICK s : Goto(h, t, s)  BY <2>2
  <2> QED BY <1>t, <2>1, <2>3, OneActiveGoto
<1>3. ASSUME NEW h \in Handles, ClientCrash(h) PROVE OneActive'
  BY <1>t, <1>3 DEF ClientCrash, OneActive, TypeOK
<1>4. ASSUME NEW h \in Handles, Boot(h) \/ Crash(h) \/ ReusePid(h) \/ Write(h) \/ Grow(h) \/ Visit(h)
      PROVE  OneActive'
  BY <1>4, <1>0 DEF Boot, WritePidfile, Serve, BindFails, Crash, ReusePid, Write, Grow, Visit
<1>5. CASE UNCHANGED vars  BY <1>5, <1>0 DEF vars
<1> QED BY <1>1, <1>2, <1>3, <1>4, <1>5 DEF Next

LEMMA AllKnown == ASSUME Serialized PROVE Spec => []Known
<1>1. Init => OneActive  BY DEF Init, OneActive
<1>2. CallInv /\ OneActive /\ [Next]_vars => OneActive'  BY OneActiveStep
<1>3. CallInv /\ Apart /\ Once /\ OneActive => Known  BY DEF Known
<1> QED BY <1>1, <1>2, <1>3, CallsCorrect, ApartCorrect, OnceCorrect, PTL DEF Spec

-----------------------------------------------------------------------------
(* Part 3: the invariant is one.  First what it says at a glance.          *)

LEMMA SharedType ==
    /\ SharedHandles \subseteq Handles /\ Shared \in Dirs /\ None \notin Handles
    /\ \A h \in SharedHandles : Dir(h) = Shared /\ Loc(h) \in Locs /\ h # Shared /\ h \notin Isolated
    /\ \A g, h \in SharedHandles : Loc(g) = h => g = h
    /\ \A h \in SharedHandles : Loc(h) \notin Isolated
    /\ Locs = Handles \cup {Shared} /\ None \notin Locs /\ Torn \notin Locs /\ None # Torn
    /\ \A q \in Handles : Dir(q) = Shared => q \in SharedHandles
BY HandlesAssumption, NamesAssumption DEF SharedHandles, Dirs, Dir, Loc, Locs

LEMMA MainFile == ASSUME Orderly PROVE \A h \in Handles : File(h) = "main"
BY DEF Orderly, File

LEMMA OneLoc == ASSUME OneSocket PROVE \A h \in SharedHandles : Loc(h) = Shared
BY DEF OneSocket, Loc, SharedHandles, Dir

LEMMA SafeFaults ==
    ASSUME Orderly
    PROVE  /\ Faults \cap {"client_crash", "pid_reuse", "slow_start", "save_fails", "interrupt"} = {}
           /\ ~Lossless => OneSocket
BY DEF Orderly, MildFaults, LossFaults, Lossless

\* Connections, pids and answers of shared instances are of shared servers.
LEMMA SharedKnows ==
    ASSUME Known, NEW h \in SharedHandles
    PROVE  /\ link[h] # None => link[h] \in SharedHandles
           /\ Reach(h) # None => Reach(h) \in SharedHandles /\ proc[Reach(h)] = "up"
           /\ PidOf(h) # None => PidOf(h) = pidfile[Shared] /\ PidOf(h) \in SharedHandles
           /\ \A t \in Threads : pid[h][t] # None => pid[h][t] \in SharedHandles
<1>1. TypeOK /\ Apart  BY DEF Known, CallInv
<1>2. h \in Handles /\ Dir(h) = Shared  BY SharedType
<1>3. link[h] # None => link[h] \in SharedHandles
  BY <1>1, <1>2, SharedType DEF TypeOK, Apart, LinksApart
<1>4. Reach(h) # None => Reach(h) \in SharedHandles /\ proc[Reach(h)] = "up"
  <2>1. Reach(h) # None => proc[Reach(h)] = "up"  BY DEF Reach, Up
  <2> QED BY <1>1, <1>2, <2>1, SharedType, ReachHome, ReachType
<1>5. PidOf(h) # None => PidOf(h) = pidfile[Shared] /\ PidOf(h) \in SharedHandles
  <2>1. PidOf(h) # None => PidOf(h) = pidfile[Shared]  BY <1>2 DEF PidOf
  <2> QED BY <1>1, <1>2, <2>1, SharedType, PidHome, PidType
<1>6. \A t \in Threads : pid[h][t] # None => pid[h][t] \in SharedHandles
  BY <1>1, <1>2, SharedType DEF TypeOK, Apart, PidsApart
<1> QED BY <1>3, <1>4, <1>5, <1>6

LEMMA NobodyUp == ASSUME Known, NoServer PROVE \A g \in SharedHandles : ~Up(link[g])
BY SharedKnows DEF NoServer, Up, Live

\* A server that is not its constructor's is found.
LEMMA Settled ==
    ASSUME Known, SharedInv, NEW q \in SharedHandles, proc[q] \in Live,
           \A t \in Threads : at[q][t] \notin BootSteps
    PROVE  Found(q)
BY DEF SharedInv, DaemonsOK, Booting

\* The server of a constructor is the only one, and nobody uses another.
LEMMA BootingAlone ==
    ASSUME Known, SharedInv, NEW q \in SharedHandles, proc[q] \in Live, Booting(q)
    PROVE  /\ started[q] /\ OnlyServer(q) /\ Unused
           /\ \E t \in Threads : at[q][t] \in BootSteps
           /\ \A h \in SharedHandles, t \in Threads : at[h][t] # "idle" => h = q /\ at[h][t] \in BootSteps
<1>1. q \in Handles /\ started[q]
  BY SharedType DEF Known, Once, FreshOK, Live
<1>2. PICK t \in Threads : at[q][t] \in BootSteps /\ life[q] = "building"  BY DEF Booting
<1>3. StepOK(q, t)  BY <1>2 DEF SharedInv, StepsOK
<1>4. OnlyServer(q) /\ Unused
  BY <1>1, <1>2, <1>3 DEF StepOK, ServersOK, Exclusive, Owner, BootSteps
<1>5. \A h \in SharedHandles, u \in Threads : at[h][u] # "idle" => h = q /\ at[h][u] \in BootSteps
  BY <1>1, <1>2, SharedType DEF Known, OneActive, BootSteps
<1> QED BY <1>1, <1>2, <1>4, <1>5

\* There is one server, and what is connected and alive is connected to it.
LEMMA TheServer ==
    ASSUME Known, SharedInv, NEW p \in SharedHandles, NEW q \in SharedHandles,
           proc[p] \in Live, proc[q] \in Live
    PROVE  p = q
<1>1. CASE Booting(p) \/ Booting(q)  BY <1>1, BootingAlone DEF OnlyServer
<1>2. CASE Found(p) /\ Found(q)  BY <1>2 DEF Found
<1> QED BY <1>1, <1>2 DEF SharedInv, DaemonsOK

\* A call that is about to start or stop a server has nobody to consider.
LEMMA NobodyHolds ==
    ASSUME SharedInv, Lossless, NEW h \in SharedHandles, NEW t \in Threads, Exclusive(h, t)
    PROVE  \A g \in SharedHandles : ~Holding(g)
BY SharedType DEF SharedInv, StepsOK, StepOK, Unused, MembersOK, Found, Up

\* An idle thread owes nothing.
LEMMA IdleOK ==
    ASSUME NEW h, NEW t, at[h][t] \in {"idle", "lock", "count", "leave"} PROVE StepOK(h, t)
BY DEF StepOK, WrittenOK, ServersOK, Exclusive

\* Only the thread that moves, h's t, can owe anything after its step.
LEMMA OnlyMover ==
    ASSUME TypeOK, OneActive, NEW h \in Handles, NEW t \in Threads, NEW s, Goto(h, t, s),
           at[h][t] # "idle" \/ \A g \in Handles : Idle(g),
           h \in SharedHandles => StepOK(h, t)'
    PROVE  StepsOK'
<1>1. \A g \in Handles, u \in Threads : at'[g][u] = "idle" \/ (g = h /\ u = t)  BY OneActiveGoto
<1>2. \A g \in SharedHandles, u \in Threads : at'[g][u] = "idle" => StepOK(g, u)'
  BY DEF StepOK, WrittenOK, ServersOK, Exclusive
<1> QED BY <1>1, <1>2, SharedType DEF StepsOK

-----------------------------------------------------------------------------
(* Steps that leave the shared server and its instances alone.             *)

SharedSame ==
    /\ \A q \in SharedHandles :
          /\ proc'[q] = proc[q] /\ setup'[q] = setup[q] /\ life'[q] = life[q]
          /\ started'[q] = started[q] /\ running'[q] = running[q] /\ socketFile'[q] = socketFile[q]
          /\ at'[q] = at[q] /\ pid'[q] = pid[q] /\ link'[q] = link[q]
    /\ \A l \in Locs \ Isolated : sock'[l] = sock[l]
    /\ pidfile'[Shared] = pidfile[Shared] /\ conf'[Shared] = conf[Shared]
    /\ registry'["main"] = registry["main"]

LEMMA SameOK ==
    ASSUME Known, SharedInv, SharedSame, NoForeign' PROVE SharedInv'
<1>1. \A q \in SharedHandles : Found(q) => Found(q)'
  BY SharedType DEF SharedSame, Found, Rendered
<1>2. \A q \in SharedHandles : Booting(q) => Booting(q)'
  BY SharedType DEF SharedSame, Booting, Rendered
<1>3. DaemonsOK'  BY <1>1, <1>2 DEF SharedInv, DaemonsOK, SharedSame
<1>4. \A h \in SharedHandles : Holding(h)' => Holding(h)  BY DEF SharedSame, Holding
<1>5. MembersOK'  BY <1>1, <1>4 DEF SharedInv, MembersOK, SharedSame, Found
<1>6. /\ NoServer => NoServer'
      /\ \A p \in SharedHandles \cup {None} : OnlyServer(p) => OnlyServer(p)'
  BY DEF SharedSame, NoServer, OnlyServer
<1>7. Unused => Unused'
  <2>1. \A g \in SharedHandles : Up(link[g])' => Up(link[g])
    BY SharedKnows DEF SharedSame, Up
  <2> QED BY <1>4, <2>1 DEF Unused
<1>8. ASSUME NEW h \in SharedHandles, NEW t \in Threads PROVE StepOK(h, t)'
  <2>1. StepOK(h, t) /\ pid[h][t] \in SharedHandles \cup {None}
    BY SharedKnows DEF SharedInv, StepsOK
  <2>2. WrittenOK(h, t)'  BY <2>1 DEF StepOK, WrittenOK, SharedSame, Rendered
  <2>3. ServersOK(h, t)'  BY <2>1, <1>6 DEF StepOK, ServersOK, SharedSame, Owner
  <2>4. Exclusive(h, t)' => Unused'  BY <2>1, <1>7 DEF StepOK, Exclusive, Owner, SharedSame
  <2> QED BY <2>2, <2>3, <2>4 DEF StepOK
<1>9. PlacesOK'  BY DEF SharedInv, PlacesOK, SharedSame
<1> QED BY <1>3, <1>5, <1>8, <1>9 DEF SharedInv, StepsOK

\* A private daemon that exits unlinks nothing of the shared directory.
LEMMA PrivateExit ==
    ASSUME Known, NEW q \in Isolated, proc[q] = "up", NEW save, ExitOrderly(q, save)
    PROVE  /\ \A r \in SharedHandles : proc'[r] = proc[r]
           /\ \A l \in Locs \ Isolated : sock'[l] = sock[l]
           /\ pidfile'[Shared] = pidfile[Shared]
<1>1. TypeOK /\ Apart  BY DEF Known, CallInv
<1>2. q \in Handles /\ Dir(q) = q /\ q # Shared /\ setup[q].sock = q
  BY <1>1, OwnFiles, NamesAssumption DEF TypeOK, Live
<1> QED BY <1>1, <1>2, SharedType DEF ExitOrderly, TypeOK, SharedHandles

LEMMA PrivateCalls ==
    ASSUME Orderly, Known, NEW h \in Isolated, NEW t \in Threads,
           Open(h, t) \/ BeginClose(h, t) \/ Step(h, t) \/ Interrupt(h, t)
    PROVE  SharedSame
<1> USE DEF daemons, runfiles, dirs, object, calls, conns
<1>t. TypeOK /\ Apart /\ SignalsSomeone  BY CallsType DEF Known, CallInv
<1>h. /\ h \in Handles /\ Dir(h) = h /\ h # Shared /\ h \in Locs /\ socketFile[h] = h
      /\ Shared \in Dirs /\ SharedHandles \subseteq Handles \ {h} /\ Reach(h) \in {None, h}
      /\ pid[h][t] \in {None, h}
  BY <1>t, OwnFiles, SharedType, NamesAssumption DEF SharedHandles
<1>g. ASSUME NEW s, Goto(h, t, s) PROVE \A q \in SharedHandles : at'[q] = at[q]
  BY <1>g, <1>t, <1>h DEF Goto, TypeOK
<1>b. ASSUME Back(h, t) PROVE \A q \in SharedHandles : at'[q] = at[q] /\ pid'[q] = pid[q]
  BY <1>b, <1>t, <1>h DEF Back, Goto, TypeOK
<1>r. ASSUME RollBack(h, t) PROVE \A q \in SharedHandles : at'[q] = at[q] /\ pid'[q] = pid[q]
  BY <1>r, <1>t, <1>h DEF RollBack, Goto, TypeOK
<1>d. ASSUME Disconnect(h) PROVE \A q \in SharedHandles : link'[q] = link[q]
  BY <1>d, <1>t, <1>h DEF Disconnect, TypeOK
<1>c. ASSUME Connect(h) PROVE \A q \in SharedHandles : link'[q] = link[q]
  BY <1>c, <1>t, <1>h DEF Connect, TypeOK
<1>1. CASE Open(h, t)  BY <1>1, <1>t, <1>h, <1>g DEF Open, TypeOK, SharedSame
<1>2. CASE BeginClose(h, t)  BY <1>2, <1>g DEF BeginClose, SharedSame
<1>3. CASE LoadRegistry(h, t) \/ ProbePid(h, t) \/ TruncateRegistry(h, t) \/ SaveRegistry(h, t)
  BY <1>3, <1>t, <1>h
  DEF LoadRegistry, ProbePid, TruncateRegistry, SaveRegistry, Apart, StepsApart, RegistrySteps
<1>4. CASE WriteConf(h, t)  BY <1>4, <1>t, <1>h, <1>g DEF WriteConf, TypeOK, SharedSame
<1>5. CASE Launch(h, t)  BY <1>5, <1>t, <1>h, <1>g DEF Launch, TypeOK, SharedSame
<1>6. CASE PingAnswered(h, t)  BY <1>6, <1>t, <1>h, <1>g, <1>c DEF PingAnswered, TypeOK, SharedSame
<1>7. CASE PingTimeout(h, t)  BY <1>7, <1>r DEF PingTimeout, SharedSame
<1>8. CASE Undo(h, t)
  <2>1. \A q \in SharedHandles : at'[q] = at[q] /\ pid'[q] = pid[q] /\ life'[q] = life[q]
    BY <1>8, <1>t, <1>h, <1>b DEF Undo, TypeOK
  <2>2. /\ \A l \in Locs \ Isolated : sock'[l] = sock[l]
        /\ pidfile'[Shared] = pidfile[Shared] /\ conf'[Shared] = conf[Shared]
        /\ registry'["main"] = registry["main"]
    BY <1>8, <1>t, <1>h DEF Undo, TypeOK
  <2> QED BY <1>8, <2>1, <2>2 DEF Undo, SharedSame
<1>9. CASE BindProcess(h, t)  BY <1>9, <1>g DEF BindProcess, SharedSame
<1>10. CASE Signal(h, t)
  <2>1. pid[h][t] = h  BY <1>10, <1>t, <1>h DEF Signal, SignalsSomeone
  <2>2. /\ \A r \in SharedHandles : proc'[r] = proc[r]
        /\ \A l \in Locs \ Isolated : sock'[l] = sock[l]
        /\ pidfile'[Shared] = pidfile[Shared]
    <3>1. CASE proc[pid[h][t]] = "up" /\ ExitOrderly(pid[h][t], TRUE)  BY <3>1, <2>1, PrivateExit
    <3>2. CASE UNCHANGED <<pidfile, sock>> /\ (proc' = proc \/ proc' = [proc EXCEPT ![pid[h][t]] = "dead"])
      BY <3>2, <2>1, <1>h, <1>t DEF TypeOK
    <3> QED BY <1>10, <3>1, <3>2 DEF Signal
  <2> QED BY <1>10, <2>2, <1>g DEF Signal, SharedSame
<1>11. CASE SignalForeign(h, t)
  <2>1. pid[h][t] = h  BY <1>11, <1>t, <1>h DEF SignalForeign, SignalsSomeone
  <2> QED BY <1>11, <2>1, <1>t, <1>h, <1>g DEF SignalForeign, TypeOK, SharedSame
<1>12. CASE Acquire(h, t)
  <2>1. \A q \in SharedHandles : at'[q] = at[q] /\ link'[q] = link[q]
    BY <1>12, <1>g, <1>d DEF Acquire
  <2> QED BY <1>12, <2>1 DEF Acquire, SharedSame
<1>13. CASE Count(h, t)  BY <1>13, <1>g, <1>c DEF Count, SharedSame
<1>14. CASE CountFails(h, t)  BY <1>14, <1>b, <1>d DEF CountFails, Return, SharedSame
<1>15. CASE Leave(h, t)  BY <1>15, <1>t, <1>h, <1>b, <1>d DEF Leave, Return, TypeOK, SharedSame
<1>16. CASE CapturePid(h, t)  BY <1>16, <1>t, <1>h, <1>g DEF CapturePid, TypeOK, SharedSame
<1>17. CASE Shutdown(h, t)
  <2>1. Reach(h) # None => Reach(h) = h /\ proc[h] = "up"  BY <1>h DEF Reach, Up
  <2>2. /\ \A r \in SharedHandles : proc'[r] = proc[r]
        /\ \A l \in Locs \ Isolated : sock'[l] = sock[l]
        /\ pidfile'[Shared] = pidfile[Shared]
    BY <1>17, <2>1, PrivateExit DEF Shutdown
  <2> QED BY <1>17, <2>2, <1>g DEF Shutdown, SharedSame
<1>18. CASE RemoveFiles(h, t)
  <2>1. \A q \in SharedHandles :
           at'[q] = at[q] /\ pid'[q] = pid[q] /\ link'[q] = link[q] /\ running'[q] = running[q]
    BY <1>18, <1>t, <1>h, <1>b, <1>d DEF RemoveFiles, Return, TypeOK
  <2>2. /\ \A l \in Locs \ Isolated : sock'[l] = sock[l]
        /\ pidfile'[Shared] = pidfile[Shared] /\ conf'[Shared] = conf[Shared]
    BY <1>18, <1>t, <1>h DEF RemoveFiles, RemoveRunFiles, TypeOK
  <2> QED BY <1>18, <2>1, <2>2 DEF RemoveFiles, SharedSame
<1>19. CASE Interrupt(h, t)  BY <1>19, SafeFaults DEF Interrupt
<1> QED
  BY <1>1, <1>2, <1>3, <1>4, <1>5, <1>6, <1>7, <1>8, <1>9, <1>10, <1>11, <1>12, <1>13, <1>14,
     <1>15, <1>16, <1>17, <1>18, <1>19
  DEF Step

LEMMA PrivateDaemons ==
    ASSUME Known, NEW h \in Isolated,
           Boot(h) \/ Crash(h) \/ ReusePid(h) \/ Write(h) \/ Grow(h) \/ Visit(h) \/ ClientCrash(h)
    PROVE  SharedSame
<1> USE DEF daemons, runfiles, dirs, object, calls, conns, SharedSame
<1>t. TypeOK /\ Apart  BY DEF Known, CallInv
<1>h. /\ h \in Handles /\ Dir(h) = h /\ h # Shared /\ h \in Locs
      /\ Shared \in Dirs /\ SharedHandles \subseteq Handles \ {h}
      /\ setup[h] # None => setup[h].sock = h
  BY <1>t, OwnFiles, SharedType, NamesAssumption DEF SharedHandles
<1>1. CASE WritePidfile(h)  BY <1>1, <1>t, <1>h DEF WritePidfile, TypeOK
<1>2. CASE Serve(h)  BY <1>2, <1>t, <1>h DEF Serve, TypeOK, Live
<1>3. CASE BindFails(h) \/ Crash(h) \/ ReusePid(h)
  BY <1>3, <1>t, <1>h DEF BindFails, Crash, ReusePid, TypeOK
<1>4. CASE Write(h)  BY <1>4, <1>t, <1>h DEF Write, Connect, TypeOK
<1>5. CASE Grow(h) \/ Visit(h)  BY <1>5 DEF Grow, Visit
<1>6. CASE ClientCrash(h)  BY <1>6, <1>t, <1>h DEF ClientCrash, Disconnect, TypeOK
<1> QED BY <1>1, <1>2, <1>3, <1>4, <1>5, <1>6 DEF Boot

\* Nobody gets the pid of a dead server.
LEMMA ForeignStep ==
    ASSUME Orderly, Known, NoForeign, [Next]_vars PROVE NoForeign'
<1>t. TypeOK /\ FreshOK /\ PidsUsed  BY DEF Known, CallInv, Once
<1>0. ASSUME UNCHANGED proc PROVE NoForeign'  BY <1>0 DEF NoForeign
<1>1. ASSUME NEW x, x # "foreign", NEW q, proc' = [proc EXCEPT ![q] = x] PROVE NoForeign'
  BY <1>1, <1>t DEF NoForeign, TypeOK
<1>2. ASSUME NEW h \in Handles, NEW t \in Threads, Step(h, t) PROVE NoForeign'
  <2>1. CASE Launch(h, t) \/ Signal(h, t) \/ SignalForeign(h, t) \/ Shutdown(h, t)
    BY <2>1, <1>0, <1>1 DEF Launch, Signal, SignalForeign, Shutdown, ExitOrderly
  <2>2. CASE ~(Launch(h, t) \/ Signal(h, t) \/ SignalForeign(h, t) \/ Shutdown(h, t))
    BY <1>2, <2>2, <1>0
    DEF Step, LoadRegistry, ProbePid, WriteConf, TruncateRegistry, SaveRegistry, PingAnswered,
        PingTimeout, Undo, BindProcess, Acquire, Count, CountFails, Leave, CapturePid, RemoveFiles,
        daemons
  <2> QED BY <2>1, <2>2
<1>3. ASSUME NEW h \in Handles, NEW t \in Threads, Open(h, t) \/ BeginClose(h, t) \/ Interrupt(h, t)
      PROVE  NoForeign'
  BY <1>3, <1>0 DEF Open, BeginClose, Interrupt, daemons
<1>4. ASSUME NEW h \in Handles, Boot(h) \/ Crash(h) PROVE NoForeign'
  BY <1>4, <1>1 DEF Boot, WritePidfile, Serve, BindFails, Crash
<1>5. ASSUME NEW h \in Handles, ReusePid(h) \/ Write(h) \/ Grow(h) \/ Visit(h) \/ ClientCrash(h)
      PROVE  NoForeign'
  BY <1>5, <1>0, SafeFaults DEF ReusePid, Write, Grow, Visit, ClientCrash, daemons
<1>6. CASE UNCHANGED vars  BY <1>6, <1>0 DEF vars, daemons
<1> QED BY <1>2, <1>3, <1>4, <1>5, <1>6 DEF Next

-----------------------------------------------------------------------------
(* What the calls of a shared instance have in common.                     *)

\* h moves; the other instances of the path stay as they are.
OthersStay(h) ==
    \A g \in SharedHandles \ {h} :
        life'[g] = life[g] /\ running'[g] = running[g] /\ link'[g] = link[g]

LEMMA OthersHold ==
    ASSUME TypeOK, NEW h \in SharedHandles, NEW t \in Threads, NEW s, Goto(h, t, s), OthersStay(h)
    PROVE  /\ \A g \in SharedHandles \ {h} : Holding(g)' => Holding(g) /\ link'[g] = link[g]
           /\ Holding(h)' => s \in {"idle", "lock", "count"}
           /\ at'[h][t] = s
<1>1. h \in Handles /\ at'[h][t] = s /\ \A g \in Handles \ {h} : at'[g] = at[g]
  BY SharedType, Moved
<1> QED BY <1>1, SharedType DEF OthersStay, Holding

\* Nobody who counts on a server is connected to one that is up.
LEMMA UnusedStays ==
    ASSUME Known, NEW h \in SharedHandles, NEW t \in Threads, NEW s, Goto(h, t, s), OthersStay(h),
           s \notin {"idle", "lock", "count"}, Unused,
           \A q \in SharedHandles : proc'[q] = "up" => proc[q] = "up"
    PROVE  Unused'
<1>1. TypeOK  BY DEF Known, CallInv
<1>2. \A g \in SharedHandles : Holding(g)' => Holding(g) /\ link'[g] = link[g] /\ g # h
  BY <1>1, OthersHold
<1>3. \A g \in SharedHandles : link[g] # None => link[g] \in SharedHandles  BY SharedKnows
<1> QED BY <1>2, <1>3 DEF Unused, Up

\* A call of h that is active, or starts while nobody is, keeps the invariant if
\* it keeps the server that the others find, cares for its own, and knows what it
\* has to at its next step.
LEMMA CallOK ==
    ASSUME Known, SharedInv, NEW h \in SharedHandles, NEW t \in Threads, NEW s, Goto(h, t, s),
           at[h][t] # "idle" \/ \A g \in Handles : Idle(g),
           OthersStay(h), NoForeign', PlacesOK', StepOK(h, t)',
           \A q \in SharedHandles \ {h} : /\ proc'[q] \in Live => proc[q] = proc'[q]
                                          /\ Found(q) /\ proc'[q] \in Live => Found(q)',
           proc'[h] \in Live => Found(h)' \/ Booting(h)',
           Lossless /\ Holding(h)' => Found(link[h])',
           Lossless => \A g \in SharedHandles \ {h} : Holding(g) => Found(link[g])'
    PROVE  SharedInv'
<1>t. TypeOK /\ OneActive  BY DEF Known, CallInv
<1>1. DaemonsOK'
  <2> SUFFICES ASSUME NEW q \in SharedHandles, q # h, proc'[q] \in Live PROVE Found(q)'
    BY DEF DaemonsOK
  <2>1. \A u \in Threads : at[q][u] = "idle"
    BY <1>t, SharedType DEF OneActive, Idle
  <2> QED BY <2>1, Settled DEF BootSteps
<1>2. MembersOK'
  <2>1. \A g \in SharedHandles \ {h} : Holding(g)' => Holding(g) /\ link'[g] = link[g]
    BY <1>t, OthersHold
  <2> SUFFICES ASSUME Lossless, NEW g \in SharedHandles, Holding(g)' PROVE Found(link[g])'
    BY DEF MembersOK
  <2>2. CASE g # h  BY <2>1, <2>2
  <2> QED BY <2>2
<1>3. StepsOK'  BY <1>t, SharedType, OnlyMover
<1> QED BY <1>1, <1>2, <1>3 DEF SharedInv

\* Most calls neither move a daemon nor touch the files by which it is found.
ServerSame == UNCHANGED <<proc, setup, pidfile, sock, registry>>

LEMMA FoundSame == ASSUME ServerSame, NEW q, Found(q) PROVE Found(q)'
BY DEF ServerSame, Found, Rendered

LEMMA QuietCall ==
    ASSUME Known, SharedInv, NEW h \in SharedHandles, NEW t \in Threads, NEW s, Goto(h, t, s),
           at[h][t] # "idle" \/ \A g \in Handles : Idle(g),
           ServerSame, OthersStay(h), PlacesOK', StepOK(h, t)',
           proc[h] \in Live => Found(h),
           Lossless /\ Holding(h)' => Found(link'[h])
    PROVE  SharedInv'
<1>1. NoForeign'  BY DEF SharedInv, NoForeign, ServerSame
<1>2. \A q \in SharedHandles : Found(q) => Found(q)'  BY FoundSame
<1>3. \A q \in SharedHandles \ {h} : /\ proc'[q] \in Live => proc[q] = proc'[q]
                                     /\ Found(q) /\ proc'[q] \in Live => Found(q)'
  BY <1>2 DEF ServerSame
<1>4. proc'[h] \in Live => Found(h)'  BY <1>2 DEF ServerSame
<1>5. Lossless /\ Holding(h)' => Found(link[h])'
  <2>1. Found(link'[h]) => Found(link[h])'  BY DEF ServerSame, Found, Rendered
  <2> QED BY <2>1
<1>6. Lossless => \A g \in SharedHandles \ {h} : Holding(g) => Found(link[g])'
  <2> SUFFICES ASSUME Lossless, NEW g \in SharedHandles \ {h}, Holding(g) PROVE Found(link[g])'
    OBVIOUS
  <2>1. Found(link[g]) /\ link'[g] = link[g]  BY DEF SharedInv, MembersOK, OthersStay
  <2> QED BY <2>1 DEF ServerSame, Found, Rendered
<1> QED BY <1>1, <1>3, <1>4, <1>5, <1>6, CallOK

\* While nobody waits for a server of his own, there is one that everybody finds,
\* or none.
LEMMA AllFound ==
    ASSUME Known, SharedInv, NEW h \in Handles, NEW t \in Threads,
           (at[h][t] # "idle" /\ at[h][t] \notin BootSteps) \/ \A g \in Handles : Idle(g)
    PROVE  \A q \in SharedHandles : proc[q] \in Live => Found(q)
<1> SUFFICES ASSUME NEW q \in SharedHandles, proc[q] \in Live PROVE Found(q)  OBVIOUS
<1>1. \A u \in Threads : at[q][u] \notin BootSteps
  BY SharedType DEF Known, OneActive, Idle, BootSteps
<1> QED BY <1>1, Settled

\* A constructor that has not launched a server has none.
LEMMA NotYet ==
    ASSUME Known, NEW h \in SharedHandles, NEW t \in Threads,
           life[h] = "unborn" \/ at[h][t] \in PreLaunch
    PROVE  ~started[h] /\ proc[h] = "free" /\ proc[h] \notin Live
BY SharedType DEF Known, Once, FreshOK, Fresh, Live

LEMMA OpenShared ==
    ASSUME Orderly, Known, SharedInv, NEW h \in SharedHandles, NEW t \in Threads, Open(h, t)
    PROVE  SharedInv'
<1> USE DEF daemons, runfiles, object, conns
<1>t. TypeOK /\ h \in Handles /\ h \notin Isolated  BY SharedType DEF Known, CallInv
<1>1. Goto(h, t, "load") /\ \A g \in Handles : Idle(g)
  BY <1>t DEF Open, FirstStep, Quiet, Orderly
<1>2. at'[h][t] = "load"  BY <1>1, <1>t, Moved
<1>3. ServerSame  BY DEF Open, ServerSame
<1>4. life'[h] = "building" /\ \A g \in Handles \ {h} : life'[g] = life[g]  BY <1>t DEF Open, TypeOK
<1>5. OthersStay(h) /\ ~Holding(h)'  BY <1>4, SharedType DEF Open, OthersStay, Holding
<1>6. PlacesOK'  BY <1>4 DEF Open, SharedInv, PlacesOK
<1>7. socketFile'[h] = Loc(h)  BY DEF Open, SharedInv, PlacesOK
<1>8. StepOK(h, t)'  BY <1>2, <1>7 DEF StepOK, WrittenOK, ServersOK, Exclusive
<1>9. proc[h] \notin Live  BY NotYet DEF Open
<1> QED BY <1>1, <1>3, <1>5, <1>6, <1>8, <1>9, QuietCall

LEMMA LoadShared ==
    ASSUME Orderly, Known, SharedInv, NEW h \in SharedHandles, NEW t \in Threads, LoadRegistry(h, t)
    PROVE  SharedInv'
<1> USE DEF daemons, runfiles, object, conns
<1>t. TypeOK /\ h \in Handles /\ at[h][t] = "load"  BY SharedType DEF Known, CallInv, LoadRegistry
<1>b. life[h] = "building"  BY <1>t DEF Known, CallInv, HandleOK, BuilderOK, CtorSteps
<1>1. ServerSame /\ OthersStay(h)  BY DEF LoadRegistry, ServerSame, OthersStay
<1>2. ~Holding(h)'  BY <1>b DEF LoadRegistry, Holding
<1>3. proc[h] \notin Live /\ ~started[h]  BY <1>t, NotYet DEF PreLaunch
<1>4. StepOK(h, t)  BY DEF SharedInv, StepsOK
<1>5. CASE Readable(registry["main"])
  <2>1. Goto(h, t, "probe") /\ socketFile' = [socketFile EXCEPT ![h] = registry["main"]]
    BY <1>t, <1>5, MainFile DEF LoadRegistry
  <2>2. at'[h][t] = "probe"  BY <2>1, <1>t, Moved
  <2>3. StepOK(h, t)'  BY <2>2 DEF StepOK, WrittenOK, ServersOK, Exclusive
  <2>4. PlacesOK'
    BY <2>1, <1>t, <1>b, <1>5, SharedType DEF LoadRegistry, SharedInv, PlacesOK, Readable, TypeOK
  <2> QED BY <1>t, <1>1, <1>2, <1>3, <2>1, <2>3, <2>4, QuietCall
<1>6. CASE ~Readable(registry["main"])
  <2>1. Goto(h, t, "conf") /\ socketFile' = socketFile
    BY <1>t, <1>6, MainFile DEF LoadRegistry
  <2>2. at'[h][t] = "conf"  BY <2>1, <1>t, Moved
  <2>3. NoServer
    <3>1. \A q \in SharedHandles : proc[q] \in Live => Found(q)  BY <1>t, AllFound DEF BootSteps
    <3> QED BY <3>1, <1>6, SharedType DEF NoServer, Found, Readable
  <2>4. NoServer' /\ Unused
    BY <2>3, <1>1, NobodyUp DEF NoServer, ServerSame, Unused
  <2>5. Unused'  BY <2>1, <2>4, <1>1, UnusedStays DEF ServerSame
  <2>6. StepOK(h, t)'
    BY <2>1, <2>2, <2>4, <2>5, <1>t, <1>4 DEF StepOK, WrittenOK, ServersOK, Exclusive
  <2>7. PlacesOK'  BY <2>1 DEF LoadRegistry, SharedInv, PlacesOK
  <2> QED BY <1>t, <1>1, <1>2, <1>3, <2>1, <2>6, <2>7, QuietCall
<1> QED BY <1>5, <1>6

LEMMA ProbeShared ==
    ASSUME Orderly, Known, SharedInv, NEW h \in SharedHandles, NEW t \in Threads, ProbePid(h, t)
    PROVE  SharedInv'
<1> USE DEF daemons, runfiles, object, conns
<1>t. TypeOK /\ h \in Handles /\ at[h][t] = "probe"  BY SharedType DEF Known, CallInv, ProbePid
<1>b. life[h] = "building"  BY <1>t DEF Known, CallInv, HandleOK, BuilderOK, CtorSteps
<1>1. ServerSame /\ OthersStay(h)  BY DEF ProbePid, ServerSame, OthersStay
<1>2. ~Holding(h)'  BY <1>b DEF ProbePid, Holding
<1>3. proc[h] \notin Live /\ ~started[h]  BY <1>t, NotYet DEF PreLaunch
<1>4. CASE PidOf(h) # None
  <2>1. Goto(h, t, "ping") /\ socketFile' = socketFile  BY <1>4 DEF ProbePid
  <2>2. at'[h][t] = "ping" /\ ~started'[h] /\ life'[h] = "building"
    BY <2>1, <1>t, <1>b, <1>3, Moved DEF ProbePid
  <2>3. StepOK(h, t)'  BY <2>2 DEF StepOK, WrittenOK, ServersOK, Exclusive, Owner
  <2>4. PlacesOK'  BY <2>1 DEF ProbePid, SharedInv, PlacesOK
  <2> QED BY <1>t, <1>1, <1>2, <1>3, <2>1, <2>3, <2>4, QuietCall
<1>5. CASE PidOf(h) = None
  <2>1. Goto(h, t, "conf") /\ socketFile' = [socketFile EXCEPT ![h] = Loc(h)]
    BY <1>5 DEF ProbePid
  <2>2. at'[h][t] = "conf" /\ socketFile'[h] = Loc(h)  BY <2>1, <1>t, Moved DEF TypeOK
  <2>3. NoServer
    <3>1. \A q \in SharedHandles : proc[q] \in Live => Found(q)  BY <1>t, AllFound DEF BootSteps
    <3>2. \A q \in SharedHandles : proc[q] \in Live => q = pidfile[Dir(h)] /\ q # None
      BY <3>1, SharedType DEF Found
    <3> QED BY <3>2, <1>5 DEF NoServer, PidOf, Exists
  <2>4. NoServer' /\ Unused
    BY <2>3, <1>1, NobodyUp DEF NoServer, ServerSame, Unused
  <2>5. Unused'  BY <2>1, <2>4, <1>1, UnusedStays DEF ServerSame
  <2>6. StepOK(h, t)'
    BY <2>2, <2>4, <2>5 DEF StepOK, WrittenOK, ServersOK, Exclusive
  <2>7. PlacesOK'
    BY <2>1, <1>t, SharedType, OneLoc DEF ProbePid, SharedInv, PlacesOK, TypeOK
  <2> QED BY <1>t, <1>1, <1>2, <1>3, <2>1, <2>6, <2>7, QuietCall
<1> QED BY <1>4, <1>5

LEMMA ConfShared ==
    ASSUME Orderly, Known, SharedInv, NEW h \in SharedHandles, NEW t \in Threads, WriteConf(h, t)
    PROVE  SharedInv'
<1> USE DEF daemons, runfiles, object, conns
<1>t. TypeOK /\ h \in Handles /\ at[h][t] = "conf"  BY SharedType DEF Known, CallInv, WriteConf
<1>b. life[h] = "building"  BY <1>t DEF Known, CallInv, HandleOK, BuilderOK, CtorSteps
<1>1. ServerSame /\ OthersStay(h)  BY DEF WriteConf, ServerSame, OthersStay
<1>2. ~Holding(h)'  BY <1>b DEF WriteConf, Holding
<1>3. proc[h] \notin Live /\ ~started[h]  BY <1>t, NotYet DEF PreLaunch
<1>4. NoServer /\ Unused /\ socketFile[h] = Loc(h)
  BY <1>t DEF SharedInv, StepsOK, StepOK, WrittenOK, ServersOK, Exclusive
<1>5. PlacesOK'  BY DEF WriteConf, SharedInv, PlacesOK
<1>6. CASE conf' = [conf EXCEPT ![Dir(h)] = Rendered(h)] /\ Goto(h, t, "launch")
  <2>1. at'[h][t] = "launch" /\ conf'[Shared] = Rendered(h)
    BY <1>6, <1>t, Moved, SharedType DEF TypeOK
  <2>2. NoServer' /\ Unused'
    BY <1>1, <1>4, <1>6, UnusedStays DEF NoServer, ServerSame
  <2>3. StepOK(h, t)'
    BY <2>1, <2>2, <1>4 DEF WriteConf, StepOK, WrittenOK, ServersOK, Exclusive, Rendered
  <2> QED BY <1>t, <1>1, <1>2, <1>3, <1>5, <1>6, <2>3, QuietCall
<1>7. CASE Goto(h, t, "undo")
  <2>1. at'[h][t] = "undo" /\ ~started'[h] /\ life'[h] = "building"
    BY <1>7, <1>t, <1>b, <1>3, Moved DEF WriteConf
  <2>2. StepOK(h, t)'  BY <2>1 DEF StepOK, WrittenOK, ServersOK, Exclusive, Owner
  <2> QED BY <1>t, <1>1, <1>2, <1>3, <1>5, <1>7, <2>2, QuietCall
<1> QED BY <1>6, <1>7 DEF WriteConf

LEMMA LaunchShared ==
    ASSUME Orderly, Known, SharedInv, NoForeign',
           NEW h \in SharedHandles, NEW t \in Threads, Launch(h, t)
    PROVE  SharedInv'
<1> USE DEF daemons, runfiles, object, conns
<1>t. TypeOK /\ h \in Handles /\ at[h][t] = "launch"  BY SharedType DEF Known, CallInv, Launch
<1>b. life[h] = "building"  BY <1>t DEF Known, CallInv, HandleOK, BuilderOK, CtorSteps
<1>1. Goto(h, t, "truncate")  BY SharedType DEF Launch
<1>2. OthersStay(h) /\ ~Holding(h)' /\ PlacesOK'
  BY <1>b DEF Launch, OthersStay, Holding, SharedInv, PlacesOK
<1>3. /\ NoServer /\ Unused /\ conf[Dir(h)] = Rendered(h) /\ socketFile[h] = Loc(h)
      /\ proc[h] \notin Live
  BY <1>t, SharedType DEF SharedInv, StepsOK, StepOK, WrittenOK, ServersOK, Exclusive, NoServer
<1>4. Lossless => \A g \in SharedHandles : ~Holding(g)  BY <1>t, NobodyHolds DEF Exclusive
<1>5. /\ at'[h][t] = "truncate" /\ started'[h] /\ life'[h] = "building"
      /\ socketFile'[h] = Loc(h)
  BY <1>1, <1>3, <1>b, <1>t, Moved DEF Launch, TypeOK
<1>6. /\ \A q \in SharedHandles \ {h} : proc'[q] = proc[q]
      /\ proc'[h] \in Live => proc'[h] = "boot" /\ setup'[h] = Rendered(h)
  BY <1>3, <1>t, SharedType DEF Launch, TypeOK
<1>7. OnlyServer(h)'  BY <1>3, <1>6 DEF NoServer, OnlyServer
<1>8. Unused'
  BY <1>1, <1>2, <1>3, <1>6, UnusedStays DEF Live
<1>9. StepOK(h, t)'  BY <1>5, <1>7, <1>8 DEF StepOK, WrittenOK, ServersOK
<1>10. proc'[h] \in Live => Booting(h)'
  BY <1>5, <1>6 DEF Booting, BootSteps, Rendered
<1> QED BY <1>t, <1>1, <1>2, <1>3, <1>4, <1>6, <1>9, <1>10, CallOK DEF NoServer

LEMMA TruncateShared ==
    ASSUME Orderly, Known, SharedInv,
           NEW h \in SharedHandles, NEW t \in Threads, TruncateRegistry(h, t)
    PROVE  SharedInv'
<1> USE DEF daemons, runfiles, object, conns
<1>t. TypeOK /\ h \in Handles /\ at[h][t] = "truncate"
  BY SharedType DEF Known, CallInv, TruncateRegistry
<1>b. life[h] = "building"  BY <1>t DEF Known, CallInv, HandleOK, BuilderOK, CtorSteps
<1>1. Goto(h, t, "save") /\ registry'["main"] = Torn
  BY <1>t, SafeFaults, MainFile DEF TruncateRegistry, TypeOK, Files
<1>2. OthersStay(h) /\ ~Holding(h)' /\ PlacesOK' /\ NoForeign'
  BY <1>b, <1>1 DEF TruncateRegistry, OthersStay, Holding, SharedInv, PlacesOK, NoForeign
<1>3. OnlyServer(h) /\ Unused /\ socketFile[h] = Loc(h) /\ started[h]
  BY <1>t DEF SharedInv, StepsOK, StepOK, WrittenOK, ServersOK, Exclusive
<1>4. Lossless => \A g \in SharedHandles : ~Holding(g)  BY <1>t, NobodyHolds DEF Exclusive
<1>5. at'[h][t] = "save" /\ started'[h] /\ life'[h] = "building" /\ socketFile'[h] = Loc(h)
  BY <1>1, <1>3, <1>b, <1>t, Moved DEF TruncateRegistry
<1>6. proc' = proc /\ setup' = setup /\ pidfile' = pidfile /\ sock' = sock
  BY DEF TruncateRegistry
<1>7. OnlyServer(h)'  BY <1>3, <1>6 DEF OnlyServer
<1>8. Unused'  BY <1>1, <1>2, <1>3, <1>6, UnusedStays
<1>9. StepOK(h, t)'  BY <1>1, <1>5, <1>7, <1>8 DEF StepOK, WrittenOK, ServersOK
<1>10. proc'[h] \in Live => Booting(h)'
  <2>1. proc[h] \in Live => Found(h) \/ Booting(h)  BY DEF SharedInv, DaemonsOK
  <2> QED BY <2>1, <1>5, <1>6 DEF Found, Booting, BootSteps, Rendered
<1> QED BY <1>t, <1>1, <1>2, <1>3, <1>4, <1>6, <1>9, <1>10, CallOK DEF OnlyServer

LEMMA SaveShared ==
    ASSUME Orderly, Known, SharedInv,
           NEW h \in SharedHandles, NEW t \in Threads, SaveRegistry(h, t)
    PROVE  SharedInv'
<1> USE DEF daemons, runfiles, object, conns
<1>t. TypeOK /\ h \in Handles /\ at[h][t] = "save"
  BY SharedType DEF Known, CallInv, SaveRegistry
<1>b. life[h] = "building"  BY <1>t DEF Known, CallInv, HandleOK, BuilderOK, CtorSteps
<1>3. /\ OnlyServer(h) /\ Unused /\ socketFile[h] = Loc(h) /\ started[h]
      /\ registry["main"] = Torn
  BY <1>t DEF SharedInv, StepsOK, StepOK, WrittenOK, ServersOK, Exclusive
<1>1. Goto(h, t, "ping") /\ registry'["main"] = Loc(h)
  BY <1>t, <1>3, SafeFaults, SharedType, MainFile DEF SaveRegistry, TypeOK, Files
<1>2. OthersStay(h) /\ ~Holding(h)' /\ PlacesOK' /\ NoForeign'
  BY <1>b, <1>1, OneLoc DEF SaveRegistry, OthersStay, Holding, SharedInv, PlacesOK, NoForeign
<1>4. Lossless => \A g \in SharedHandles : ~Holding(g)  BY <1>t, NobodyHolds DEF Exclusive
<1>5. at'[h][t] = "ping" /\ started'[h] /\ life'[h] = "building" /\ socketFile'[h] = Loc(h)
  BY <1>1, <1>3, <1>b, <1>t, Moved DEF SaveRegistry
<1>6. proc' = proc /\ setup' = setup /\ pidfile' = pidfile /\ sock' = sock
  BY DEF SaveRegistry
<1>7. OnlyServer(h)'  BY <1>3, <1>6 DEF OnlyServer
<1>8. Unused'  BY <1>1, <1>2, <1>3, <1>6, UnusedStays
<1>9. StepOK(h, t)'  BY <1>1, <1>5, <1>7, <1>8 DEF StepOK, WrittenOK, ServersOK
<1>10. proc'[h] \in Live => Booting(h)'
  <2>1. proc[h] \in Live => Found(h) \/ Booting(h)  BY DEF SharedInv, DaemonsOK
  <2> QED BY <2>1, <1>5, <1>6 DEF Found, Booting, BootSteps, Rendered
<1> QED BY <1>t, <1>1, <1>2, <1>3, <1>4, <1>6, <1>9, <1>10, CallOK DEF OnlyServer

\* An answer of its own server comes at the location everybody reads next.
LEMMA AnsweredByFound ==
    ASSUME Known, SharedInv, NEW h \in SharedHandles, NEW t \in Threads, at[h][t] = "ping",
           Reach(h) # None
    PROVE  Found(Reach(h)) /\ (proc[h] \in Live => Reach(h) = h)
<1>t. TypeOK /\ h \in Handles  BY SharedType DEF Known, CallInv
<1>1. Reach(h) \in SharedHandles /\ proc[Reach(h)] = "up"  BY SharedKnows
<1>2. proc[h] \in Live => started[h]  BY <1>t DEF Known, Once, FreshOK, Live
<1>3. started[h] => registry["main"] = Loc(h) /\ OnlyServer(h)
  <2>1. StepOK(h, t)  BY DEF SharedInv, StepsOK
  <2>2. life[h] = "building"  BY <1>t DEF Known, CallInv, HandleOK, BuilderOK, CtorSteps
  <2> QED BY <2>1, <2>2 DEF StepOK, WrittenOK, ServersOK
<1>4. Found(Reach(h)) \/ Booting(Reach(h))  BY <1>1 DEF SharedInv, DaemonsOK, Live
<1>5. CASE Booting(Reach(h))
  <2>1. Reach(h) = h /\ started[h]  BY <1>1, <1>5, BootingAlone DEF Live
  <2> QED BY <2>1, <1>1, <1>3, <1>5 DEF Booting, Found
<1>6. CASE Found(Reach(h))  BY <1>1, <1>2, <1>3, <1>6 DEF OnlyServer, Live
<1> QED BY <1>4, <1>5, <1>6

LEMMA AnswerShared ==
    ASSUME Orderly, Known, SharedInv,
           NEW h \in SharedHandles, NEW t \in Threads, PingAnswered(h, t)
    PROVE  SharedInv'
<1> USE DEF daemons, runfiles, object, conns
<1>t. TypeOK /\ h \in Handles /\ at[h][t] = "ping" /\ Reach(h) # None
  BY SharedType DEF Known, CallInv, PingAnswered
<1>1. Goto(h, t, "idle") /\ ServerSame  BY DEF PingAnswered, ServerSame
<1>2. /\ OthersStay(h) /\ life'[h] = "built" /\ link'[h] = Reach(h)
      /\ \A g \in Handles \ {h} : life'[g] = life[g]
  BY <1>t, SharedType DEF PingAnswered, Connect, TypeOK, OthersStay
<1>3. PlacesOK'  BY <1>2 DEF PingAnswered, SharedInv, PlacesOK
<1>4. at'[h][t] = "idle"  BY <1>1, <1>t, Moved
<1>5. StepOK(h, t)'  BY <1>4 DEF StepOK, WrittenOK, ServersOK, Exclusive
<1>6. Found(Reach(h)) /\ (proc[h] \in Live => Found(h))  BY <1>t, AnsweredByFound
<1> QED BY <1>t, <1>1, <1>2, <1>3, <1>5, <1>6, QuietCall

LEMMA TimeoutShared ==
    ASSUME Orderly, Known, SharedInv,
           NEW h \in SharedHandles, NEW t \in Threads, PingTimeout(h, t)
    PROVE  SharedInv'
<1> USE DEF daemons, runfiles, object, conns
<1>t. TypeOK /\ h \in Handles /\ at[h][t] = "ping"
  BY SharedType DEF Known, CallInv, PingTimeout
<1>b. life[h] = "building"  BY <1>t DEF Known, CallInv, HandleOK, BuilderOK, CtorSteps
<1>1. Goto(h, t, "term") /\ ServerSame  BY DEF PingTimeout, RollBack, ServerSame
<1>2. OthersStay(h) /\ ~Holding(h)' /\ PlacesOK' /\ life'[h] = "building"
  BY <1>b DEF PingTimeout, OthersStay, Holding, SharedInv, PlacesOK
<1>3. /\ at'[h][t] = "term" /\ started' = started
      /\ pid'[h][t] = IF started[h] THEN PidOf(h) ELSE None
  <2>1. at'[h][t] = "term"  BY <1>1, <1>t, Moved
  <2>2. pid' = [pid EXCEPT ![h][t] = IF started[h] THEN PidOf(h) ELSE None]
    BY DEF PingTimeout, RollBack
  <2>3. pid'[h][t] = IF started[h] THEN PidOf(h) ELSE None  BY <2>2, <1>t DEF TypeOK
  <2> QED BY <2>1, <2>3 DEF PingTimeout
<1>4. proc[h] \in Live => Found(h)
  <2>1. CASE Reach(h) # None  BY <2>1, <1>t, AnsweredByFound
  <2>2. CASE Reach(h) = None
    <3> SUFFICES ASSUME proc[h] \in Live PROVE FALSE  OBVIOUS
    <3>1. proc[h] = "up"  BY <2>2, <1>t, SafeFaults DEF PingTimeout, Live
    <3>2. started[h]  BY <1>t, <3>1 DEF Known, Once, FreshOK
    <3>3. socketFile[h] = Loc(h)  BY <1>t, <3>2 DEF SharedInv, StepsOK, StepOK, WrittenOK
    <3>4. sock[Loc(h)] = h  BY <3>1 DEF SharedInv, DaemonsOK, Found, Booting
    <3> QED BY <2>2, <3>1, <3>3, <3>4, SharedType DEF Reach, Up
  <2> QED BY <2>1, <2>2
<1>5. started[h] => OnlyServer(h) /\ Unused
  BY <1>t, <1>b DEF SharedInv, StepsOK, StepOK, ServersOK, Exclusive, Owner
<1>6. started[h] => PidOf(h) = IF proc[h] \in Live THEN h ELSE None
  <2>1. CASE proc[h] \in Live
    BY <1>4, <2>1, SharedType DEF Found, PidOf, Exists
  <2>2. CASE started[h] /\ proc[h] \notin Live
    <3>1. PidOf(h) # None => PidOf(h) \in SharedHandles /\ proc[PidOf(h)] \in Live \cup {"foreign"}
      BY SharedKnows DEF PidOf, Exists
    <3> QED BY <2>2, <3>1, <1>5, SharedType DEF OnlyServer, SharedInv, NoForeign
  <2> QED BY <2>1, <2>2
<1>7. started[h] => OnlyServer(h)' /\ OnlyServer(pid[h][t])' /\ Unused'
  <2> SUFFICES ASSUME started[h] PROVE OnlyServer(h)' /\ OnlyServer(pid[h][t])' /\ Unused'
    OBVIOUS
  <2>1. Unused'  BY <1>1, <1>2, <1>5, UnusedStays DEF ServerSame
  <2>2. OnlyServer(h)'  BY <1>1, <1>5 DEF OnlyServer, ServerSame
  <2>3. pid'[h][t] = IF proc[h] \in Live THEN h ELSE None  BY <1>3, <1>6
  <2>4. OnlyServer(pid[h][t])'  BY <1>1, <1>5, <2>3 DEF OnlyServer, ServerSame
  <2> QED BY <2>1, <2>2, <2>4
<1>8. StepOK(h, t)'
  <2>1. WrittenOK(h, t)'  BY <1>3 DEF WrittenOK
  <2>2. pid'[h][t] \in {None, h}  BY <1>3, <1>6
  <2>3. ServersOK(h, t)'  BY <1>2, <1>3, <1>7, <2>2 DEF ServersOK, Owner
  <2> QED BY <2>1, <2>3, <1>2, <1>3, <1>7 DEF StepOK, Exclusive, Owner
<1> QED BY <1>t, <1>1, <1>2, <1>4, <1>8, QuietCall

LEMMA UndoShared ==
    ASSUME Orderly, Known, SharedInv,
           NEW h \in SharedHandles, NEW t \in Threads, Undo(h, t)
    PROVE  SharedInv'
<1> USE DEF daemons, runfiles, object, conns
<1>t. TypeOK /\ h \in Handles /\ at[h][t] = "undo" /\ h \in SharedHandles
  BY SharedType DEF Known, CallInv, Undo
<1>b. life[h] = "building"  BY <1>t DEF Known, CallInv, HandleOK, BuilderOK, CtorSteps
<1>1. Goto(h, t, "idle") /\ proc' = proc /\ setup' = setup  BY DEF Undo, Back
<1>2. life' = [life EXCEPT ![h] = "failed"]  BY DEF Undo
<1>3. OthersStay(h) /\ ~Holding(h)'  BY <1>2, <1>t DEF Undo, OthersStay, Holding, TypeOK, SharedHandles
<1>4. registry'["main"] = IF started[h] THEN None ELSE registry["main"]
  BY <1>t, SharedType, MainFile DEF Undo, TypeOK, Files
<1>5. PlacesOK'  BY <1>2, <1>4, <1>t DEF Undo, SharedInv, PlacesOK, TypeOK
<1>6. at'[h][t] = "idle"  BY <1>1, <1>t, Moved
<1>7. StepOK(h, t)'  BY <1>6 DEF StepOK, WrittenOK, ServersOK, Exclusive
<1>8. NoForeign'  BY <1>1 DEF SharedInv, NoForeign
<1>9. CASE started[h]
  <2>1. NoServer  BY <1>9, <1>t DEF SharedInv, StepsOK, StepOK, ServersOK
  <2>2. Lossless => \A g \in SharedHandles : ~Holding(g)
    BY <1>9, <1>t, NobodyHolds DEF Exclusive, Owner
  <2>3. \A q \in SharedHandles : proc'[q] \notin Live  BY <2>1, <1>1 DEF NoServer
  <2> QED BY <2>2, <2>3, <1>t, <1>1, <1>3, <1>5, <1>7, <1>8, CallOK
<1>10. CASE ~started[h]
  <2>1. proc[h] \notin Live  BY <1>10, <1>t DEF Known, Once, FreshOK, Live
  <2>2. /\ pidfile'[Shared] = pidfile[Shared]
        /\ \A l \in Locs \ {h} : sock'[l] = sock[l]
    BY <1>t, SharedType DEF Undo, TypeOK
  <2>3. \A q \in SharedHandles : Found(q) => q # h /\ Loc(q) # h
    BY <2>1, SharedType DEF Found, Live
  <2>4. \A q \in SharedHandles : Found(q) => Found(q)'
    BY <2>2, <2>3, <1>1, <1>4, <1>10, SharedType DEF Found, Rendered
  <2>5. Lossless => \A g \in SharedHandles \ {h} : Holding(g) => Found(link[g])'
    <3>1. link' = link  BY DEF Undo
    <3> SUFFICES ASSUME Lossless, NEW g \in SharedHandles \ {h}, Holding(g) PROVE Found(link[g])'
      OBVIOUS
    <3>2. Found(link[g]) /\ link[g] \in SharedHandles  BY DEF SharedInv, MembersOK, Found
    <3> QED BY <3>1, <3>2, <2>4 DEF Found, Rendered
  <2> QED BY <2>1, <2>4, <2>5, <1>t, <1>1, <1>3, <1>5, <1>7, <1>8, CallOK
<1> QED BY <1>9, <1>10

LEMMA BindShared ==
    ASSUME Orderly, Known, SharedInv,
           NEW h \in SharedHandles, NEW t \in Threads, BindProcess(h, t)
    PROVE  SharedInv'
<1> USE DEF daemons, runfiles, object, conns
<1>t. TypeOK /\ h \in Handles /\ at[h][t] = "term"
  BY SharedType DEF Known, CallInv, BindProcess
<1> DEFINE p == pid[h][t]
<1>p. p # None => p \in SharedHandles  BY SharedKnows
<1>1. /\ ServerSame /\ UNCHANGED <<life, running, started, link, socketFile, pid>>
      /\ p # None => proc[p] # "foreign"
  BY <1>p, SharedType DEF BindProcess, ServerSame, SharedInv, NoForeign
<1>2. PICK s \in {"undo", "remove", "signal"} :
         /\ Goto(h, t, s)
         /\ s # "signal" => s = AfterTerm(h) /\ ~Exists(p)
  BY <1>1 DEF BindProcess, AfterTerm, Exists
<1>3. OthersStay(h) /\ at'[h][t] = s  BY <1>1, <1>2, <1>t, Moved DEF OthersStay
<1>4. ~Holding(h)'  BY <1>3 DEF Holding
<1>5. PlacesOK'  BY <1>1 DEF SharedInv, PlacesOK, ServerSame
<1>6. StepOK(h, t)  BY DEF SharedInv, StepsOK
<1>7. Owner(h) => OnlyServer(p) /\ Unused  BY <1>6, <1>t DEF StepOK, ServersOK, Exclusive
<1>8. Owner(h) /\ s # "signal" => NoServer
  <2>1. p # None => p \in Handles  BY <1>p, SharedType
  <2> QED BY <1>2, <1>7, <2>1, SharedType DEF OnlyServer, NoServer, Exists
<1>9. /\ Owner(h) => Owner(h)' /\ OnlyServer(pid[h][t])' /\ Unused'
      /\ Owner(h)' => Owner(h)
      /\ NoServer => NoServer'
      /\ OnlyServer(h) => OnlyServer(h)'
  <2>1. Unused => Unused'  BY <1>1, <1>2, <1>3, UnusedStays DEF ServerSame
  <2>2. OnlyServer(p) => OnlyServer(pid[h][t])'  BY <1>1 DEF OnlyServer, ServerSame
  <2>3. /\ NoServer => NoServer'
        /\ OnlyServer(h) => OnlyServer(h)'
        /\ Owner(h) <=> Owner(h)'
    BY <1>1 DEF NoServer, OnlyServer, Owner, ServerSame
  <2> QED BY <1>7, <2>1, <2>2, <2>3
<1>10. StepOK(h, t)'
  <2>1. WrittenOK(h, t)'  BY <1>2, <1>3 DEF WrittenOK
  <2>2. ServersOK(h, t)'
    <3>1. CASE s = "signal"
      <4>1. /\ life[h] = "building" => pid[h][t] \in {None, h}
            /\ life[h] = "building" /\ started[h] => OnlyServer(h)
        BY <1>6, <1>t DEF StepOK, ServersOK
      <4>2. pid' = pid /\ life' = life /\ started' = started  BY <1>1
      <4>3. life'[h] = "building" /\ started'[h] => OnlyServer(h)'  BY <4>1, <4>2, <1>9
      <4>4. Owner(h)' => OnlyServer(pid[h][t])'  BY <1>9
      <4> QED BY <1>3, <3>1, <4>1, <4>2, <4>3, <4>4 DEF ServersOK
    <3>2. CASE s # "signal"
      <4>1. s = "remove" => Owner(h)  BY <1>2, <3>2 DEF AfterTerm, Owner
      <4>2. s = "remove" \/ started'[h] => NoServer'
        <5>1. started'[h] => Owner(h)  BY <1>1 DEF Owner
        <5> QED BY <1>8, <1>9, <3>2, <4>1, <5>1
      <4> QED BY <1>2, <1>3, <3>2, <4>2 DEF ServersOK
    <3> QED BY <3>1, <3>2
  <2> QED BY <1>2, <1>3, <1>9, <2>1, <2>2 DEF StepOK, Exclusive, Owner, AfterTerm
<1>11. proc[h] \in Live => Found(h)  BY <1>t, AllFound DEF BootSteps
<1> QED BY <1>t, <1>1, <1>2, <1>3, <1>4, <1>5, <1>10, <1>11, QuietCall

LEMMA SignalShared ==
    ASSUME Orderly, Known, SharedInv, NoForeign',
           NEW h \in SharedHandles, NEW t \in Threads, Signal(h, t)
    PROVE  SharedInv'
<1> USE DEF daemons, runfiles, object, conns
<1>t. TypeOK /\ h \in Handles /\ at[h][t] = "signal"
  BY SharedType DEF Known, CallInv, Signal
<1> DEFINE p == pid[h][t]
<1>p. p \in SharedHandles  BY <1>t, SharedKnows, CallsType DEF Known, SignalsSomeone
<1>o. Owner(h)
  <2>1. HandleOK(h)  BY <1>t DEF Known, CallInv
  <2> QED BY <2>1, <1>t, <1>p, SharedType DEF HandleOK, RollbackOK, TermSteps, Owner
<1>1. OnlyServer(p)  BY <1>t, <1>o DEF SharedInv, StepsOK, StepOK, ServersOK
<1>2. NoServer'
  <2>1. \A q \in SharedHandles \ {p} : proc'[q] = proc[q]
    BY <1>t, SharedType DEF Signal, ExitOrderly, TypeOK
  <2>2. proc'[p] \notin Live  BY <1>t, <1>p, SharedType DEF Signal, ExitOrderly, TypeOK, Live
  <2> QED BY <1>1, <2>1, <2>2 DEF NoServer, OnlyServer
<1>3. PICK s \in {"undo", "remove"} : Goto(h, t, s)  BY DEF Signal, AfterTerm
<1>4. OthersStay(h) /\ at'[h][t] = s  BY <1>3, <1>t, Moved DEF Signal, OthersStay
<1>5. ~Holding(h)'  BY <1>4 DEF Holding
<1>6. PlacesOK'  BY DEF Signal, SharedInv, PlacesOK
<1>7. Lossless => \A g \in SharedHandles : ~Holding(g)  BY <1>t, <1>o, NobodyHolds DEF Exclusive
<1>8. Unused'
  <2>1. \A g \in SharedHandles : link'[g] # None => link'[g] \in SharedHandles
    BY SharedKnows DEF Signal
  <2> QED BY <2>1, <1>2 DEF Unused, Up, NoServer, Live
<1>9. StepOK(h, t)'  BY <1>2, <1>4, <1>8 DEF StepOK, WrittenOK, ServersOK, NoServer, OnlyServer
<1>10. \A q \in SharedHandles : proc'[q] \notin Live  BY <1>2 DEF NoServer
<1> QED BY <1>t, <1>3, <1>4, <1>5, <1>6, <1>7, <1>9, <1>10, CallOK

LEMMA BeginShared ==
    ASSUME Orderly, Known, SharedInv,
           NEW h \in SharedHandles, NEW t \in Threads, BeginClose(h, t)
    PROVE  SharedInv'
<1> USE DEF daemons, runfiles, object, conns
<1>t. TypeOK /\ h \in Handles /\ \A g \in Handles : Idle(g)
  BY SharedType DEF Known, CallInv, BeginClose, Quiet, Orderly
<1>1. ServerSame /\ OthersStay(h) /\ Goto(h, t, "lock")  BY DEF BeginClose, ServerSame, OthersStay
<1>2. PlacesOK'  BY DEF BeginClose, SharedInv, PlacesOK
<1>3. Holding(h)' => Holding(h)  BY <1>t DEF BeginClose, Holding, Idle
<1>4. Lossless /\ Holding(h)' => Found(link'[h])
  BY <1>3 DEF BeginClose, SharedInv, MembersOK
<1>5. at'[h][t] = "lock"  BY <1>1, <1>t, Moved
<1>6. StepOK(h, t)'  BY <1>5 DEF StepOK, WrittenOK, ServersOK, Exclusive
<1>7. proc[h] \in Live => Found(h)  BY <1>t, AllFound
<1> QED BY <1>t, <1>1, <1>2, <1>4, <1>6, <1>7, QuietCall

LEMMA AcquireShared ==
    ASSUME Orderly, Known, SharedInv,
           NEW h \in SharedHandles, NEW t \in Threads, Acquire(h, t)
    PROVE  SharedInv'
<1> USE DEF daemons, runfiles, object, conns
<1>t. TypeOK /\ h \in Handles /\ at[h][t] = "lock"
  BY SharedType DEF Known, CallInv, Acquire
<1>1. ServerSame /\ PlacesOK'  BY DEF Acquire, ServerSame, SharedInv, PlacesOK
<1>2. OthersStay(h)  BY <1>t, SharedType DEF Acquire, OthersStay, Disconnect, TypeOK
<1>3. PICK s \in {"idle", "count"} : Goto(h, t, s) /\ (s = "count" => link' = link)
  BY <1>t, SharedType DEF Acquire
<1>4. at'[h][t] = s /\ \A u \in Threads \ {t} : at'[h][u] = at[h][u]  BY <1>3, <1>t, Moved
<1>5. Holding(h)' => Holding(h) /\ link'[h] = link[h]
  BY <1>t, <1>3, <1>4 DEF Acquire, Retired, Holding
<1>6. Lossless /\ Holding(h)' => Found(link'[h])  BY <1>5 DEF SharedInv, MembersOK
<1>7. StepOK(h, t)'  BY <1>4 DEF StepOK, WrittenOK, ServersOK, Exclusive
<1>8. proc[h] \in Live => Found(h)  BY <1>t, AllFound DEF BootSteps
<1> QED BY <1>t, <1>1, <1>2, <1>3, <1>6, <1>7, <1>8, QuietCall

\* Whoever tears down does so for an instance that runs.
LEMMA Running ==
    ASSUME Known, NEW h \in Handles, NEW t \in Threads, at[h][t] \in CloseSteps
    PROVE  life[h] = "built" /\ running[h]
BY DEF Known, CallInv, HandleOK, TeardownOK, InTeardown

\* CLIENT LIST shows everybody who is connected.
LEMMA ConnsCount ==
    ASSUME IsFiniteSet(Handles), TypeOK, NEW g \in Handles, NEW h \in Handles, g # h,
           Reach(h) # None, link[g] = Reach(h)
    PROVE  ~(Conns(h) <= 1)
<1> DEFINE q == Reach(h)
           S == {x \in Handles : x = h \/ link[x] = q}
<1>1. q \in Handles  BY ReachType
<1>2. IsFiniteSet(S) /\ {g, h} \subseteq S  BY FS_Subset
<1>3. Cardinality({g, h}) <= Cardinality(S) /\ Cardinality(S) \in Nat
  BY <1>2, FS_Subset, FS_CardinalityType
<1>4. Cardinality({g, h}) = 2
  <2>1. IsFiniteSet({h}) /\ Cardinality({h}) = 1  BY FS_Singleton
  <2>2. {g, h} = {h} \cup {g} /\ g \notin {h}  OBVIOUS
  <2>3. Cardinality({h} \cup {g}) = Cardinality({h}) + 1  BY <2>1, <2>2, FS_AddElement
  <2> QED BY <2>1, <2>2, <2>3
<1>5. Cardinality(others[q]) \in Nat
  <2>1. IsFiniteSet(Handles \cup {None})  BY FS_AddElement
  <2>2. others[q] \subseteq Handles \cup {None}  BY <1>1 DEF TypeOK
  <2> QED BY <2>1, <2>2, FS_Subset, FS_CardinalityType
<1> QED BY <1>3, <1>4, <1>5 DEF Conns

\* The last client is: nobody else who counts on a server has one that is up.
LEMMA LastUnused ==
    ASSUME Orderly, Known, SharedInv, NEW h \in SharedHandles, NEW t \in Threads,
           at[h][t] = "count", LastClient(h)
    PROVE  \A g \in SharedHandles \ {h} : Holding(g) => ~Up(link[g])
<1>t. TypeOK /\ h \in Handles  BY SharedType DEF Known, CallInv
<1> SUFFICES ASSUME NEW g \in SharedHandles \ {h}, Up(link[g]) PROVE FALSE  OBVIOUS
<1>1. link[g] \in SharedHandles /\ proc[link[g]] = "up"  BY SharedKnows DEF Up
<1>2. Found(link[g])  BY <1>1, <1>t, AllFound DEF BootSteps, Live
<1>3. CASE Reach(h) = None
  <2>1. CASE Lossless
    <3>1. Holding(h)
      <4>1. \A u \in Threads : at[h][u] \in {"idle", "count"}
        BY <1>t DEF Known, OneActive
      <4> QED BY <4>1, <1>t, Running DEF Holding, CloseSteps
    <3>2. Found(link[h])  BY <2>1, <3>1 DEF SharedInv, MembersOK
    <3> QED BY <1>3, <3>2, SharedType DEF Found, Reach, Up
  <2>2. CASE ~Lossless
    <3>1. OneSocket  BY <2>2, SafeFaults
    <3>2. socketFile[h] = Shared /\ sock[Shared] = link[g]
      BY <1>1, <1>2, <3>1, OneLoc DEF SharedInv, PlacesOK, Found
    <3> QED BY <1>1, <1>3, <3>2, SharedType DEF Reach, Up
  <2> QED BY <2>1, <2>2
<1>4. CASE Reach(h) # None
  <2>1. Reach(h) \in SharedHandles /\ proc[Reach(h)] = "up"  BY <1>4, SharedKnows
  <2>2. link[g] = Reach(h)  BY <1>1, <2>1, TheServer DEF Live
  <2> QED BY <1>4, <1>t, <2>2, ConnsCount, SharedType DEF LastClient, Orderly
<1> QED BY <1>3, <1>4

LEMMA CountShared ==
    ASSUME Orderly, Known, SharedInv,
           NEW h \in SharedHandles, NEW t \in Threads, Count(h, t)
    PROVE  SharedInv'
<1> USE DEF daemons, runfiles, object, conns
<1>t. TypeOK /\ h \in Handles /\ at[h][t] = "count"
  BY SharedType DEF Known, CallInv, Count
<1>1. ServerSame /\ PlacesOK'  BY DEF Count, ServerSame, SharedInv, PlacesOK
<1>2. OthersStay(h)  BY <1>t, SharedType DEF Count, OthersStay, Connect, TypeOK
<1>3. PICK s \in {"capture", "leave"} : Goto(h, t, s) /\ (s = "capture" => LastClient(h))
  BY DEF Count
<1>4. at'[h][t] = s  BY <1>3, <1>t, Moved
<1>5. ~Holding(h)'  BY <1>4 DEF Holding
<1>6. LastClient(h) => Unused'
  <2> SUFFICES ASSUME LastClient(h), NEW g \in SharedHandles, Holding(g)' PROVE ~Up(link[g])'
    BY DEF Unused
  <2>1. g # h /\ Holding(g) /\ link'[g] = link[g]  BY <1>t, <1>2, <1>3, <1>5, OthersHold
  <2>2. ~Up(link[g])  BY <1>t, <2>1, LastUnused
  <2> QED BY <2>1, <2>2, <1>1 DEF Up, ServerSame
<1>7. StepOK(h, t)'  BY <1>3, <1>4, <1>6 DEF StepOK, WrittenOK, ServersOK, Exclusive
<1>8. proc[h] \in Live => Found(h)  BY <1>t, AllFound DEF BootSteps
<1> QED BY <1>t, <1>1, <1>2, <1>3, <1>5, <1>7, <1>8, QuietCall

\* A close that raises keeps the instance, without its connection.
LEMMA CountFailsShared ==
    ASSUME Orderly, Known, SharedInv,
           NEW h \in SharedHandles, NEW t \in Threads, CountFails(h, t)
    PROVE  SharedInv'
<1> USE DEF daemons, runfiles, object, conns
<1>t. TypeOK /\ h \in Handles /\ at[h][t] = "count"
  BY SharedType DEF Known, CallInv, CountFails
<1>1. ServerSame /\ PlacesOK' /\ Goto(h, t, "idle")
  BY DEF CountFails, Return, Back, ServerSame, SharedInv, PlacesOK
<1>2. OthersStay(h)
  BY <1>t, SharedType DEF CountFails, Return, OthersStay, Disconnect, TypeOK
<1>3. ~Lossless  BY DEF CountFails, Lossless, LossFaults
<1>4. at'[h][t] = "idle"  BY <1>1, <1>t, Moved
<1>5. StepOK(h, t)'  BY <1>4 DEF StepOK, WrittenOK, ServersOK, Exclusive
<1>6. proc[h] \in Live => Found(h)  BY <1>t, AllFound DEF BootSteps
<1> QED BY <1>t, <1>1, <1>2, <1>3, <1>5, <1>6, QuietCall

LEMMA LeaveShared ==
    ASSUME Orderly, Known, SharedInv,
           NEW h \in SharedHandles, NEW t \in Threads, Leave(h, t)
    PROVE  SharedInv'
<1> USE DEF daemons, runfiles, object, conns
<1>t. TypeOK /\ h \in Handles /\ at[h][t] = "leave"
  BY SharedType DEF Known, CallInv, Leave
<1>1. ServerSame /\ PlacesOK' /\ Goto(h, t, "idle")
  BY DEF Leave, Return, Back, ServerSame, SharedInv, PlacesOK
<1>2. OthersStay(h)
  BY <1>t, SharedType DEF Leave, Return, OthersStay, Disconnect, TypeOK
<1>3. ~Holding(h)'  BY <1>t DEF Leave, Holding, TypeOK
<1>4. at'[h][t] = "idle"  BY <1>1, <1>t, Moved
<1>5. StepOK(h, t)'  BY <1>4 DEF StepOK, WrittenOK, ServersOK, Exclusive
<1>6. proc[h] \in Live => Found(h)  BY <1>t, AllFound DEF BootSteps
<1> QED BY <1>t, <1>1, <1>2, <1>3, <1>5, <1>6, QuietCall

LEMMA CaptureShared ==
    ASSUME Orderly, Known, SharedInv,
           NEW h \in SharedHandles, NEW t \in Threads, CapturePid(h, t)
    PROVE  SharedInv'
<1> USE DEF daemons, runfiles, object, conns
<1>t. TypeOK /\ h \in Handles /\ at[h][t] = "capture"
  BY SharedType DEF Known, CallInv, CapturePid
<1>b. life[h] = "built"  BY <1>t, Running DEF CloseSteps
<1>1. ServerSame /\ PlacesOK' /\ Goto(h, t, "shutdown") /\ OthersStay(h) /\ life' = life
  BY DEF CapturePid, ServerSame, SharedInv, PlacesOK, OthersStay
<1>2. at'[h][t] = "shutdown"  BY <1>1, <1>t, Moved
<1>3. pid'[h][t] = PidOf(h)
  <2>1. pid' = [pid EXCEPT ![h][t] = PidOf(h)]  BY DEF CapturePid, CapturedPid
  <2> QED BY <2>1, <1>t DEF TypeOK
<1>4. \A q \in SharedHandles : proc[q] \in Live => Found(q)  BY <1>t, AllFound DEF BootSteps
<1>5. OnlyServer(PidOf(h))  BY <1>4, SharedType DEF OnlyServer, Found, PidOf, Exists
<1>6. OnlyServer(pid[h][t])'  BY <1>1, <1>3, <1>5 DEF OnlyServer, ServerSame
<1>7. Unused'
  <2>1. Unused  BY <1>t DEF SharedInv, StepsOK, StepOK, Exclusive
  <2> QED BY <2>1, <1>1, UnusedStays DEF ServerSame
<1>8. StepOK(h, t)'  BY <1>1, <1>2, <1>b, <1>6, <1>7 DEF StepOK, WrittenOK, ServersOK
<1>9. ~Holding(h)'  BY <1>2 DEF Holding
<1> QED BY <1>t, <1>1, <1>4, <1>8, <1>9, QuietCall

LEMMA ShutdownShared ==
    ASSUME Orderly, Known, SharedInv, NoForeign',
           NEW h \in SharedHandles, NEW t \in Threads, Shutdown(h, t)
    PROVE  SharedInv'
<1> USE DEF daemons, runfiles, object, conns
<1>t. TypeOK /\ h \in Handles /\ at[h][t] = "shutdown"
  BY SharedType DEF Known, CallInv, Shutdown
<1>b. life[h] = "built"  BY <1>t, Running DEF CloseSteps
<1>1. PlacesOK' /\ Goto(h, t, "term") /\ OthersStay(h) /\ life' = life /\ pid' = pid
  BY DEF Shutdown, SharedInv, PlacesOK, OthersStay
<1>2. at'[h][t] = "term"  BY <1>1, <1>t, Moved
<1>3. ~Holding(h)'  BY <1>2 DEF Holding
<1>4. OnlyServer(pid[h][t]) /\ Unused
  BY <1>t, <1>b DEF SharedInv, StepsOK, StepOK, ServersOK, Exclusive, Owner
<1>5. pid[h][t] # None => pid[h][t] \in SharedHandles  BY SharedKnows
<1>6. CASE ServerSame
  <2>1. OnlyServer(pid[h][t])' /\ Unused'
    BY <1>1, <1>4, <1>6, UnusedStays DEF OnlyServer, ServerSame
  <2>2. life[h] # "building"  BY <1>b
  <2>3. StepOK(h, t)'  BY <1>1, <1>2, <2>1, <2>2 DEF StepOK, WrittenOK, ServersOK
  <2>4. proc[h] \in Live => Found(h)  BY <1>t, AllFound DEF BootSteps
  <2> QED BY <1>t, <1>1, <1>3, <1>6, <2>3, <2>4, QuietCall
<1>7. CASE Reach(h) # None /\ ExitOrderly(Reach(h), Saves(h))
  <2>1. Reach(h) \in SharedHandles /\ proc[Reach(h)] \in Live  BY <1>7, SharedKnows DEF Live
  <2>2. Reach(h) = pid[h][t]  BY <1>4, <2>1 DEF OnlyServer
  <2>3. NoServer'
    BY <1>4, <1>7, <1>t, <2>1, <2>2, SharedType DEF ExitOrderly, TypeOK, OnlyServer, NoServer, Live
  <2>4. Unused'
    <3>1. \A g \in SharedHandles : link'[g] # None => link'[g] \in SharedHandles
      BY SharedKnows DEF Shutdown
    <3> QED BY <3>1, <2>3 DEF Unused, Up, NoServer, Live
  <2>5. life[h] # "building"  BY <1>b
  <2>6. StepOK(h, t)'
    BY <1>1, <1>2, <2>3, <2>4, <2>5 DEF StepOK, WrittenOK, ServersOK, NoServer, OnlyServer
  <2>7. Lossless => \A g \in SharedHandles : ~Holding(g)  BY <1>t, NobodyHolds DEF Exclusive
  <2>8. \A q \in SharedHandles : proc'[q] \notin Live  BY <2>3 DEF NoServer
  <2> QED BY <1>t, <1>1, <1>3, <2>6, <2>7, <2>8, CallOK
<1>8. ServerSame \/ (Reach(h) # None /\ ExitOrderly(Reach(h), Saves(h)))
  BY DEF Shutdown, ServerSame
<1> QED BY <1>6, <1>7, <1>8

LEMMA RemoveShared ==
    ASSUME Orderly, Known, SharedInv,
           NEW h \in SharedHandles, NEW t \in Threads, RemoveFiles(h, t)
    PROVE  SharedInv'
<1> USE DEF daemons, runfiles, object, conns
<1>t. TypeOK /\ h \in Handles /\ at[h][t] = "remove"
  BY SharedType DEF Known, CallInv, RemoveFiles
<1>1. Goto(h, t, "idle") /\ proc' = proc  BY DEF RemoveFiles, Return, Back
<1>2. OthersStay(h)
  BY <1>t, SharedType DEF RemoveFiles, Return, OthersStay, Disconnect, TypeOK
<1>3. ~Holding(h)'  BY <1>t DEF RemoveFiles, Holding, TypeOK
<1>4. at'[h][t] = "idle"  BY <1>1, <1>t, Moved
<1>5. StepOK(h, t)'  BY <1>4 DEF StepOK, WrittenOK, ServersOK, Exclusive
<1>6. NoServer  BY <1>t DEF SharedInv, StepsOK, StepOK, ServersOK
<1>7. \A q \in SharedHandles : proc'[q] \notin Live  BY <1>1, <1>6 DEF NoServer
<1>8. NoForeign'  BY <1>1 DEF SharedInv, NoForeign
<1>9. Lossless => \A g \in SharedHandles : ~Holding(g)  BY <1>t, NobodyHolds DEF Exclusive
<1>10. PlacesOK'
  <2>1. registry'["main"] = None  BY <1>t, SharedType, MainFile DEF RemoveFiles, TypeOK, Files
  <2> QED BY <2>1 DEF RemoveFiles, SharedInv, PlacesOK
<1> QED BY <1>t, <1>1, <1>2, <1>3, <1>5, <1>7, <1>8, <1>9, <1>10, CallOK

-----------------------------------------------------------------------------
(* Daemons, and the program around the instances.                          *)

\* The only server gets on, or dies.
LEMMA DaemonMoves ==
    ASSUME Known, SharedInv, NEW q \in SharedHandles, OnlyServer(q), NoForeign',
           proc[q] \in Live, \A r \in SharedHandles \ {q} : proc'[r] = proc[r],
           UNCHANGED <<setup, conf, registry, object, calls, link>>,
           proc'[q] \in Live => Booting(q)',
           proc'[q] = "up" => \A g \in SharedHandles : link[g] # q,
           Lossless => \A g \in SharedHandles : ~Holding(g)
    PROVE  SharedInv'
<1> USE DEF object, calls
<1>1. \A r \in SharedHandles \ {q} : proc'[r] \notin Live  BY DEF OnlyServer
<1>2. DaemonsOK'  BY <1>1 DEF DaemonsOK
<1>3. MembersOK'
  <2>1. \A g \in SharedHandles : Holding(g)' => Holding(g)  BY DEF Holding
  <2> QED BY <2>1 DEF MembersOK
<1>4. PlacesOK'  BY DEF SharedInv, PlacesOK
<1>5. \A p : OnlyServer(p) => p = q  BY DEF OnlyServer
<1>6. OnlyServer(q)'  BY <1>1 DEF OnlyServer
<1>7. ~NoServer  BY DEF NoServer
<1>8. Unused => Unused'
  <2>1. \A g \in SharedHandles : /\ Holding(g)' => Holding(g)
                                 /\ link[g] # None => link[g] \in SharedHandles
    BY SharedKnows DEF Holding
  <2>2. \A g \in SharedHandles : Up(link[g])' => Up(link[g])  BY <1>1, <2>1 DEF Up, Live
  <2> QED BY <2>1, <2>2 DEF Unused
<1>9. StepsOK'
  <2> SUFFICES ASSUME NEW h \in SharedHandles, NEW t \in Threads PROVE StepOK(h, t)'
    BY DEF StepsOK
  <2>1. StepOK(h, t)  BY DEF SharedInv, StepsOK
  <2>2. WrittenOK(h, t)'  BY <2>1 DEF StepOK, WrittenOK, Rendered
  <2>3. OnlyServer(h) => OnlyServer(h)'  BY <1>5, <1>6
  <2>4. OnlyServer(pid[h][t]) => OnlyServer(pid[h][t])'
    <3>1. OnlyServer(pid[h][t]) => pid[h][t] = q  BY <1>5
    <3> QED BY <3>1, <1>6 DEF OnlyServer
  <2>5. ServersOK(h, t)'  BY <2>1, <2>3, <2>4, <1>7 DEF StepOK, ServersOK, Owner
  <2>6. Exclusive(h, t)' => Unused'  BY <2>1, <1>8 DEF StepOK, Exclusive, Owner
  <2> QED BY <2>2, <2>5, <2>6 DEF StepOK
<1> QED BY <1>2, <1>3, <1>4, <1>9 DEF SharedInv

\* While a server boots, nobody counts on another one.
LEMMA BootingNobodyHolds ==
    ASSUME Known, SharedInv, Lossless, NEW q \in SharedHandles, proc[q] \in Live, Booting(q)
    PROVE  \A g \in SharedHandles : ~Holding(g)
BY BootingAlone, SharedType DEF SharedInv, MembersOK, Found, Unused, Up

LEMMA BootShared ==
    ASSUME Orderly, Known, SharedInv, NoForeign', NEW q \in SharedHandles, Boot(q)
    PROVE  SharedInv'
<1> USE DEF runfiles, object, calls, conns
<1>t. TypeOK /\ q \in Handles /\ Dir(q) = Shared /\ q \notin Isolated /\ Shared \in Dirs
  BY SharedType DEF Known, CallInv
<1>1. proc[q] \in {"boot", "named"}  BY DEF Boot, WritePidfile, Serve, BindFails
<1>2. proc[q] \in Live /\ Booting(q)  BY <1>1 DEF SharedInv, DaemonsOK, Found, Live
<1>3. OnlyServer(q)  BY <1>2, BootingAlone
<1>4. Lossless => \A g \in SharedHandles : ~Holding(g)  BY <1>2, BootingNobodyHolds
<1>5. CASE WritePidfile(q)
  <2>1. proc' = [proc EXCEPT ![q] = "named"] /\ pidfile'[Shared] = q
    BY <1>5, <1>t DEF WritePidfile, TypeOK
  <2>2. proc'[q] = "named" /\ \A r \in SharedHandles \ {q} : proc'[r] = proc[r]
    BY <2>1, <1>t, SharedType DEF TypeOK
  <2>3. UNCHANGED <<setup, conf, registry, object, calls, link>>  BY <1>5 DEF WritePidfile
  <2>4. Booting(q)'  BY <1>2, <2>1, <2>2, <2>3 DEF Booting, Rendered
  <2> QED BY <1>2, <1>3, <1>4, <2>2, <2>3, <2>4, DaemonMoves
<1>6. CASE Serve(q)
  <2>1. proc[q] = "named" /\ proc' = [proc EXCEPT ![q] = "up"] /\ pidfile' = pidfile  BY <1>6 DEF Serve
  <2>2. proc'[q] = "up" /\ \A r \in SharedHandles \ {q} : proc'[r] = proc[r]
    BY <2>1, <1>t, SharedType DEF TypeOK
  <2>3. sock'[Loc(q)] = q  BY <1>2, <1>6, <1>t, DirType DEF Serve, TypeOK, Booting, Rendered
  <2>4. UNCHANGED <<setup, conf, registry, object, calls, link>>  BY <1>6 DEF Serve
  <2>5. Booting(q)'  BY <1>2, <2>1, <2>2, <2>3, <2>4 DEF Booting, Rendered
  <2>6. \A g \in SharedHandles : link[g] # q
    BY <2>1, SharedType DEF Known, Once, LinksUsed
  <2> QED BY <1>2, <1>3, <1>4, <2>2, <2>4, <2>5, <2>6, DaemonMoves
<1>7. CASE BindFails(q)
  <2>1. proc'[q] = "dead" /\ \A r \in SharedHandles \ {q} : proc'[r] = proc[r]
    BY <1>7, <1>t, SharedType DEF BindFails, TypeOK
  <2>2. UNCHANGED <<setup, conf, registry, object, calls, link>>  BY <1>7 DEF BindFails
  <2>3. proc'[q] \notin Live  BY <2>1 DEF Live
  <2> QED BY <1>2, <1>3, <1>4, <2>1, <2>2, <2>3, DaemonMoves
<1> QED BY <1>5, <1>6, <1>7 DEF Boot

LEMMA CrashShared ==
    ASSUME Orderly, Known, SharedInv, NoForeign', NEW q \in SharedHandles, Crash(q)
    PROVE  SharedInv'
<1> USE DEF runfiles, object, calls, conns
<1>t. TypeOK /\ q \in Handles  BY SharedType DEF Known, CallInv
<1>1. proc[q] \in Live /\ ~Lossless  BY DEF Crash, Lossless, LossFaults
<1>2. OnlyServer(q)  BY <1>1, TheServer DEF OnlyServer
<1>3. proc'[q] = "dead" /\ \A r \in SharedHandles \ {q} : proc'[r] = proc[r]
  BY <1>t, SharedType DEF Crash, TypeOK
<1>4. UNCHANGED <<setup, conf, registry, object, calls, link>>  BY DEF Crash
<1>5. proc'[q] \notin Live  BY <1>3 DEF Live
<1> QED BY <1>1, <1>2, <1>3, <1>4, <1>5, DaemonMoves

\* Commands, between the calls.
LEMMA WriteShared ==
    ASSUME Orderly, Known, SharedInv, NEW h \in SharedHandles, Write(h)
    PROVE  SharedInv'
<1> USE DEF runfiles, dirs, object, calls, conns
<1>t. TypeOK /\ h \in Handles /\ \A g \in Handles : Idle(g)
  BY SharedType DEF Known, CallInv, Write, Quiet, Orderly
<1>1. /\ UNCHANGED <<proc, setup, runfiles, object, calls>>
      /\ Reach(h) # None /\ link' = [link EXCEPT ![h] = Reach(h)]
  BY DEF Write, Connect
<1>2. \A q \in SharedHandles : Found(q) => Found(q)'  BY <1>1 DEF Found, Rendered
<1>3. \A q \in SharedHandles : Booting(q) => Booting(q)'  BY <1>1 DEF Booting, Rendered
<1>4. DaemonsOK'  BY <1>1, <1>2, <1>3 DEF SharedInv, DaemonsOK
<1>5. Reach(h) \in SharedHandles /\ Found(Reach(h))
  <2>1. Reach(h) \in SharedHandles /\ proc[Reach(h)] \in Live  BY <1>1, SharedKnows DEF Live
  <2> QED BY <1>t, <2>1, Settled, SharedType DEF Idle, BootSteps
<1>6. MembersOK'
  <2> SUFFICES ASSUME Lossless, NEW g \in SharedHandles, Holding(g)' PROVE Found(link[g])'
    BY DEF MembersOK
  <2>1. Holding(g)  BY <1>1 DEF Holding
  <2>2. Found(link'[g])
    BY <1>1, <1>5, <1>t, <2>1, SharedType DEF SharedInv, MembersOK, TypeOK
  <2> QED BY <2>2, <1>1 DEF Found, Rendered
<1>7. StepsOK'
  <2>1. \A g \in SharedHandles, u \in Threads : at'[g][u] = "idle"
    BY <1>1, <1>t, SharedType DEF Idle
  <2> QED BY <2>1 DEF StepsOK, StepOK, WrittenOK, ServersOK, Exclusive
<1>8. PlacesOK' /\ NoForeign'  BY <1>1 DEF SharedInv, PlacesOK, NoForeign
<1> QED BY <1>4, <1>6, <1>7, <1>8 DEF SharedInv

\* A client is killed between its calls.
LEMMA KillShared ==
    ASSUME Orderly, Known, SharedInv, NEW h \in SharedHandles, ClientCrash(h)
    PROVE  SharedInv'
<1> USE DEF daemons, runfiles, dirs, object, calls, conns
<1>t. TypeOK /\ h \in Handles /\ Idle(h)
  BY SharedType, SafeFaults DEF Known, CallInv, ClientCrash
<1>1. /\ at' = at
      /\ UNCHANGED <<proc, setup, runfiles, started, socketFile>>
  BY <1>t DEF ClientCrash, Idle, TypeOK
<1>2. /\ \A g \in SharedHandles \ {h} :
            /\ life'[g] = life[g] /\ running'[g] = running[g] /\ link'[g] = link[g]
            /\ pid'[g] = pid[g]
      /\ life'[h] = "crashed"
  BY <1>t, SharedType DEF ClientCrash, Disconnect, TypeOK
<1>3. \A g \in SharedHandles : Holding(g)' => Holding(g) /\ g # h /\ link'[g] = link[g]
  BY <1>1, <1>2 DEF Holding
<1>4. \A q \in SharedHandles : Found(q) => Found(q)'  BY <1>1 DEF Found, Rendered
<1>5. \A q \in SharedHandles : Booting(q) => Booting(q)'
  <2>1. ~Booting(h)  BY <1>t DEF Booting, Idle, BootSteps
  <2> QED BY <2>1, <1>1, <1>2 DEF Booting, Rendered
<1>6. DaemonsOK'  BY <1>1, <1>4, <1>5 DEF SharedInv, DaemonsOK
<1>7. MembersOK'
  <2> SUFFICES ASSUME Lossless, NEW g \in SharedHandles, Holding(g)' PROVE Found(link[g])'
    BY DEF MembersOK
  <2>1. Found(link'[g])  BY <1>3 DEF SharedInv, MembersOK
  <2> QED BY <2>1, <1>1 DEF Found, Rendered
<1>8. Unused => Unused'  BY <1>1, <1>3 DEF Unused, Up
<1>9. StepsOK'
  <2> SUFFICES ASSUME NEW g \in SharedHandles, NEW t \in Threads PROVE StepOK(g, t)'
    BY DEF StepsOK
  <2>1. CASE at[g][t] = "idle"
    BY <2>1, <1>1 DEF StepOK, WrittenOK, ServersOK, Exclusive
  <2>2. CASE at[g][t] # "idle"
    <3>1. g # h  BY <2>2, <1>t DEF Idle
    <3>2. StepOK(g, t)  BY DEF SharedInv, StepsOK
    <3>3. WrittenOK(g, t)'  BY <3>2, <1>1 DEF StepOK, WrittenOK, Rendered
    <3>4. /\ NoServer => NoServer'
          /\ \A p : OnlyServer(p) => OnlyServer(p)'
      BY <1>1 DEF NoServer, OnlyServer
    <3>5. ServersOK(g, t)'
      <4>1. OnlyServer(pid[g][t]) => OnlyServer(pid[g][t])'  BY <1>1, <1>2, <3>1 DEF OnlyServer
      <4> QED BY <1>1, <1>2, <3>1, <3>2, <3>4, <4>1 DEF StepOK, ServersOK, Owner
    <3>6. Exclusive(g, t)' => Unused'
      BY <1>1, <1>2, <1>8, <3>1, <3>2 DEF StepOK, Exclusive, Owner
    <3> QED BY <3>3, <3>5, <3>6 DEF StepOK
  <2> QED BY <2>1, <2>2
<1>10. PlacesOK' /\ NoForeign'  BY <1>1, <1>2 DEF SharedInv, PlacesOK, NoForeign
<1> QED BY <1>6, <1>7, <1>9, <1>10 DEF SharedInv

-----------------------------------------------------------------------------
(* The invariant holds.                                                    *)

LEMMA SharedInit == ASSUME Orderly, Init PROVE SharedInv
<1>1. DaemonsOK /\ MembersOK /\ NoForeign
  BY SharedType DEF Init, DaemonsOK, MembersOK, Holding, NoForeign, Live
<1>2. StepsOK  BY SharedType DEF Init, StepsOK, StepOK, WrittenOK, ServersOK, Exclusive
<1>3. PlacesOK  BY SharedType, OneLoc DEF Init, PlacesOK, Files
<1> QED BY <1>1, <1>2, <1>3 DEF SharedInv

LEMMA SharedStep ==
    ASSUME Orderly, Known, SharedInv, [Next]_vars PROVE SharedInv'
<1> USE DEF daemons, runfiles, object, calls, conns
<1>f. NoForeign'  BY ForeignStep DEF SharedInv
<1>0. ASSUME SharedSame PROVE SharedInv'  BY <1>0, <1>f, SameOK
<1>1. ASSUME NEW h \in SharedHandles, NEW t \in Threads,
             Open(h, t) \/ BeginClose(h, t) \/ Step(h, t) \/ Interrupt(h, t)
      PROVE  SharedInv'
  <2>1. ~SignalForeign(h, t)
    BY DEF SharedInv, StepsOK, StepOK, ServersOK, SignalForeign
  <2>2. ~Interrupt(h, t)  BY SafeFaults DEF Interrupt
  <2>3. CASE \/ Open(h, t) \/ LoadRegistry(h, t) \/ ProbePid(h, t) \/ WriteConf(h, t)
             \/ Launch(h, t) \/ TruncateRegistry(h, t) \/ SaveRegistry(h, t)
             \/ PingAnswered(h, t) \/ PingTimeout(h, t) \/ Undo(h, t)
    BY <2>3, <1>f, OpenShared, LoadShared, ProbeShared, ConfShared, LaunchShared, TruncateShared,
       SaveShared, AnswerShared, TimeoutShared, UndoShared
  <2>4. CASE \/ BindProcess(h, t) \/ Signal(h, t) \/ BeginClose(h, t) \/ Acquire(h, t)
             \/ Count(h, t) \/ CountFails(h, t) \/ Leave(h, t) \/ CapturePid(h, t)
             \/ Shutdown(h, t) \/ RemoveFiles(h, t)
    BY <2>4, <1>f, BindShared, SignalShared, BeginShared, AcquireShared, CountShared,
       CountFailsShared, LeaveShared, CaptureShared, ShutdownShared, RemoveShared
  <2> QED BY <1>1, <2>1, <2>2, <2>3, <2>4 DEF Step
<1>2. ASSUME NEW h \in SharedHandles, Boot(h) \/ Crash(h) \/ Write(h) \/ ClientCrash(h)
      PROVE  SharedInv'
  BY <1>2, <1>f, BootShared, CrashShared, WriteShared, KillShared
<1>3. ASSUME NEW h \in SharedHandles, ReusePid(h) \/ Grow(h) \/ Visit(h) PROVE SharedInv'
  BY <1>3, <1>0, SafeFaults DEF ReusePid, Grow, Visit, SharedSame
<1>4. ASSUME NEW h \in Isolated, NEW t \in Threads,
             Open(h, t) \/ BeginClose(h, t) \/ Step(h, t) \/ Interrupt(h, t)
      PROVE  SharedInv'
  BY <1>4, <1>0, PrivateCalls
<1>5. ASSUME NEW h \in Isolated,
             Boot(h) \/ Crash(h) \/ ReusePid(h) \/ Write(h) \/ Grow(h) \/ Visit(h) \/ ClientCrash(h)
      PROVE  SharedInv'
  BY <1>5, <1>0, PrivateDaemons
<1>6. CASE UNCHANGED vars  BY <1>6, <1>0 DEF vars, SharedSame
<1> QED BY <1>1, <1>2, <1>3, <1>4, <1>5, <1>6 DEF Next, SharedHandles

LEMMA SharedCorrect == ASSUME Orderly PROVE Spec => []SharedInv
<1>1. Known /\ SharedInv /\ [Next]_vars => SharedInv'  BY SharedStep
<1>2. Init => SharedInv  BY SharedInit
<1>3. Spec => []Known  BY AllKnown DEF Orderly
<1> QED BY <1>1, <1>2, <1>3, PTL DEF Spec

LEMMA PatientToo == ASSUME Orderly PROVE Spec => []PrivateInv
BY SafeFaults, PrivateCared DEF Patient

-----------------------------------------------------------------------------
(* Part 4: the server in use.                                              *)

\* Instances given the same path attach to one server: there are never two, booting
\* or serving, whatever of the survivable faults happens.
THEOREM OneServer == ASSUME Orderly PROVE Spec => []OneDaemon
<1>1. Known /\ SharedInv => OneDaemon  BY TheServer DEF OneDaemon
<1>2. Spec => []Known  BY AllKnown DEF Orderly
<1> QED BY <1>1, <1>2, SharedCorrect, PTL

\* A startup that fails signals the daemon it has launched, never a server it has
\* found: when it gives up, either its own daemon is the one in the pidfile, or
\* none is.
THEOREM RollbackSpares == ASSUME Orderly PROVE Spec => []RollbackSparesOthers
<1>1. Known /\ SharedInv => RollbackSparesOthers
  <2> SUFFICES ASSUME Known, SharedInv, NEW h \in Handles, NEW t \in Threads,
                      life[h] = "building", at[h][t] \in {"signal", "signalForeign"}
               PROVE  pid[h][t] = h
    BY DEF RollbackSparesOthers
  <2>1. pid[h][t] # None  BY CallsType DEF Known, SignalsSomeone
  <2>2. CASE h \in Isolated  BY <2>1, <2>2, OwnFiles DEF Known, CallInv
  <2>3. CASE h \in SharedHandles
    BY <2>1, <2>3 DEF SharedInv, StepsOK, StepOK, ServersOK
  <2> QED BY <2>2, <2>3 DEF SharedHandles
<1>2. Spec => []Known  BY AllKnown DEF Orderly
<1> QED BY <1>1, <1>2, SharedCorrect, PTL

\* Whoever removes the runtime files, of a shared or of a private directory, does
\* so when every server of that directory has exited.
THEOREM FilesUnused == ASSUME Orderly PROVE Spec => []RemovesUnused
<1>1. Known /\ SharedInv /\ PrivateInv => RemovesUnused
  <2> SUFFICES ASSUME Known, SharedInv, PrivateInv, NEW h \in Handles, NEW t \in Threads,
                      at[h][t] = "remove", NEW q \in Handles, Dir(q) = Dir(h)
               PROVE  proc[q] \notin Live
    BY DEF RemovesUnused
  <2>1. CASE h \in SharedHandles
    <3>1. q \in SharedHandles  BY <2>1, SharedType
    <3> QED BY <2>1, <3>1 DEF SharedInv, StepsOK, StepOK, ServersOK, NoServer
  <2>2. CASE h \in Isolated
    <3>1. q = h  BY <2>2, NamesAssumption DEF Dir
    <3>2. life[h] = "built"  BY Running DEF CloseSteps
    <3> QED BY <2>2, <3>1, <3>2 DEF PrivateInv, PrivateOK, DaemonCared, Cared
  <2> QED BY <2>1, <2>2 DEF SharedHandles
<1>2. Spec => []Known  BY AllKnown DEF Orderly
<1> QED BY <1>1, <1>2, SharedCorrect, PatientToo, PTL

\* An instance in use counts on the server.
LEMMA AttendedHolds ==
    ASSUME Known, NEW h \in Handles, Attended(h) PROVE Holding(h)
<1>1. TypeOK /\ HandleOK(h)  BY DEF Known, CallInv
<1> QED BY <1>1
  DEF Attended, InTeardown, Holding, HandleOK, BuilderOK, TypeOK, Steps, CtorSteps, TermSteps, CloseSteps

\* Shared servers remain available until their last client closes: unless a daemon
\* is killed or a CLIENT LIST times out, an open instance reaches a server, and the
\* registry and the pidfile lead the next one to the same.
THEOREM AlwaysServed == ASSUME Orderly, Lossless PROVE Spec => []Served
<1>1. Known /\ SharedInv /\ PrivateInv => Served
  <2> SUFFICES ASSUME Known, SharedInv, PrivateInv, NEW h \in Handles, Attended(h)
               PROVE  /\ Reach(h) # None
                      /\ h \notin Isolated => /\ registry[File(h)] = setup[Reach(h)].sock
                                              /\ pidfile[Shared] = Reach(h)
    BY DEF Served
  <2>1. CASE h \in SharedHandles
    <3>1. Found(link[h])  BY <2>1, AttendedHolds DEF SharedInv, MembersOK
    <3>2. Reach(h) = link[h] /\ Reach(h) # None  BY <3>1, SharedType DEF Found, Reach, Up
    <3>3. setup[link[h]].sock = Loc(link[h])  BY <3>1 DEF Found, Rendered
    <3> QED BY <3>1, <3>2, <3>3, MainFile DEF Found
  <2>2. CASE h \in Isolated
    <3>1. link[h] = h /\ proc[h] = "up"
      BY <2>2 DEF PrivateInv, PrivateOK, InUse, Attended, Lossless, LossFaults
    <3> QED BY <2>2, <3>1, SharedType DEF Reach, Up
  <2> QED BY <2>1, <2>2 DEF SharedHandles
<1>2. Spec => []Known  BY AllKnown DEF Orderly
<1> QED BY <1>1, <1>2, SharedCorrect, PatientToo, PTL

\* No call of g ends the server that another one, in use, is connected to.
LEMMA CallSpares ==
    ASSUME Orderly, Known, SharedInv, NEW g \in Handles, NEW t \in Threads, Step(g, t),
           NEW h \in Handles, Attended(h), Up(link[h])
    PROVE  proc'[link[h]] = "up"
<1> DEFINE q == link[h]
<1>t. TypeOK /\ Apart /\ HandleOK(g)  BY DEF Known, CallInv
<1>1. q \in Handles /\ proc[q] = "up"  BY <1>t DEF Up, TypeOK
<1>2. /\ h \in SharedHandles => q \in SharedHandles
      /\ h \in Isolated => q = h
  BY <1>t, <1>1, SharedKnows, OwnFiles DEF Up
<1>3. ASSUME at[g][t] \in {"signal", "shutdown"}, Owner(g), g \in SharedHandles
      PROVE  h \in Isolated
  <2>1. Exclusive(g, t)  BY <1>3 DEF Exclusive
  <2>2. Unused  BY <1>3, <2>1 DEF SharedInv, StepsOK, StepOK
  <2> QED BY <2>2, AttendedHolds DEF Unused, SharedHandles
<1>4. ASSUME g \in Isolated, at[g][t] \in {"signal", "signalForeign", "shutdown"}
      PROVE  g # h
  BY <1>4, <1>t DEF Attended, InTeardown, TermSteps, CloseSteps
<1>5. CASE Signal(g, t) \/ SignalForeign(g, t)
  <2>1. pid[g][t] # None /\ at[g][t] \in {"signal", "signalForeign"}
    BY <1>5, CallsType DEF Known, Signal, SignalForeign, SignalsSomeone
  <2>2. pid[g][t] # q
    <3>1. CASE g \in SharedHandles
      <4>1. pid[g][t] \in SharedHandles /\ at[g][t] = "signal"
        BY <2>1, <3>1, SharedKnows DEF SharedInv, StepsOK, StepOK, ServersOK
      <4>2. Owner(g)  BY <1>t, <2>1 DEF HandleOK, RollbackOK, TermSteps, Owner
      <4> QED BY <1>2, <1>3, <3>1, <4>1, <4>2 DEF SharedHandles
    <3>2. CASE g \in Isolated
      <4>1. pid[g][t] = g  BY <1>t, <2>1, <3>2, OwnFiles
      <4> QED BY <1>2, <1>4, <2>1, <3>2, <4>1 DEF SharedHandles
    <3> QED BY <3>1, <3>2 DEF SharedHandles
  <2> QED BY <1>1, <1>5, <1>t, <2>2 DEF Signal, SignalForeign, ExitOrderly, TypeOK
<1>6. CASE Shutdown(g, t)
  <2>1. at[g][t] = "shutdown" /\ life[g] = "built"  BY <1>6, Running DEF Shutdown, CloseSteps
  <2>2. Reach(g) # None => Reach(g) # q
    <3>1. CASE g \in SharedHandles
      <4>1. Reach(g) # None => Reach(g) \in SharedHandles  BY <3>1, SharedKnows
      <4> QED BY <1>2, <1>3, <2>1, <3>1, <4>1 DEF Owner, SharedHandles
    <3>2. CASE g \in Isolated
      <4>1. Reach(g) \in {None, g}  BY <1>t, <3>2, OwnFiles
      <4> QED BY <1>2, <1>4, <2>1, <3>2, <4>1 DEF SharedHandles
    <3> QED BY <3>1, <3>2 DEF SharedHandles
  <2> QED BY <1>1, <1>6, <1>t, <2>2 DEF Shutdown, ExitOrderly, TypeOK
<1>7. CASE Launch(g, t)
  <2>1. proc[g] = "free"
    BY <1>7 DEF Launch, Known, Once, FreshOK, Fresh, PreLaunch
  <2> QED BY <1>1, <1>7, <1>t, <2>1 DEF Launch, TypeOK
<1>8. CASE UNCHANGED proc  BY <1>1, <1>8
<1> QED BY <1>5, <1>6, <1>7, <1>8
  DEF Step, LoadRegistry, ProbePid, WriteConf, TruncateRegistry, SaveRegistry, PingAnswered,
      PingTimeout, Undo, BindProcess, Acquire, Count, CountFails, Leave, CapturePid, RemoveFiles,
      daemons

\* Nor does it take its connection away.
LEMMA LinkStays ==
    ASSUME Known, NEW g \in Handles, NEW t \in Threads, Step(g, t),
           NEW h \in Handles, Attended(h)
    PROVE  link'[h] = link[h]
<1>t. TypeOK /\ HandleOK(g)  BY DEF Known, CallInv
<1>1. CASE g # h
  BY <1>1, <1>t
  DEF Step, LoadRegistry, ProbePid, WriteConf, Launch, TruncateRegistry, SaveRegistry, PingAnswered,
      PingTimeout, Undo, BindProcess, Signal, SignalForeign, Acquire, Count, CountFails, Leave,
      CapturePid, Shutdown, RemoveFiles, Return, Connect, Disconnect, conns, TypeOK
<1>2. CASE g = h
  <2>1. at[g][t] \notin CloseSteps \cup {"ping"} /\ running[g]
    BY <1>2, <1>t DEF Attended, InTeardown, HandleOK, BuilderOK, CtorSteps, CloseSteps
  <2> QED BY <1>2, <2>1
    DEF Step, LoadRegistry, ProbePid, WriteConf, Launch, TruncateRegistry, SaveRegistry, PingAnswered,
        PingTimeout, Undo, BindProcess, Signal, SignalForeign, Acquire, Retired, Count, CountFails,
        Leave, CapturePid, Shutdown, RemoveFiles, CloseSteps, conns
<1> QED BY <1>1, <1>2

\* No call of any instance, opening, closing or failing to, ends the server that an
\* instance in use is connected to: only a crash does.
THEOREM StaysUp == ASSUME Orderly PROVE Spec => SharedStaysUp
<1> USE DEF calls
<1>1. ASSUME Known, SharedInv, [Next]_vars
      PROVE  [calls' # calls =>
                 \A h \in Handles : Attended(h) /\ Up(link[h]) => Up(link[h])']_vars
  <2> SUFFICES ASSUME calls' # calls, NEW h \in Handles, Attended(h), Up(link[h])
               PROVE  Up(link[h])'
    OBVIOUS
  <2>t. TypeOK  BY <1>1 DEF Known, CallInv
  <2>0. ASSUME UNCHANGED <<proc, link>> PROVE Up(link[h])'  BY <2>0 DEF Up
  <2>1. ASSUME NEW g \in Handles, NEW t \in Threads, Step(g, t) PROVE Up(link[h])'
    <3>1. proc'[link[h]] = "up" /\ link'[h] = link[h]  BY <1>1, <2>1, CallSpares, LinkStays
    <3> QED BY <3>1 DEF Up
  <2>2. ASSUME NEW g \in Handles, NEW t \in Threads,
               Open(g, t) \/ BeginClose(g, t) \/ Interrupt(g, t)
        PROVE  Up(link[h])'
    BY <2>2, <2>0, SafeFaults DEF Open, BeginClose, Interrupt, daemons, conns
  <2>3. ASSUME NEW g \in Handles, ClientCrash(g) PROVE FALSE
    <3>1. Idle(g)  BY <2>3, SafeFaults DEF ClientCrash
    <3>2. at' = at  BY <2>3, <3>1, <2>t DEF ClientCrash, Idle, TypeOK
    <3>3. \A u \in Threads : pid[g][u] = None
      BY <1>1, <3>1 DEF Known, Once, PidsUsed, PidSteps, TermSteps, Idle
    <3>4. pid' = pid  BY <2>3, <3>3, <2>t DEF ClientCrash, TypeOK
    <3>5. lock[g] = None
      <4>1. lock[g] # None => lock[g] \in Threads /\ InTeardown(g, lock[g])
        BY <1>1, <2>t DEF Known, Once, LockHeld, TypeOK
      <4> QED BY <3>1, <4>1 DEF Idle, InTeardown, CloseSteps, TermSteps
    <3>6. lock' = lock  BY <2>3, <3>5, <2>t DEF ClientCrash, TypeOK
    <3> QED BY <3>2, <3>4, <3>6
  <2>4. ASSUME NEW g \in Handles,
               Boot(g) \/ Crash(g) \/ ReusePid(g) \/ Write(g) \/ Grow(g) \/ Visit(g)
        PROVE  FALSE
    BY <2>4 DEF Boot, WritePidfile, Serve, BindFails, Crash, ReusePid, Write, Grow, Visit
  <2>5. ~UNCHANGED vars  BY DEF vars
  <2> QED BY <1>1, <2>1, <2>2, <2>3, <2>4, <2>5 DEF Next
<1>2. Spec => []Known  BY AllKnown DEF Orderly
<1> QED BY <1>1, <1>2, SharedCorrect, PTL DEF Spec, SharedStaysUp

-----------------------------------------------------------------------------
(* Part 5: when everybody has closed.  CLIENT LIST must show the instances *)
(* that count on the server, and nobody else.                              *)

Counted == Faults \cap {"external_client", "pool_growth", "use_after_close"} = {}

\* The connections of a server are those of the instances that run.
LinksShow ==
    /\ \A q \in Handles : others[q] = {}
    /\ \A h \in Handles : link[h] # None => life[h] = "built" /\ running[h]

\* Who will end the server, or was killed before he could.
Keeper(h) ==
    \/ life[h] = "built" /\ running[h]
    \/ life[h] = "building" /\ started[h]
    \/ life[h] = "crashed"

\* A server, or a registry, has a keeper; whoever leaves it leaves it to one.
ServerThere == registry["main"] # None \/ ~NoServer
ServerKept == ServerThere => \E h \in SharedHandles : Keeper(h)
LeftToKeeper ==
    \A h \in SharedHandles, t \in Threads :
        at[h][t] = "leave" => \E g \in SharedHandles \ {h} : Keeper(g)

KeptInv == LinksShow /\ ServerKept /\ LeftToKeeper /\ registry["sibling"] = None

LEMMA KeptInit == Init => KeptInv
BY SharedType DEF Init, KeptInv, LinksShow, ServerKept, ServerThere, LeftToKeeper, NoServer, Live, Files

\* The moves that change connections.
LEMMA LinksConnect ==
    ASSUME TypeOK, LinksShow, NEW h \in Handles, Connect(h), others' = others,
           life'[h] = "built" /\ running'[h],
           \A g \in Handles \ {h} : life'[g] = life[g] /\ running'[g] = running[g]
    PROVE  LinksShow'
BY DEF TypeOK, LinksShow, Connect

LEMMA LinksDisconnect ==
    ASSUME TypeOK, LinksShow, NEW h \in Handles, Disconnect(h),
           \A g \in Handles \ {h} : life'[g] = life[g] /\ running'[g] = running[g]
    PROVE  LinksShow'
BY DEF TypeOK, LinksShow, Disconnect

LEMMA LinksSame ==
    ASSUME LinksShow, UNCHANGED <<link, others>>,
           \A g \in Handles : life[g] = "built" /\ running[g] => life'[g] = "built" /\ running'[g]
    PROVE  LinksShow'
BY DEF LinksShow

LEMMA LinksShowStep ==
    ASSUME Orderly, Counted, Known, LinksShow, [Next]_vars PROVE LinksShow'
<1> USE DEF daemons, runfiles, dirs, object, calls, conns
<1>t. TypeOK  BY DEF Known, CallInv
<1>1. ASSUME NEW h \in Handles, NEW t \in Threads, Step(h, t) PROVE LinksShow'
  <2>1. CASE PingAnswered(h, t)  BY <2>1, <1>t, LinksConnect DEF PingAnswered, TypeOK
  <2>2. CASE Count(h, t)
    <3>1. life[h] = "built" /\ running[h]  BY <2>2, Running DEF Count, CloseSteps
    <3> QED BY <2>2, <3>1, <1>t, LinksConnect DEF Count
  <2>3. CASE CountFails(h, t)  BY <2>3, <1>t, LinksDisconnect DEF CountFails, Return
  <2>4. CASE Leave(h, t) \/ RemoveFiles(h, t)
    BY <2>4, <1>t, LinksDisconnect DEF Leave, RemoveFiles, Return, TypeOK
  <2>5. CASE Acquire(h, t)  BY <2>5, <1>t, LinksDisconnect, LinksSame DEF Acquire
  <2>6. CASE Undo(h, t)
    <3>1. life[h] = "building"
      BY <2>6 DEF Undo, Known, CallInv, HandleOK, BuilderOK, CtorSteps
    <3> QED BY <2>6, <3>1, <1>t, LinksSame DEF Undo, TypeOK
  <2>7. CASE ~(\/ PingAnswered(h, t) \/ Count(h, t) \/ CountFails(h, t) \/ Leave(h, t)
               \/ RemoveFiles(h, t) \/ Acquire(h, t) \/ Undo(h, t))
    BY <1>1, <2>7, LinksSame
    DEF Step, LoadRegistry, ProbePid, WriteConf, Launch, TruncateRegistry, SaveRegistry, PingTimeout,
        BindProcess, Signal, SignalForeign, CapturePid, Shutdown
  <2> QED BY <2>1, <2>2, <2>3, <2>4, <2>5, <2>6, <2>7
<1>2. ASSUME NEW h \in Handles, NEW t \in Threads, Open(h, t) \/ BeginClose(h, t) \/ Interrupt(h, t)
      PROVE  LinksShow'
  BY <1>2, <1>t, SafeFaults, LinksSame DEF Open, BeginClose, Interrupt, TypeOK
<1>3. ASSUME NEW h \in Handles, Boot(h) \/ Crash(h) \/ ReusePid(h) \/ Grow(h) \/ Visit(h)
      PROVE  LinksShow'
  BY <1>3, LinksSame
  DEF Boot, WritePidfile, Serve, BindFails, Crash, ReusePid, Grow, Visit, Counted
<1>4. ASSUME NEW h \in Handles, Write(h) PROVE LinksShow'
  BY <1>4, <1>t, LinksConnect DEF Write, Counted
<1>5. ASSUME NEW h \in Handles, ClientCrash(h) PROVE LinksShow'
  BY <1>5, <1>t, LinksDisconnect DEF ClientCrash, TypeOK
<1>6. CASE UNCHANGED vars  BY <1>6, LinksSame DEF vars
<1> QED BY <1>1, <1>2, <1>3, <1>4, <1>5, <1>6 DEF Next

\* Who ceases to be a keeper is closing, or rolling back.
LEMMA KeepersStay ==
    ASSUME Orderly, Known, [Next]_vars, NEW h \in SharedHandles, Keeper(h)
    PROVE  \/ Keeper(h)'
           \/ \E t \in Threads : Leave(h, t) \/ RemoveFiles(h, t) \/ Undo(h, t)
<1> USE DEF daemons, object, conns
<1>t. TypeOK /\ h \in Handles  BY SharedType DEF Known, CallInv
<1>0. ASSUME UNCHANGED <<life, started, running>> PROVE Keeper(h)'  BY <1>0 DEF Keeper
<1>1. ASSUME NEW g \in Handles, NEW t \in Threads, Open(g, t) PROVE Keeper(h)'
  BY <1>1, <1>t DEF Open, Keeper, TypeOK
<1>2. ASSUME NEW g \in Handles, NEW t \in Threads, Step(g, t),
             ~(Leave(g, t) \/ RemoveFiles(g, t) \/ Undo(g, t))
      PROVE  Keeper(h)'
  <2>1. CASE Launch(g, t)  BY <2>1, <1>t DEF Launch, Keeper, TypeOK
  <2>2. CASE PingAnswered(g, t)  BY <2>2, <1>t DEF PingAnswered, Keeper, TypeOK
  <2>3. CASE ~(Launch(g, t) \/ PingAnswered(g, t))
    BY <1>0, <1>2, <2>3
    DEF Step, LoadRegistry, ProbePid, WriteConf, TruncateRegistry, SaveRegistry, PingTimeout,
        BindProcess, Signal, SignalForeign, Acquire, Count, CountFails, CapturePid, Shutdown
  <2> QED BY <2>1, <2>2, <2>3
<1>3. ASSUME NEW g \in Handles, NEW t \in Threads, g # h,
             Leave(g, t) \/ RemoveFiles(g, t) \/ Undo(g, t)
      PROVE  Keeper(h)'
  BY <1>3, <1>t DEF Leave, RemoveFiles, Undo, Keeper, TypeOK
<1>4. ASSUME NEW g \in Handles, NEW t \in Threads, BeginClose(g, t) \/ Interrupt(g, t)
      PROVE  Keeper(h)'
  BY <1>0, <1>4, SafeFaults DEF BeginClose, Interrupt
<1>5. ASSUME NEW g \in Handles,
             Boot(g) \/ Crash(g) \/ ReusePid(g) \/ Write(g) \/ Grow(g) \/ Visit(g)
      PROVE  Keeper(h)'
  BY <1>0, <1>5
  DEF Boot, WritePidfile, Serve, BindFails, Crash, ReusePid, Write, Grow, Visit
<1>6. ASSUME NEW g \in Handles, ClientCrash(g) PROVE Keeper(h)'
  BY <1>6, <1>t DEF ClientCrash, Keeper, TypeOK
<1>7. CASE UNCHANGED vars  BY <1>7, <1>0 DEF vars
<1> QED BY <1>1, <1>2, <1>3, <1>4, <1>5, <1>6, <1>7 DEF Next

\* Servers and registries come from constructors, who keep them...
LEMMA ThereStep ==
    ASSUME Orderly, Known, SharedInv, [Next]_vars, ~ServerThere, ServerThere'
    PROVE  \E h \in SharedHandles : Keeper(h)'
<1> USE DEF daemons, runfiles, object, conns
<1>t. TypeOK  BY DEF Known, CallInv
<1>n. NoServer /\ registry["main"] = None  BY DEF ServerThere
<1>0. ASSUME registry'["main"] = registry["main"],
             \A q \in SharedHandles : proc'[q] \in Live => proc[q] \in Live
      PROVE  FALSE
  BY <1>0, <1>n DEF ServerThere, NoServer
<1>1. ASSUME NEW h \in SharedHandles, NEW t \in Threads,
             Launch(h, t) \/ TruncateRegistry(h, t) \/ SaveRegistry(h, t)
      PROVE  Keeper(h)'
  <2>1. h \in Handles /\ StepOK(h, t)  BY SharedType DEF SharedInv, StepsOK
  <2>2. life[h] = "building"
    BY <1>1, <2>1
    DEF Known, CallInv, HandleOK, BuilderOK, CtorSteps, Launch, TruncateRegistry, SaveRegistry
  <2>3. life'[h] = "building" /\ started'[h]
    BY <1>1, <1>t, <2>1, <2>2 DEF Launch, TruncateRegistry, SaveRegistry, StepOK, WrittenOK, TypeOK
  <2> QED BY <2>3 DEF Keeper
<1>2. ASSUME NEW h \in SharedHandles, NEW t \in Threads, Signal(h, t) \/ Shutdown(h, t) PROVE FALSE
  <2>1. registry' = registry /\ \A q \in SharedHandles : proc'[q] \in Live => proc[q] \in Live
    BY <1>2, <1>t, SharedType DEF Signal, Shutdown, ExitOrderly, TypeOK, Live
  <2> QED BY <2>1, <1>0
<1>3. ASSUME NEW h \in SharedHandles, NEW t \in Threads, Undo(h, t) \/ RemoveFiles(h, t) PROVE FALSE
  <2>1. registry'["main"] = None /\ proc' = proc
    BY <1>3, <1>n, <1>t, MainFile, SharedType DEF Undo, RemoveFiles, TypeOK, Files
  <2> QED BY <2>1, <1>0, <1>n
<1>4. ASSUME NEW h \in SharedHandles, NEW t \in Threads,
             \/ LoadRegistry(h, t) \/ ProbePid(h, t) \/ WriteConf(h, t)
             \/ PingAnswered(h, t) \/ PingTimeout(h, t) \/ BindProcess(h, t) \/ Acquire(h, t)
             \/ Count(h, t) \/ CountFails(h, t) \/ Leave(h, t) \/ CapturePid(h, t)
      PROVE  FALSE
  BY <1>4, <1>0
  DEF LoadRegistry, ProbePid, WriteConf, PingAnswered, PingTimeout, BindProcess, Acquire, Count,
      CountFails, Leave, CapturePid
<1>5. ASSUME NEW h \in SharedHandles, NEW t \in Threads,
             Open(h, t) \/ BeginClose(h, t) \/ SignalForeign(h, t) \/ Interrupt(h, t)
      PROVE  FALSE
  BY <1>5, <1>0, SafeFaults
  DEF Open, BeginClose, Interrupt, SignalForeign, SharedInv, StepsOK, StepOK, ServersOK
<1>6. ASSUME NEW h \in SharedHandles,
             Boot(h) \/ Crash(h) \/ ReusePid(h) \/ Write(h) \/ Grow(h) \/ Visit(h) \/ ClientCrash(h)
      PROVE  FALSE
  <2>1. registry' = registry /\ \A q \in SharedHandles : proc'[q] \in Live => proc[q] \in Live
    BY <1>6, <1>t, SharedType
    DEF Boot, WritePidfile, Serve, BindFails, Crash, ReusePid, Write, Grow, Visit, ClientCrash,
        TypeOK, Live
  <2> QED BY <2>1, <1>0
<1>7. ASSUME SharedSame PROVE FALSE  BY <1>7, <1>0 DEF SharedSame
<1>8. ASSUME NEW h \in Isolated, NEW t \in Threads,
             Open(h, t) \/ BeginClose(h, t) \/ Step(h, t) \/ Interrupt(h, t)
      PROVE  FALSE
  BY <1>7, <1>8, PrivateCalls
<1>9. ASSUME NEW h \in Isolated,
             Boot(h) \/ Crash(h) \/ ReusePid(h) \/ Write(h) \/ Grow(h) \/ Visit(h) \/ ClientCrash(h)
      PROVE  FALSE
  BY <1>7, <1>9, PrivateDaemons
<1>10. ~UNCHANGED vars  BY <1>0 DEF vars
<1>11. ASSUME NEW h \in SharedHandles, NEW t \in Threads, Step(h, t)
       PROVE  \E g \in SharedHandles : Keeper(g)'
  BY <1>11, <1>1, <1>2, <1>3, <1>4, <1>5 DEF Step
<1> QED BY <1>5, <1>6, <1>8, <1>9, <1>10, <1>11 DEF Next, SharedHandles

\* ...and keep them until they are gone, or somebody else is a keeper.
LEMMA Vacated ==
    ASSUME Orderly, Known, SharedInv, NEW h \in SharedHandles, NEW t \in Threads,
           RemoveFiles(h, t) \/ (Undo(h, t) /\ Keeper(h))
    PROVE  ~ServerThere'
<1> USE DEF daemons
<1>t. TypeOK /\ h \in Handles /\ StepOK(h, t)
  BY SharedType DEF Known, CallInv, SharedInv, StepsOK
<1>1. Undo(h, t) => life[h] = "building"
  BY <1>t DEF Undo, Known, CallInv, HandleOK, BuilderOK, CtorSteps
<1>2. Undo(h, t) => started[h]  BY <1>1 DEF Keeper, RemoveFiles, Undo
<1>3. NoServer  BY <1>t, <1>2 DEF RemoveFiles, Undo, StepOK, ServersOK
<1>4. proc' = proc /\ registry'["main"] = None
  BY <1>t, <1>2, MainFile, SharedType DEF RemoveFiles, Undo, TypeOK, Files
<1> QED BY <1>3, <1>4 DEF ServerThere, NoServer

LEMMA KeptStep ==
    ASSUME Orderly, Known, SharedInv, LeftToKeeper, ServerKept, [Next]_vars PROVE ServerKept'
<1> SUFFICES ASSUME ServerThere' PROVE \E h \in SharedHandles : Keeper(h)'  BY DEF ServerKept
<1>1. CASE ~ServerThere  BY <1>1, ThereStep
<1>2. CASE ServerThere
  <2>1. PICK h \in SharedHandles : Keeper(h)  BY <1>2 DEF ServerKept
  <2>2. ASSUME NEW t \in Threads, Leave(h, t) PROVE \E g \in SharedHandles : Keeper(g)'
    <3>1. PICK g \in SharedHandles \ {h} : Keeper(g)  BY <2>2 DEF Leave, LeftToKeeper
    <3>2. at[h][t] # "idle"  BY <2>2 DEF Leave
    <3>3. \A u \in Threads : at[g][u] = "idle"  BY <3>2, SharedType DEF Known, OneActive
    <3> QED BY <3>1, <3>3, KeepersStay DEF Leave, RemoveFiles, Undo
  <2> QED BY <2>1, <2>2, KeepersStay, Vacated
<1> QED BY <1>1, <1>2

\* Whoever leaves has counted somebody else, who keeps the server.
LEMMA SomebodyElse ==
    ASSUME Known, LinksShow, NEW h \in SharedHandles, ~LastClient(h)
    PROVE  \E g \in SharedHandles \ {h} : Keeper(g)
<1> DEFINE q == Reach(h)
           S == {x \in Handles : x = h \/ link[x] = q}
<1>t. TypeOK /\ Apart /\ h \in Handles  BY SharedType DEF Known, CallInv
<1>1. q \in SharedHandles /\ Conns(h) = Cardinality(S) + Cardinality(others[q]) /\ ~(Conns(h) <= 1)
  BY SharedKnows DEF LastClient, Conns
<1>2. others[q] = {} /\ Cardinality({}) = 0
  BY <1>1, SharedType, FS_EmptySet DEF LinksShow
<1>3. PICK g \in Handles \ {h} : link[g] = q
  <2> SUFFICES ASSUME \A g \in Handles \ {h} : link[g] # q PROVE FALSE  OBVIOUS
  <2>1. S = {h}  BY <1>t
  <2>2. Cardinality({h}) = 1  BY FS_Singleton
  <2> QED BY <1>1, <1>2, <2>1, <2>2
<1>4. link[g] # None /\ Dir(g) = Shared
  BY <1>t, <1>1, <1>3, SharedType DEF Apart, LinksApart
<1>5. g \in SharedHandles  BY <1>3, <1>4, SharedType
<1> QED BY <1>3, <1>4, <1>5 DEF LinksShow, Keeper

LEMMA OnlyCountLeaves ==
    ASSUME Known, [Next]_vars, NEW h \in SharedHandles, NEW t \in Threads,
           at'[h][t] = "leave", at[h][t] # "leave"
    PROVE  Count(h, t)
<1> USE DEF daemons, runfiles, object, calls, conns
<1>t. TypeOK /\ h \in Handles  BY SharedType DEF Known, CallInv
<1>0. at' # at  OBVIOUS
<1>1. ASSUME NEW g \in Handles, NEW u \in Threads, NEW s, Goto(g, u, s)
      PROVE  g = h /\ u = t /\ s = "leave"
  BY <1>1, <1>t, Moved
<1>2. ASSUME NEW g \in Handles, NEW u \in Threads, Open(g, u) \/ BeginClose(g, u) \/ Interrupt(g, u)
      PROVE  FALSE
  BY <1>2, <1>1 DEF Open, FirstStep, BeginClose, Interrupt, Back
<1>3. ASSUME NEW g \in Handles, NEW u \in Threads,
             \/ LoadRegistry(g, u) \/ ProbePid(g, u) \/ WriteConf(g, u) \/ Launch(g, u)
             \/ TruncateRegistry(g, u) \/ SaveRegistry(g, u) \/ PingAnswered(g, u)
             \/ PingTimeout(g, u) \/ Undo(g, u)
      PROVE  FALSE
  BY <1>3, <1>1
  DEF LoadRegistry, ProbePid, WriteConf, Launch, TruncateRegistry, SaveRegistry, PingAnswered,
      PingTimeout, RollBack, Undo, Back
<1>4. ASSUME NEW g \in Handles, NEW u \in Threads,
             \/ BindProcess(g, u) \/ Signal(g, u) \/ SignalForeign(g, u) \/ Acquire(g, u)
             \/ CountFails(g, u) \/ Leave(g, u) \/ CapturePid(g, u) \/ Shutdown(g, u)
             \/ RemoveFiles(g, u)
      PROVE  FALSE
  <2>1. PICK s \in Steps \ {"leave"} : Goto(g, u, s)
    <3>1. CASE BindProcess(g, u) \/ Signal(g, u) \/ SignalForeign(g, u)
      <4>1. AfterTerm(g) \in {"undo", "remove"}  BY DEF AfterTerm
      <4> QED BY <3>1, <4>1
        DEF BindProcess, Signal, SignalForeign, Steps, CtorSteps, TermSteps, CloseSteps
    <3>2. CASE Acquire(g, u) \/ CapturePid(g, u) \/ Shutdown(g, u)
      BY <3>2 DEF Acquire, CapturePid, Shutdown, Steps, TermSteps, CloseSteps
    <3>3. CASE CountFails(g, u) \/ Leave(g, u) \/ RemoveFiles(g, u)
      BY <3>3 DEF CountFails, Leave, RemoveFiles, Return, Back, Steps
    <3> QED BY <1>4, <3>1, <3>2, <3>3
  <2> QED BY <2>1, <1>1
<1>5. ASSUME NEW g \in Handles, NEW u \in Threads, Count(g, u) PROVE Count(h, t)
  BY <1>5, <1>1 DEF Count
<1>6. ASSUME NEW g \in Handles,
             Boot(g) \/ Crash(g) \/ ReusePid(g) \/ Write(g) \/ Grow(g) \/ Visit(g) \/ ClientCrash(g)
      PROVE  FALSE
  <2>1. CASE ClientCrash(g)
    <3>1. at' = [at EXCEPT ![g] = [u \in Threads |-> "idle"]]  BY <2>1 DEF ClientCrash
    <3>2. at'[h][t] \in {"idle", at[h][t]}  BY <3>1, <1>t DEF TypeOK
    <3> QED BY <3>2
  <2>2. CASE ~ClientCrash(g)
    BY <1>0, <1>6, <2>2
    DEF Boot, WritePidfile, Serve, BindFails, Crash, ReusePid, Write, Grow, Visit
  <2> QED BY <2>1, <2>2
<1> QED BY <1>0, <1>2, <1>3, <1>4, <1>5, <1>6 DEF Next, Step, vars

LEMMA LeftStep ==
    ASSUME Orderly, Known, LinksShow, LeftToKeeper, [Next]_vars PROVE LeftToKeeper'
<1> SUFFICES ASSUME NEW h \in SharedHandles, NEW t \in Threads, at'[h][t] = "leave"
             PROVE  \E g \in SharedHandles \ {h} : Keeper(g)'
  BY DEF LeftToKeeper
<1>1. at[h][t] # "idle" /\ \E g \in SharedHandles \ {h} : Keeper(g)
  <2>1. CASE at[h][t] = "leave"  BY <2>1 DEF LeftToKeeper
  <2>2. CASE at[h][t] # "leave"
    <3>1. Count(h, t)  BY <2>2, OnlyCountLeaves
    <3>2. ~LastClient(h)
      <4>1. at'[h][t] = IF LastClient(h) THEN "capture" ELSE "leave"
        BY <3>1, SharedType, Moved DEF Count, Known, CallInv
      <4> QED BY <4>1
    <3> QED BY <3>1, <3>2, SomebodyElse DEF Count
  <2> QED BY <2>1, <2>2
<1>2. PICK g \in SharedHandles \ {h} : Keeper(g)  BY <1>1
<1>3. \A u \in Threads : at[g][u] = "idle"  BY <1>1, SharedType DEF Known, OneActive
<1> QED BY <1>2, <1>3, KeepersStay DEF Leave, RemoveFiles, Undo

LEMMA SiblingStep ==
    ASSUME Orderly, Known, registry["sibling"] = None, [Next]_vars
    PROVE  registry'["sibling"] = None
<1> USE DEF daemons, runfiles, object, conns
<1>1. \A h \in Handles : File(h) # "sibling"  BY MainFile
<1>2. TypeOK  BY DEF Known, CallInv
<1>3. ASSUME NEW h \in Handles, NEW t \in Threads,
             TruncateRegistry(h, t) \/ SaveRegistry(h, t) \/ Undo(h, t) \/ RemoveFiles(h, t)
      PROVE  registry'["sibling"] = None
  BY <1>1, <1>2, <1>3 DEF TruncateRegistry, SaveRegistry, Undo, RemoveFiles, TypeOK, Files
<1>4. ASSUME NEW h \in Handles, NEW t \in Threads, Step(h, t),
             ~(TruncateRegistry(h, t) \/ SaveRegistry(h, t) \/ Undo(h, t) \/ RemoveFiles(h, t))
      PROVE  registry'["sibling"] = None
  BY <1>4
  DEF Step, LoadRegistry, ProbePid, WriteConf, Launch, PingAnswered, PingTimeout, BindProcess, Signal,
      SignalForeign, Acquire, Count, CountFails, Leave, CapturePid, Shutdown
<1>5. ASSUME NEW h \in Handles, NEW t \in Threads, Open(h, t) \/ BeginClose(h, t) \/ Interrupt(h, t)
      PROVE  registry'["sibling"] = None
  BY <1>5 DEF Open, BeginClose, Interrupt
<1>6. ASSUME NEW h \in Handles,
             Boot(h) \/ Crash(h) \/ ReusePid(h) \/ Write(h) \/ Grow(h) \/ Visit(h) \/ ClientCrash(h)
      PROVE  registry'["sibling"] = None
  BY <1>6
  DEF Boot, WritePidfile, Serve, BindFails, Crash, ReusePid, Write, Grow, Visit, ClientCrash
<1> QED BY <1>3, <1>4, <1>5, <1>6 DEF Next, vars

LEMMA KeptCorrect == ASSUME Orderly, Counted PROVE Spec => []KeptInv
<1>1. Known /\ SharedInv /\ KeptInv /\ [Next]_vars => KeptInv'
  BY LinksShowStep, KeptStep, LeftStep, SiblingStep DEF KeptInv
<1>2. Spec => []Known  BY AllKnown DEF Orderly
<1> QED BY <1>1, <1>2, KeptInit, SharedCorrect, PTL DEF Spec

\* "the last to close shuts it down": once every instance has closed or failed to
\* open, no server process is left of the path, and no registry, provided that all
\* a client counts are the instances that count on the server.
THEOREM LastStops == ASSUME Orderly, Counted PROVE Spec => []NoOrphan
<1>1. KeptInv => NoOrphan
  <2> SUFFICES ASSUME KeptInv, AllGone
               PROVE  /\ \A q \in SharedHandles : proc[q] \notin Live
                      /\ \A f \in Files : registry[f] = None
    BY DEF NoOrphan
  <2>1. \A h \in SharedHandles : ~Keeper(h)  BY DEF AllGone, Gone, Keeper
  <2>2. ~ServerThere  BY <2>1 DEF KeptInv, ServerKept
  <2> QED BY <2>2 DEF KeptInv, ServerThere, NoServer, Files
<1> QED BY <1>1, KeptCorrect, PTL

\* The other runtime files.  A startup that fails after its launch leaves some.
Remnant(h) == life[h] = "failed" /\ started[h]
Remains == pidfile[Shared] # None \/ sock[Shared] # None
FilesKept == Remains => \E h \in SharedHandles : Keeper(h) \/ Remnant(h)
\* With one socket location there are no sockets anywhere else.
SocketsPlaced == \A l \in Locs \ Isolated : l # Shared => sock[l] = None
TidyInv == FilesKept /\ SocketsPlaced

LEMMA TidyInit == Init => TidyInv
BY SharedType DEF Init, TidyInv, FilesKept, Remains, SocketsPlaced

\* Only a daemon that boots creates a pidfile or a socket.
LEMMA FilesShrink ==
    ASSUME Orderly, Known, SharedInv, [Next]_vars, \A q \in SharedHandles : ~Boot(q)
    PROVE  /\ pidfile'[Shared] \in {pidfile[Shared], None}
           /\ \A l \in Locs \ Isolated : sock'[l] \in {sock[l], None}
<1> USE DEF daemons, runfiles, object, conns
<1> DEFINE Shrink == /\ pidfile'[Shared] \in {pidfile[Shared], None}
                     /\ \A l \in Locs \ Isolated : sock'[l] \in {sock[l], None}
<1>t. TypeOK  BY DEF Known, CallInv
<1>0. ASSUME UNCHANGED <<pidfile, sock>> PROVE Shrink  BY <1>0
<1>1. ASSUME NEW h \in SharedHandles, NEW t \in Threads, Signal(h, t) \/ Shutdown(h, t) PROVE Shrink
  BY <1>1, <1>t, SharedType DEF Signal, Shutdown, ExitOrderly, TypeOK
<1>2. ASSUME NEW h \in SharedHandles, NEW t \in Threads, Undo(h, t) PROVE Shrink
  BY <1>2, <1>t, SharedType DEF Undo, TypeOK
<1>3. ASSUME NEW h \in SharedHandles, NEW t \in Threads, RemoveFiles(h, t) PROVE Shrink
  BY <1>3, <1>t, SharedType DEF RemoveFiles, RemoveRunFiles, TypeOK
<1>4. ASSUME NEW h \in SharedHandles, NEW t \in Threads, Step(h, t),
             ~(Signal(h, t) \/ Shutdown(h, t) \/ Undo(h, t) \/ RemoveFiles(h, t))
      PROVE  Shrink
  BY <1>0, <1>4
  DEF Step, LoadRegistry, ProbePid, WriteConf, Launch, TruncateRegistry, SaveRegistry, PingAnswered,
      PingTimeout, BindProcess, SignalForeign, Acquire, Count, CountFails, Leave, CapturePid
<1>5. ASSUME NEW h \in SharedHandles, NEW t \in Threads,
             Open(h, t) \/ BeginClose(h, t) \/ Interrupt(h, t)
      PROVE  Shrink
  BY <1>0, <1>5 DEF Open, BeginClose, Interrupt
<1>6. ASSUME NEW h \in SharedHandles,
             Crash(h) \/ ReusePid(h) \/ Write(h) \/ Grow(h) \/ Visit(h) \/ ClientCrash(h)
      PROVE  Shrink
  BY <1>0, <1>6 DEF Crash, ReusePid, Write, Grow, Visit, ClientCrash
<1>7. ASSUME SharedSame PROVE Shrink  BY <1>7 DEF SharedSame
<1>8. ASSUME NEW h \in Isolated, NEW t \in Threads,
             Open(h, t) \/ BeginClose(h, t) \/ Step(h, t) \/ Interrupt(h, t)
      PROVE  Shrink
  BY <1>7, <1>8, PrivateCalls
<1>9. ASSUME NEW h \in Isolated,
             Boot(h) \/ Crash(h) \/ ReusePid(h) \/ Write(h) \/ Grow(h) \/ Visit(h) \/ ClientCrash(h)
      PROVE  Shrink
  BY <1>7, <1>9, PrivateDaemons
<1>10. CASE UNCHANGED vars  BY <1>0, <1>10 DEF vars
<1> QED BY <1>1, <1>2, <1>3, <1>4, <1>5, <1>6, <1>8, <1>9, <1>10 DEF Next, SharedHandles

\* What a failed startup has left, nobody of this path comes back for.
LEMMA RemnantStays ==
    ASSUME Orderly, Known, [Next]_vars, NEW h \in SharedHandles, Remnant(h) PROVE Remnant(h)'
<1> USE DEF daemons, object, conns, Remnant
<1>t. TypeOK /\ h \in Handles  BY SharedType DEF Known, CallInv
<1>0. ASSUME UNCHANGED <<life, started>> PROVE Remnant(h)'  BY <1>0
<1>b. ASSUME NEW g \in Handles, NEW t \in Threads, at[g][t] \in CtorSteps PROVE g # h
  BY <1>b DEF Known, CallInv, HandleOK, BuilderOK
<1>1. ASSUME NEW g \in Handles, NEW t \in Threads, Open(g, t) PROVE Remnant(h)'
  BY <1>1, <1>t DEF Open, TypeOK
<1>2. ASSUME NEW g \in Handles, NEW t \in Threads, Launch(g, t) \/ PingAnswered(g, t) \/ Undo(g, t)
      PROVE  Remnant(h)'
  <2>1. g # h  BY <1>2, <1>b DEF Launch, PingAnswered, Undo, CtorSteps
  <2> QED BY <1>2, <1>t, <2>1 DEF Launch, PingAnswered, Undo, TypeOK
<1>3. ASSUME NEW g \in Handles, NEW t \in Threads, Step(g, t),
             ~(Launch(g, t) \/ PingAnswered(g, t) \/ Undo(g, t))
      PROVE  Remnant(h)'
  BY <1>0, <1>3
  DEF Step, LoadRegistry, ProbePid, WriteConf, TruncateRegistry, SaveRegistry, PingTimeout,
      BindProcess, Signal, SignalForeign, Acquire, Count, CountFails, Leave, CapturePid, Shutdown,
      RemoveFiles
<1>4. ASSUME NEW g \in Handles, NEW t \in Threads, BeginClose(g, t) \/ Interrupt(g, t)
      PROVE  Remnant(h)'
  BY <1>0, <1>4, SafeFaults DEF BeginClose, Interrupt
<1>5. ASSUME NEW g \in Handles,
             Boot(g) \/ Crash(g) \/ ReusePid(g) \/ Write(g) \/ Grow(g) \/ Visit(g)
      PROVE  Remnant(h)'
  BY <1>0, <1>5
  DEF Boot, WritePidfile, Serve, BindFails, Crash, ReusePid, Write, Grow, Visit
<1>6. ASSUME NEW g \in Handles, ClientCrash(g) PROVE Remnant(h)'
  BY <1>6, <1>t DEF ClientCrash, TypeOK
<1>7. CASE UNCHANGED vars  BY <1>7, <1>0 DEF vars
<1> QED BY <1>1, <1>2, <1>3, <1>4, <1>5, <1>6, <1>7 DEF Next

LEMMA TidyStep ==
    ASSUME Orderly, OneSocket, Known, SharedInv, KeptInv, TidyInv, [Next]_vars PROVE TidyInv'
<1>t. TypeOK  BY DEF Known, CallInv
<1>1. SocketsPlaced'
  <2>1. ASSUME NEW q \in SharedHandles, Boot(q) PROVE SocketsPlaced'
    <3>1. proc[q] \in {"boot", "named"}  BY <2>1 DEF Boot, WritePidfile, Serve, BindFails
    <3>2. Booting(q)  BY <3>1 DEF SharedInv, DaemonsOK, Found, Live
    <3>3. setup[q].sock = Shared  BY <3>2, OneLoc DEF Booting, Rendered
    <3>4. \A l \in Locs : l # Shared => sock'[l] = sock[l]
      BY <2>1, <3>3, <1>t DEF Boot, WritePidfile, Serve, BindFails, runfiles, TypeOK
    <3> QED BY <3>4 DEF TidyInv, SocketsPlaced
  <2>2. CASE \A q \in SharedHandles : ~Boot(q)
    BY <2>2, FilesShrink DEF TidyInv, SocketsPlaced
  <2> QED BY <2>1, <2>2
<1>2. FilesKept'
  <2> DEFINE Held == \E h \in SharedHandles : Keeper(h)' \/ Remnant(h)'
  <2>1. ASSUME NEW q \in SharedHandles, Boot(q) PROVE Held
    <3>1. proc[q] \in Live  BY <2>1 DEF Boot, WritePidfile, Serve, BindFails, Live
    <3>2. PICK h \in SharedHandles : Keeper(h)
      BY <3>1 DEF KeptInv, ServerKept, ServerThere, NoServer
    <3>3. Keeper(h)'  BY <2>1, <3>2 DEF Boot, WritePidfile, Serve, BindFails, object, Keeper
    <3> QED BY <3>2, <3>3
  <2>2. ASSUME NEW h \in SharedHandles, Keeper(h), NEW t \in Threads, Leave(h, t) PROVE Held
    <3>1. PICK g \in SharedHandles \ {h} : Keeper(g)  BY <2>2 DEF Leave, KeptInv, LeftToKeeper
    <3>2. at[h][t] # "idle"  BY <2>2 DEF Leave
    <3>3. \A u \in Threads : at[g][u] = "idle"  BY <3>2, SharedType DEF Known, OneActive
    <3>4. Keeper(g)'  BY <3>1, <3>3, KeepersStay DEF Leave, RemoveFiles, Undo
    <3> QED BY <3>1, <3>4
  <2>3. ASSUME NEW h \in SharedHandles, NEW t \in Threads, RemoveFiles(h, t) PROVE ~Remains'
    <3>1. socketFile[h] = Shared /\ Shared \notin Isolated /\ Shared \in Locs
      BY HandlesAssumption, NamesAssumption DEF SharedInv, PlacesOK, Locs
    <3> QED BY <2>3, <3>1, <1>t, SharedType DEF RemoveFiles, RemoveRunFiles, Remains, TypeOK
  <2>4. ASSUME NEW h \in SharedHandles, Keeper(h), NEW t \in Threads, Undo(h, t) PROVE Held
    <3>1. h \in Handles /\ life[h] = "building"
      BY <2>4, SharedType DEF Undo, Known, CallInv, HandleOK, BuilderOK, CtorSteps
    <3>2. Remnant(h)'  BY <2>4, <3>1, <1>t DEF Undo, Keeper, Remnant, TypeOK
    <3> QED BY <3>2
  <2>5. CASE Remains
    <3>1. PICK h \in SharedHandles : Keeper(h) \/ Remnant(h)  BY <2>5 DEF TidyInv, FilesKept
    <3>2. CASE Remnant(h)  BY <3>2, RemnantStays DEF FilesKept
    <3>3. CASE Keeper(h)  BY <2>2, <2>3, <2>4, <3>3, KeepersStay DEF FilesKept
    <3> QED BY <3>1, <3>2, <3>3
  <2>6. CASE ~Remains
    <3>1. CASE \A q \in SharedHandles : ~Boot(q)
      <4>1. Shared \in Locs \ Isolated  BY HandlesAssumption, NamesAssumption DEF Locs
      <4> QED BY <2>6, <3>1, <4>1, FilesShrink DEF FilesKept, Remains
    <3> QED BY <2>1, <3>1 DEF FilesKept
  <2> QED BY <2>5, <2>6
<1> QED BY <1>1, <1>2 DEF TidyInv

\* Nor is any pidfile or socket left of the shared path ("keep the RDB, drop only
\* runtime files"), unless a startup that failed after its launch has left them:
\* with one socket location, whoever is last removes them for all.
THEOREM LastTidies == ASSUME Orderly, OneSocket, Counted PROVE Spec => []Tidy
<1>1. KeptInv /\ TidyInv => Tidy
  <2> SUFFICES ASSUME KeptInv, TidyInv, AllGone,
                      \A h \in SharedHandles : life[h] = "failed" => ~started[h]
               PROVE  pidfile[Shared] = None /\ \A l \in Locs \ Isolated : sock[l] = None
    BY DEF Tidy
  <2>1. \A h \in SharedHandles : ~Keeper(h) /\ ~Remnant(h)
    BY DEF AllGone, Gone, Keeper, Remnant
  <2>2. ~Remains  BY <2>1 DEF TidyInv, FilesKept
  <2> QED BY <2>2 DEF Remains, TidyInv, SocketsPlaced
<1>2. Known /\ SharedInv /\ KeptInv /\ TidyInv /\ [Next]_vars => TidyInv'  BY TidyStep
<1>3. Spec => []Known  BY AllKnown DEF Orderly
<1> QED BY <1>1, <1>2, <1>3, TidyInit, KeptCorrect, SharedCorrect, PTL DEF Spec
-----------------------------------------------------------------------------
(* Part 6: step by step, the instances of the path are a SharedStore.      *)

\* No daemon is killed with what it has not saved, nor does a closed instance write.
Gentle == Faults \cap {"hung_daemon", "use_after_close"} = {}

\* The abstract store, seen from the instances.
Members == {h \in SharedHandles : Holding(h)}
Contents == IF UpDaemons = {} THEN rdb["main"] ELSE UNION {mem[q] : q \in UpDaemons}

LEMMA StoreStutters ==
    ASSUME UpDaemons' = UpDaemons, Members' = Members, Contents' = Contents
    PROVE  UNCHANGED Store!vars
BY DEF Store!vars, Members, Contents, Holding

LEMMA StoreStarts ==
    ASSUME UpDaemons = {}, Members = {}, UpDaemons' # {}, Members' = Members, Contents' = Contents
    PROVE  Store!Start
BY DEF Store!Start, Members, Contents, Holding

LEMMA StoreStops ==
    ASSUME UpDaemons # {}, Members = {}, UpDaemons' = {}, Members' = Members, Contents' = Contents
    PROVE  Store!Stop
BY DEF Store!Stop, Members, Contents, Holding

LEMMA StoreJoins ==
    ASSUME NEW h \in SharedHandles, UpDaemons # {}, h \notin Members, Members' = Members \cup {h},
           UpDaemons' = UpDaemons, Contents' = Contents
    PROVE  Store!Join(h)
BY DEF Store!Join, Members, Contents, Holding

LEMMA StoreLeaves ==
    ASSUME NEW h \in SharedHandles, h \in Members, Members' = Members \ {h},
           UpDaemons' = UpDaemons, Contents' = Contents
    PROVE  Store!Leave(h)
BY DEF Store!Leave, Members, Contents, Holding

LEMMA StoreWrites ==
    ASSUME NEW h \in SharedHandles, NEW k \in Writers, UpDaemons # {}, h \in Members,
           Contents' = Contents \cup {k}, UpDaemons' = UpDaemons, Members' = Members
    PROVE  Store!Write(h, k)
BY DEF Store!Write, Members, Contents, Holding

\* The steps and what they are called together.
StoreStep == [Store!Next]_(Store!vars)

LEMMA StoreNext ==
    /\ (UNCHANGED Store!vars) \/ Store!Start \/ Store!Stop => StoreStep
    /\ \A h \in SharedHandles : Store!Join(h) \/ Store!Leave(h) => StoreStep
    /\ \A h \in SharedHandles, k \in Writers : Store!Write(h, k) => StoreStep
BY DEF StoreStep, Store!Next

\* While a server is up, the data are its data.
LEMMA OneUp ==
    ASSUME Known, SharedInv, NEW q \in SharedHandles, proc[q] = "up"
    PROVE  UpDaemons = {q} /\ Contents = mem[q] /\ setup[q].file = File(q)
<1>1. UpDaemons = {q}  BY TheServer DEF UpDaemons, Live
<1>2. Contents = mem[q]  BY <1>1 DEF Contents
<1>3. setup[q] = Rendered(q)  BY DEF SharedInv, DaemonsOK, Found, Booting, Live
<1> QED BY <1>1, <1>2, <1>3 DEF Rendered

\* Who holds the store after a step of one instance.
LEMMA MembersMove ==
    ASSUME TypeOK, NEW h \in SharedHandles, NEW t \in Threads, NEW s, Goto(h, t, s),
           \A g \in SharedHandles \ {h} : life'[g] = life[g] /\ running'[g] = running[g]
    PROVE  /\ Holding(h)' => Members' = Members \cup {h}
           /\ ~Holding(h)' => Members' = Members \ {h}
<1>1. \A g \in Handles \ {h} : at'[g] = at[g]  BY SharedType, Moved
<1>2. \A g \in SharedHandles \ {h} : Holding(g)' <=> Holding(g)  BY <1>1, SharedType DEF Holding
<1> QED BY <1>2 DEF Members

\* A daemon that does not serve comes, gets on or dies.
LEMMA UpSame ==
    ASSUME TypeOK, NEW q \in Handles, proc[q] # "up", NEW x, x # "up",
           proc' = [proc EXCEPT ![q] = x], UNCHANGED <<mem, rdb>>
    PROVE  UpDaemons' = UpDaemons /\ Contents' = Contents
<1>1. \A r \in SharedHandles : proc'[r] = "up" <=> proc[r] = "up"  BY SharedType DEF TypeOK
<1>2. UpDaemons' = UpDaemons  BY <1>1 DEF UpDaemons
<1> QED BY <1>2 DEF Contents

LEMMA StoreSame ==
    ASSUME UNCHANGED <<proc, mem, rdb>> PROVE UpDaemons' = UpDaemons /\ Contents' = Contents
BY DEF UpDaemons, Contents

\* What the steps of an instance need, to be one of the abstract store.
LEMMA IdleMembers ==
    ASSUME Known, NEW h \in SharedHandles, NEW t \in Threads, at[h][t] # "idle"
    PROVE  Holding(h) <=> life[h] = "built" /\ running[h] /\ at[h][t] \in {"lock", "count"}
<1>1. \A u \in Threads : u # t => at[h][u] = "idle"  BY SharedType DEF Known, OneActive
<1> QED BY <1>1 DEF Holding

LEMMA MovedMembers ==
    ASSUME Known, NEW h \in SharedHandles, NEW t \in Threads, NEW s, Goto(h, t, s),
           at[h][t] # "idle" \/ \A g \in Handles : Idle(g)
    PROVE  Holding(h)' <=> life'[h] = "built" /\ running'[h] /\ s \in {"idle", "lock", "count"}
<1>1. TypeOK /\ OneActive /\ h \in Handles  BY SharedType DEF Known, CallInv
<1>2. at'[h][t] = s  BY <1>1, Moved
<1>3. \A u \in Threads : at'[h][u] = "idle" \/ u = t  BY <1>1, OneActiveGoto
<1> QED BY <1>2, <1>3 DEF Holding

-----------------------------------------------------------------------------
(* The calls of a shared instance.                                         *)

\* Most calls are nothing to the store.
LEMMA QuietStore ==
    ASSUME Known, NEW h \in SharedHandles, NEW t \in Threads, NEW s, Goto(h, t, s),
           at[h][t] # "idle" \/ \A g \in Handles : Idle(g),
           \A g \in SharedHandles \ {h} : life'[g] = life[g] /\ running'[g] = running[g],
           UpDaemons' = UpDaemons, Contents' = Contents,
           life'[h] = "built" /\ running'[h] /\ s \in {"idle", "lock", "count"} <=> Holding(h)
    PROVE  StoreStep
<1>1. TypeOK  BY DEF Known, CallInv
<1>2. Holding(h)' <=> Holding(h)  BY MovedMembers
<1>3. Members' = Members  BY <1>1, <1>2, MembersMove DEF Members
<1> QED BY <1>3, StoreStutters, StoreNext

\* An instance that is being built does not hold the store.
LEMMA BuilderStore ==
    ASSUME Known, SharedInv, NEW h \in SharedHandles, NEW t \in Threads, NEW s, Goto(h, t, s),
           life[h] = "building" /\ at[h][t] # "idle",
           \A g \in SharedHandles : running'[g] = running[g],
           \A g \in SharedHandles \ {h} : life'[g] = life[g],
           life'[h] \in {"building", "failed"},
           UpDaemons' = UpDaemons, Contents' = Contents
    PROVE  StoreStep
<1>1. ~Holding(h)  BY DEF Holding
<1> QED BY <1>1, QuietStore

LEMMA CtorStore ==
    ASSUME Known, SharedInv, NEW h \in SharedHandles, NEW t \in Threads,
           \/ LoadRegistry(h, t) \/ ProbePid(h, t) \/ WriteConf(h, t) \/ Launch(h, t)
           \/ TruncateRegistry(h, t) \/ SaveRegistry(h, t) \/ PingTimeout(h, t) \/ Undo(h, t)
    PROVE  StoreStep
<1> USE DEF daemons, object
<1>t. TypeOK /\ h \in Handles  BY SharedType DEF Known, CallInv
<1>1. life[h] = "building" /\ at[h][t] # "idle"
  BY <1>t
  DEF Known, CallInv, HandleOK, BuilderOK, CtorSteps, LoadRegistry, ProbePid, WriteConf, Launch,
      TruncateRegistry, SaveRegistry, PingTimeout, Undo
<1>2. \E s : Goto(h, t, s)
  BY DEF LoadRegistry, ProbePid, WriteConf, Launch, TruncateRegistry, SaveRegistry, PingTimeout,
         Undo, Back, RollBack
<1>3. /\ running' = running /\ \A g \in SharedHandles \ {h} : life'[g] = life[g]
      /\ life'[h] \in {"building", "failed"}
  BY <1>t, <1>1, SharedType
  DEF LoadRegistry, ProbePid, WriteConf, Launch, TruncateRegistry, SaveRegistry, PingTimeout, Undo,
      TypeOK
<1>4. UpDaemons' = UpDaemons /\ Contents' = Contents
  <2>1. CASE Launch(h, t)
    <3>1. proc[h] = "free"  BY <2>1, NotYet DEF Launch, PreLaunch
    <3> QED BY <2>1, <3>1, <1>t, UpSame, StoreSame DEF Launch
  <2>2. CASE UNCHANGED <<proc, mem, rdb>>  BY <2>2, StoreSame
  <2> QED BY <2>1, <2>2
    DEF LoadRegistry, ProbePid, WriteConf, TruncateRegistry, SaveRegistry, PingTimeout, Undo
<1> QED BY <1>1, <1>2, <1>3, <1>4, BuilderStore

\* A constructor that is answered joins.
LEMMA AnswerStore ==
    ASSUME Known, SharedInv, NEW h \in SharedHandles, NEW t \in Threads, PingAnswered(h, t)
    PROVE  StoreStep
<1> USE DEF daemons, object
<1>t. TypeOK /\ h \in Handles /\ at[h][t] = "ping" /\ Goto(h, t, "idle")
  BY SharedType DEF Known, CallInv, PingAnswered
<1>1. life[h] = "building"  BY <1>t DEF Known, CallInv, HandleOK, BuilderOK, CtorSteps
<1>2. ~Holding(h)  BY <1>1 DEF Holding
<1>3. /\ \A g \in SharedHandles \ {h} : life'[g] = life[g] /\ running'[g] = running[g]
      /\ life'[h] = "built" /\ running'[h]
  BY <1>t, SharedType DEF PingAnswered, TypeOK
<1>4. UpDaemons' = UpDaemons /\ Contents' = Contents  BY StoreSame DEF PingAnswered
<1>5. UpDaemons # {}
  <2>1. Reach(h) \in SharedHandles /\ proc[Reach(h)] = "up"  BY SharedKnows DEF PingAnswered
  <2> QED BY <2>1 DEF UpDaemons
<1>6. Holding(h)'  BY <1>t, <1>3, MovedMembers
<1>7. h \notin Members /\ Members' = Members \cup {h}
  BY <1>t, <1>2, <1>3, <1>6, MembersMove DEF Members
<1> QED BY <1>4, <1>5, <1>7, StoreJoins, StoreNext

\* A close that has counted leaves.
LEMMA CountStore ==
    ASSUME Known, SharedInv, NEW h \in SharedHandles, NEW t \in Threads, Count(h, t)
    PROVE  StoreStep
<1> USE DEF daemons, object
<1>t. TypeOK /\ h \in Handles /\ at[h][t] = "count"  BY SharedType DEF Known, CallInv, Count
<1>1. PICK s \in {"capture", "leave"} : Goto(h, t, s)  BY DEF Count
<1>2. Holding(h)  BY <1>t, IdleMembers, Running DEF CloseSteps
<1>3. UNCHANGED <<life, running>>  BY DEF Count
<1>4. UpDaemons' = UpDaemons /\ Contents' = Contents  BY StoreSame DEF Count
<1>5. ~Holding(h)'  BY <1>t, <1>1, MovedMembers
<1>6. h \in Members /\ Members' = Members \ {h}
  BY <1>t, <1>1, <1>2, <1>3, <1>5, MembersMove DEF Members
<1> QED BY <1>4, <1>6, StoreLeaves, StoreNext

\* Beginning a close is nothing to the store, nor is what follows once it has left.
LEMMA CloserStore ==
    ASSUME Serialized, Known, SharedInv, NEW h \in SharedHandles, NEW t \in Threads,
           \/ BeginClose(h, t) \/ Acquire(h, t) \/ Leave(h, t) \/ CapturePid(h, t)
           \/ RemoveFiles(h, t) \/ BindProcess(h, t)
    PROVE  StoreStep
<1> USE DEF daemons, object
<1>t. TypeOK /\ h \in Handles /\ h \notin Isolated  BY SharedType DEF Known, CallInv
<1>0. UpDaemons' = UpDaemons /\ Contents' = Contents
  BY StoreSame DEF BeginClose, Acquire, Leave, CapturePid, RemoveFiles, BindProcess
<1>1. CASE BeginClose(h, t)
  <2>1. \A g \in Handles : Idle(g)  BY <1>1 DEF BeginClose, Quiet
  <2>2. Goto(h, t, "lock") /\ UNCHANGED <<life, running>>  BY <1>1 DEF BeginClose
  <2>3. Holding(h) <=> life[h] = "built" /\ running[h]  BY <1>t, <2>1 DEF Holding, Idle
  <2> QED BY <1>0, <2>1, <2>2, <2>3, QuietStore
<1>2. CASE Acquire(h, t)
  <2>1. PICK s \in {"idle", "count"} : Goto(h, t, s)  BY <1>2, <1>t DEF Acquire
  <2>2. at[h][t] = "lock" /\ UNCHANGED <<life, running>>  BY <1>2 DEF Acquire
  <2>3. Holding(h) <=> life[h] = "built" /\ running[h]  BY <2>2, IdleMembers
  <2> QED BY <1>0, <2>1, <2>2, <2>3, QuietStore
<1>3. CASE Leave(h, t) \/ RemoveFiles(h, t)
  <2>1. Goto(h, t, "idle") /\ at[h][t] \in {"leave", "remove"}
    BY <1>3 DEF Leave, RemoveFiles, Return, Back
  <2>2. ~running'[h] /\ \A g \in SharedHandles \ {h} : life'[g] = life[g] /\ running'[g] = running[g]
    BY <1>3, <1>t, SharedType DEF Leave, RemoveFiles, TypeOK
  <2>3. ~Holding(h)  BY <2>1 DEF Holding
  <2> QED BY <1>0, <2>1, <2>2, <2>3, QuietStore
<1>4. CASE CapturePid(h, t) \/ BindProcess(h, t)
  <2>1. PICK s : Goto(h, t, s) /\ s \notin {"idle", "lock", "count"}
    BY <1>4 DEF CapturePid, BindProcess, AfterTerm
  <2>2. at[h][t] \in {"capture", "term"} /\ UNCHANGED <<life, running>>
    BY <1>4 DEF CapturePid, BindProcess
  <2>3. ~Holding(h)  BY <2>2 DEF Holding
  <2> QED BY <1>0, <2>1, <2>2, <2>3, QuietStore
<1> QED BY <1>1, <1>2, <1>3, <1>4

\* A server that exits in order leaves its data to the next.
LEMMA ExitStore ==
    ASSUME Orderly, Known, SharedInv, NEW q \in SharedHandles, proc[q] = "up",
           ExitOrderly(q, TRUE), mem' = mem, Members = {}, Members' = {}
    PROVE  StoreStep
<1>t. TypeOK /\ q \in Handles /\ q \notin Isolated  BY SharedType DEF Known, CallInv
<1>1. UpDaemons = {q} /\ Contents = mem[q] /\ setup[q].file = "main"  BY OneUp, MainFile, <1>t
<1>2. rdb'["main"] = mem[q]  BY <1>t, <1>1 DEF ExitOrderly, TypeOK, Files
<1>3. UpDaemons' = {}
  <2>1. \A r \in SharedHandles : proc'[r] = "up" => r # q /\ proc[r] = "up"
    BY <1>t, SharedType DEF ExitOrderly, TypeOK
  <2> QED BY <1>1, <2>1 DEF UpDaemons
<1>4. Contents' = Contents  BY <1>1, <1>2, <1>3 DEF Contents
<1> QED BY <1>1, <1>3, <1>4, StoreStops, StoreNext

\* A step of a call that ends a server, or finds that it has none to end.
LEMMA EndingStore ==
    ASSUME Known, SharedInv, Lossless, NEW h \in SharedHandles, NEW t \in Threads, NEW s,
           Goto(h, t, s), s \notin {"idle", "lock", "count"}, Exclusive(h, t),
           UNCHANGED <<life, running>>
    PROVE  /\ Members = {} /\ Members' = {} /\ ~Holding(h)
           /\ UpDaemons' = UpDaemons /\ Contents' = Contents => StoreStep
<1>t. TypeOK  BY DEF Known, CallInv
<1>1. Members = {} /\ ~Holding(h)  BY NobodyHolds DEF Members
<1>2. at[h][t] # "idle"  BY DEF Exclusive
<1>3. Members' = {}  BY <1>t, <1>1, <1>2, MovedMembers, MembersMove
<1> QED BY <1>1, <1>3, StoreStutters, StoreNext

LEMMA SignalStore ==
    ASSUME Orderly, Lossless, Gentle, Known, SharedInv,
           NEW h \in SharedHandles, NEW t \in Threads, Signal(h, t)
    PROVE  StoreStep
<1> USE DEF daemons, object
<1> DEFINE p == pid[h][t]
<1>t. TypeOK /\ h \in Handles /\ at[h][t] = "signal"  BY SharedType DEF Known, CallInv, Signal
<1>n. p # None  BY <1>t, CallsType DEF Known, SignalsSomeone
<1>1. p \in SharedHandles /\ p \in Handles  BY <1>n, SharedKnows, SharedType
<1>2. Exclusive(h, t)
  <2>1. HandleOK(h)  BY <1>t DEF Known, CallInv
  <2>2. Owner(h)  BY <1>t, <1>n, <2>1 DEF HandleOK, RollbackOK, TermSteps, Owner
  <2> QED BY <1>t, <2>2 DEF Exclusive
<1>3. Goto(h, t, AfterTerm(h)) /\ AfterTerm(h) \notin {"idle", "lock", "count"}
  BY DEF Signal, AfterTerm
<1>4. UNCHANGED <<life, running>> /\ mem' = mem  BY DEF Signal
<1>5. /\ Members = {} /\ Members' = {}
      /\ UpDaemons' = UpDaemons /\ Contents' = Contents => StoreStep
  BY <1>2, <1>3, <1>4, EndingStore
<1>6. CASE proc[p] = "up"
  <2>1. ExitOrderly(p, TRUE)  BY <1>6 DEF Signal, Gentle, Live
  <2> QED BY <1>1, <1>4, <1>5, <1>6, <2>1, ExitStore
<1>7. CASE proc[p] # "up"
  <2>1. UNCHANGED <<proc, mem, rdb>> \/ (proc' = [proc EXCEPT ![p] = "dead"] /\ UNCHANGED <<mem, rdb>>)
    BY <1>7 DEF Signal
  <2>2. UpDaemons' = UpDaemons /\ Contents' = Contents
    BY <1>1, <1>7, <1>t, <2>1, StoreSame, UpSame
  <2> QED BY <1>5, <2>2
<1> QED BY <1>6, <1>7

LEMMA ShutdownStore ==
    ASSUME Orderly, Lossless, Known, SharedInv,
           NEW h \in SharedHandles, NEW t \in Threads, Shutdown(h, t)
    PROVE  StoreStep
<1> USE DEF object
<1>1. Exclusive(h, t) /\ Goto(h, t, "term") /\ UNCHANGED <<life, running>> /\ mem' = mem
  BY DEF Shutdown, Exclusive
<1>2. /\ Members = {} /\ Members' = {}
      /\ UpDaemons' = UpDaemons /\ Contents' = Contents => StoreStep
  BY <1>1, EndingStore
<1>3. CASE Reach(h) # None /\ ExitOrderly(Reach(h), Saves(h))
  <2>1. Reach(h) \in SharedHandles /\ proc[Reach(h)] = "up"  BY <1>3, SharedKnows
  <2>2. Saves(h) = TRUE  BY SharedType DEF Saves
  <2> QED BY <1>1, <1>2, <1>3, <2>1, <2>2, ExitStore
<1>4. CASE UNCHANGED <<proc, rdb, pidfile, sock>>  BY <1>1, <1>2, <1>4, StoreSame
<1> QED BY <1>3, <1>4 DEF Shutdown

LEMMA CallStore ==
    ASSUME Orderly, Lossless, Gentle, Known, SharedInv, NEW h \in SharedHandles, NEW t \in Threads,
           Open(h, t) \/ BeginClose(h, t) \/ Step(h, t) \/ Interrupt(h, t)
    PROVE  StoreStep
<1>t. TypeOK /\ Serialized /\ h \in Handles  BY SharedType DEF Known, CallInv, Orderly
<1>1. ~SignalForeign(h, t)  BY DEF SharedInv, StepsOK, StepOK, ServersOK, SignalForeign
<1>2. ~Interrupt(h, t) /\ ~CountFails(h, t)
  BY SafeFaults DEF Interrupt, CountFails, Lossless, LossFaults
<1>3. CASE Open(h, t)
  <2>1. \A g \in Handles : Idle(g)  BY <1>3, <1>t DEF Open, Quiet
  <2>2. Goto(h, t, FirstStep(h)) /\ FirstStep(h) \notin {"idle", "lock", "count"} /\ running' = running
    BY <1>3 DEF Open, FirstStep
  <2>3. \A g \in SharedHandles \ {h} : life'[g] = life[g]  BY <1>3, <1>t, SharedType DEF Open, TypeOK
  <2>4. ~Holding(h)  BY <1>3 DEF Open, Holding
  <2>5. UpDaemons' = UpDaemons /\ Contents' = Contents  BY <1>3, StoreSame DEF Open, daemons
  <2> QED BY <2>1, <2>2, <2>3, <2>4, <2>5, QuietStore
<1>4. CASE \/ LoadRegistry(h, t) \/ ProbePid(h, t) \/ WriteConf(h, t) \/ Launch(h, t)
           \/ TruncateRegistry(h, t) \/ SaveRegistry(h, t) \/ PingTimeout(h, t) \/ Undo(h, t)
  BY <1>4, CtorStore
<1>5. CASE \/ BeginClose(h, t) \/ Acquire(h, t) \/ Leave(h, t) \/ CapturePid(h, t)
           \/ RemoveFiles(h, t) \/ BindProcess(h, t)
  BY <1>5, <1>t, CloserStore
<1>6. CASE PingAnswered(h, t) \/ Count(h, t) \/ Signal(h, t) \/ Shutdown(h, t)
  BY <1>6, AnswerStore, CountStore, SignalStore, ShutdownStore
<1> QED BY <1>1, <1>2, <1>3, <1>4, <1>5, <1>6 DEF Step

-----------------------------------------------------------------------------
(* Daemons, the program around the instances, and private instances.       *)

LEMMA MembersSame ==
    ASSUME \A h \in SharedHandles :
              at'[h] = at[h] /\ life'[h] = life[h] /\ running'[h] = running[h]
    PROVE  Members' = Members
BY DEF Members, Holding

LEMMA BootStore ==
    ASSUME Orderly, Lossless, Known, SharedInv, NEW q \in SharedHandles, Boot(q)
    PROVE  StoreStep
<1> USE DEF object, calls
<1>t. TypeOK /\ q \in Handles /\ q \notin Isolated  BY SharedType DEF Known, CallInv
<1>1. Members' = Members  BY MembersSame DEF Boot, WritePidfile, Serve, BindFails
<1>2. CASE WritePidfile(q) \/ BindFails(q)
  <2>1. UpDaemons' = UpDaemons /\ Contents' = Contents
    BY <1>2, <1>t, UpSame DEF WritePidfile, BindFails
  <2> QED BY <1>1, <2>1, StoreStutters, StoreNext
<1>3. CASE Serve(q)
  <2>1. proc[q] \in Live /\ Booting(q)
    BY <1>3 DEF Serve, Live, SharedInv, DaemonsOK, Found
  <2>2. Members = {}  BY <2>1, BootingNobodyHolds DEF Members
  <2>3. setup[q].file = "main"  BY <2>1, <1>t, MainFile DEF Booting, Rendered
  <2>4. UpDaemons = {}
    <3>1. OnlyServer(q)  BY <2>1, BootingAlone
    <3> QED BY <1>3, <3>1 DEF UpDaemons, OnlyServer, Serve, Live
  <2>5. UpDaemons' = {q}
    <3>1. proc'[q] = "up" /\ \A r \in SharedHandles \ {q} : proc'[r] = proc[r]
      BY <1>3, <1>t, SharedType DEF Serve, TypeOK
    <3> QED BY <2>4, <3>1 DEF UpDaemons
  <2>6. Contents' = Contents
    <3>1. mem'[q] = rdb["main"]  BY <1>3, <1>t, <2>3 DEF Serve, TypeOK
    <3> QED BY <2>4, <2>5, <3>1 DEF Contents
  <2> QED BY <1>1, <2>2, <2>4, <2>5, <2>6, StoreStarts, StoreNext
<1> QED BY <1>2, <1>3 DEF Boot

LEMMA WriteStore ==
    ASSUME Orderly, Lossless, Gentle, Known, SharedInv, NEW h \in SharedHandles, Write(h)
    PROVE  StoreStep
<1> USE DEF object, calls
<1>t. TypeOK /\ h \in Handles  BY SharedType DEF Known, CallInv
<1>1. h \in Members
  <2>1. \A g \in Handles : Idle(g)  BY DEF Write, Quiet, Orderly
  <2>2. life[h] = "built" /\ running[h]  BY DEF Write, Gentle
  <2> QED BY <1>t, <2>1, <2>2 DEF Members, Holding, Idle
<1>2. PICK q \in SharedHandles : q = Reach(h) /\ proc[q] = "up"  BY SharedKnows DEF Write
<1>3. UpDaemons = {q} /\ Contents = mem[q]  BY <1>2, OneUp
<1>4. UpDaemons' = UpDaemons /\ Members' = Members  BY MembersSame DEF Write, UpDaemons
<1>5. mem'[q] = mem[q] \cup ({h} \cap Writers)  BY <1>2, <1>t, SharedType DEF Write, TypeOK
<1>6. Contents' = Contents \cup ({h} \cap Writers)  BY <1>3, <1>4, <1>5 DEF Contents
<1>7. CASE h \in Writers
  <2>1. Contents' = Contents \cup {h}  BY <1>6, <1>7
  <2> QED BY <1>1, <1>3, <1>4, <1>7, <2>1, StoreWrites, StoreNext
<1>8. CASE h \notin Writers
  <2>1. Contents' = Contents  BY <1>6, <1>8
  <2> QED BY <1>4, <2>1, StoreStutters, StoreNext
<1> QED BY <1>7, <1>8

LEMMA KillStore ==
    ASSUME Orderly, Known, NEW h \in SharedHandles, ClientCrash(h) PROVE StoreStep
<1> USE DEF daemons
<1>t. TypeOK /\ h \in Handles  BY SharedType DEF Known, CallInv
<1>1. UpDaemons' = UpDaemons /\ Contents' = Contents  BY StoreSame DEF ClientCrash
<1>2. /\ \A g \in SharedHandles \ {h} :
            at'[g] = at[g] /\ life'[g] = life[g] /\ running'[g] = running[g]
      /\ life'[h] = "crashed"
  BY <1>t, SharedType DEF ClientCrash, TypeOK
<1>3. Members' = Members \ {h}  BY <1>2 DEF Members, Holding
<1>4. CASE h \in Members  BY <1>1, <1>3, <1>4, StoreLeaves, StoreNext
<1>5. CASE h \notin Members  BY <1>1, <1>3, <1>5, StoreStutters, StoreNext
<1> QED BY <1>4, <1>5

\* A private instance has a data set of its own.
LEMMA PrivateStore ==
    ASSUME Known, SharedSame, rdb' = rdb, \A q \in SharedHandles : mem'[q] = mem[q]
    PROVE  StoreStep
<1>1. UpDaemons' = UpDaemons /\ Members' = Members  BY MembersSame DEF SharedSame, UpDaemons
<1>2. Contents' = Contents
  <2>1. \A q \in UpDaemons : mem'[q] = mem[q]  BY DEF UpDaemons
  <2> QED BY <1>1, <2>1 DEF Contents
<1> QED BY <1>1, <1>2, StoreStutters, StoreNext

LEMMA PrivateCallStore ==
    ASSUME Orderly, Known, NEW h \in Isolated, NEW t \in Threads,
           Open(h, t) \/ BeginClose(h, t) \/ Step(h, t) \/ Interrupt(h, t)
    PROVE  StoreStep
<1>t. TypeOK /\ Apart  BY DEF Known, CallInv
<1>1. SharedSame  BY PrivateCalls
<1>2. rdb' = rdb /\ mem' = mem
  <2>1. CASE Signal(h, t)
    <3>1. pid[h][t] \in Isolated
      BY <1>t, <2>1, OwnFiles, CallsType DEF Known, Signal, SignalsSomeone
    <3> QED BY <2>1, <3>1 DEF Signal, ExitOrderly
  <2>2. CASE Shutdown(h, t)
    <3>1. Reach(h) \in {None, h}  BY <1>t, OwnFiles
    <3> QED BY <2>2, <3>1 DEF Shutdown, ExitOrderly
  <2>3. CASE ~(Signal(h, t) \/ Shutdown(h, t))
    BY <2>3
    DEF Open, BeginClose, Step, LoadRegistry, ProbePid, WriteConf, Launch, TruncateRegistry,
        SaveRegistry, PingAnswered, PingTimeout, Undo, BindProcess, SignalForeign, Acquire, Count,
        CountFails, Leave, CapturePid, RemoveFiles, Interrupt, daemons
  <2> QED BY <2>1, <2>2, <2>3
<1> QED BY <1>1, <1>2, PrivateStore

LEMMA PrivateDaemonStore ==
    ASSUME Known, NEW h \in Isolated,
           Boot(h) \/ Crash(h) \/ ReusePid(h) \/ Write(h) \/ Grow(h) \/ Visit(h) \/ ClientCrash(h)
    PROVE  StoreStep
<1> USE DEF daemons
<1>t. TypeOK /\ Apart  BY DEF Known, CallInv
<1>1. SharedSame  BY PrivateDaemons
<1>2. rdb' = rdb
  BY DEF Boot, WritePidfile, Serve, BindFails, Crash, ReusePid, Write, Grow, Visit, ClientCrash
<1>3. \A q \in SharedHandles : mem'[q] = mem[q]
  <2>1. CASE Serve(h)  BY <2>1, <1>t, SharedType DEF Serve, TypeOK
  <2>2. CASE Write(h)
    <3>1. Reach(h) = h  BY <2>2, <1>t, OwnFiles DEF Write
    <3> QED BY <2>2, <3>1, <1>t, SharedType DEF Write, TypeOK
  <2>3. CASE UNCHANGED mem  BY <2>3
  <2> QED BY <2>1, <2>2, <2>3
    DEF Boot, WritePidfile, BindFails, Crash, ReusePid, Grow, Visit, ClientCrash
<1> QED BY <1>1, <1>2, <1>3, PrivateStore

-----------------------------------------------------------------------------
LEMMA StoreInit == Init => Store!Init
<1> SUFFICES ASSUME Init PROVE Store!Init  OBVIOUS
<1>1. UpDaemons = {}  BY SharedType DEF Init, UpDaemons
<1>2. \A h \in SharedHandles : life[h] # "built"  BY SharedType DEF Init
<1>3. rdb["main"] = {}  BY DEF Init, Files
<1> QED BY <1>1, <1>2, <1>3 DEF Store!Init

LEMMA EveryStep ==
    ASSUME Orderly, Lossless, Gentle, Known, SharedInv, [Next]_vars PROVE StoreStep
<1>1. ASSUME NEW h \in SharedHandles, NEW t \in Threads,
             Open(h, t) \/ BeginClose(h, t) \/ Step(h, t) \/ Interrupt(h, t)
      PROVE  StoreStep
  BY <1>1, CallStore
<1>2. ASSUME NEW h \in SharedHandles, Boot(h) \/ Write(h) \/ ClientCrash(h) PROVE StoreStep
  BY <1>2, BootStore, WriteStore, KillStore
<1>3. ASSUME NEW h \in SharedHandles, Crash(h) \/ ReusePid(h) PROVE FALSE
  BY <1>3, SafeFaults DEF Crash, ReusePid, Lossless, LossFaults
<1>4. ASSUME UNCHANGED <<daemons, rdb, object, calls>> PROVE StoreStep
  <2>1. UpDaemons' = UpDaemons /\ Contents' = Contents  BY <1>4, StoreSame DEF daemons
  <2>2. Members' = Members  BY <1>4, MembersSame DEF object, calls
  <2> QED BY <2>1, <2>2, StoreStutters, StoreNext
<1>5. ASSUME NEW h \in SharedHandles, Grow(h) \/ Visit(h) PROVE StoreStep
  BY <1>5, <1>4 DEF Grow, Visit
<1>6. ASSUME NEW h \in Isolated, NEW t \in Threads,
             Open(h, t) \/ BeginClose(h, t) \/ Step(h, t) \/ Interrupt(h, t)
      PROVE  StoreStep
  BY <1>6, PrivateCallStore
<1>7. ASSUME NEW h \in Isolated,
             Boot(h) \/ Crash(h) \/ ReusePid(h) \/ Write(h) \/ Grow(h) \/ Visit(h) \/ ClientCrash(h)
      PROVE  StoreStep
  BY <1>7, PrivateDaemonStore
<1>8. CASE UNCHANGED vars  BY <1>8, <1>4 DEF vars
<1> QED BY <1>1, <1>2, <1>3, <1>5, <1>6, <1>7, <1>8 DEF Next, SharedHandles

\* The instances of one path, taken together, are a store that one server serves
\* while anybody holds it, that is stopped only when nobody does, and that finds
\* again at its next start all that was written: they begin as SharedStore does, and
\* each of their steps is one of its own, or none.  (What they do not share with it
\* is its fairness: that the unheld store does go down is for TLC.)
THEOREM StepsOfTheStore ==
    ASSUME Orderly, Lossless, Gentle
    PROVE  Spec => Store!Init /\ [][Store!Next]_(Store!vars)
<1>1. Known /\ SharedInv /\ [Next]_vars => [Store!Next]_(Store!vars)  BY EveryStep DEF StoreStep
<1>2. Spec => []Known  BY AllKnown DEF Orderly
<1> QED BY <1>1, <1>2, StoreInit, SharedCorrect, PTL DEF Spec
=============================================================================
