-------------------------- MODULE Isolation_proofs --------------------------
(***************************************************************************)
(* Private and shared instances, each with its own server, for any set of  *)
(* instances and threads and any interleaving of their processes.          *)
(*                                                                         *)
(* Part 1: a private instance is never connected to the daemon of another  *)
(* instance, nor about to signal it, and no other instance is to the       *)
(* private one's.  The client knows daemons by files only, so the          *)
(* invariant, Apart, says of every file, socket, connection and pid that   *)
(* it leads to a daemon of the directory it was found for.  Part 2: every  *)
(* instance launches at most one daemon, and what refers to a daemon       *)
(* refers to one that has been launched.  Part 3: an instance is connected *)
(* to the server of its own RDB path.  Part 4: a private instance that is  *)
(* done has taken its daemon and its directories with it.                  *)
(***************************************************************************)
EXTENDS EmbeddedClient_proofs

-----------------------------------------------------------------------------
(* Part 1: whose files.                                                    *)

\* The directory that a socket location serves.
Home(l) == IF l \in Isolated THEN l ELSE Shared

\* What is written in a directory, or listens at a location, belongs there.
PidfilesApart == \A d \in Dirs : pidfile[d] # None => Dir(pidfile[d]) = d
ConfsApart == \A d \in Dirs : conf[d] # None => Home(conf[d].sock) = d
SocketsApart == \A l \in Locs : sock[l] # None => Dir(sock[l]) = Home(l)
RegistriesApart == \A f \in Files : registry[f] \in Locs => Home(registry[f]) = Shared

\* A daemon has read the valkey.conf of its directory.
SetupsApart == \A q \in Handles : setup[q] # None => Home(setup[q].sock) = Dir(q)

\* An instance uses sockets, connections and pids of its directory, and a private
\* one goes nowhere near the registry.
SocketFilesApart == \A h \in Handles : Home(socketFile[h]) = Dir(h)
LinksApart == \A h \in Handles : link[h] # None => Dir(link[h]) = Dir(h)
PidsApart == \A h \in Handles, t \in Threads : pid[h][t] # None => Dir(pid[h][t]) = Dir(h)
RegistrySteps == {"load", "probe", "truncate", "save"}
StepsApart == \A h \in Handles, t \in Threads : at[h][t] \in RegistrySteps => h \notin Isolated

FilesApart == PidfilesApart /\ ConfsApart /\ SocketsApart /\ RegistriesApart
Apart ==
    /\ FilesApart /\ SetupsApart
    /\ SocketFilesApart /\ LinksApart /\ PidsApart /\ StepsApart

-----------------------------------------------------------------------------
(* What an instance finds is of its directory, if all files are.           *)

LEMMA LocHome == \A h \in Handles : Home(Loc(h)) = Dir(h) /\ Home(h) = Dir(h)
BY HandlesAssumption, NamesAssumption DEF Home, Loc, Dir

LEMMA ReachHome ==
    ASSUME TypeOK, Apart, NEW h \in Handles, Reach(h) # None
    PROVE  Dir(Reach(h)) = Dir(h)
BY DEF TypeOK, Apart, FilesApart, SocketsApart, SocketFilesApart, LinksApart, Reach

LEMMA PidHome ==
    ASSUME TypeOK, Apart, NEW h \in Handles, PidOf(h) # None
    PROVE  Dir(PidOf(h)) = Dir(h)
BY DirType DEF TypeOK, Apart, FilesApart, PidfilesApart, PidOf

-----------------------------------------------------------------------------
(* The moves that actions share.                                           *)

LEMMA GotoApart ==
    ASSUME TypeOK, StepsApart, NEW h \in Handles, NEW t \in Threads, NEW s, Goto(h, t, s),
           s \in RegistrySteps => h \notin Isolated
    PROVE  StepsApart'
BY DEF TypeOK, StepsApart, Goto

LEMMA NoteApart ==
    ASSUME TypeOK, PidsApart, NEW h \in Handles, NEW t \in Threads, NEW p,
           p # None => Dir(p) = Dir(h), pid' = [pid EXCEPT ![h][t] = p]
    PROVE  PidsApart'
BY DEF TypeOK, PidsApart, Dir

LEMMA RollBackApart ==
    ASSUME TypeOK, Apart, NEW h \in Handles, NEW t \in Threads, RollBack(h, t)
    PROVE  StepsApart' /\ PidsApart'
<1>1. StepsApart'  BY GotoApart DEF RollBack, RegistrySteps, Apart
<1>2. PidsApart'  BY NoteApart, PidHome DEF RollBack, Apart
<1> QED BY <1>1, <1>2

LEMMA BackApart ==
    ASSUME TypeOK, Apart, NEW h \in Handles, NEW t \in Threads, Back(h, t)
    PROVE  StepsApart' /\ PidsApart'
<1>1. StepsApart'  BY GotoApart DEF Back, RegistrySteps, Apart
<1>2. PidsApart'  BY NoteApart DEF Back, Apart
<1> QED BY <1>1, <1>2

LEMMA ConnectApart ==
    ASSUME TypeOK, Apart, NEW h \in Handles, Connect(h)
    PROVE  LinksApart'
BY ReachHome DEF TypeOK, Apart, LinksApart, Connect, Dir

LEMMA DisconnectApart ==
    ASSUME TypeOK, LinksApart, NEW h \in Handles, Disconnect(h)
    PROVE  LinksApart'
BY DEF TypeOK, LinksApart, Disconnect, Dir

LEMMA ReturnApart ==
    ASSUME TypeOK, Apart, NEW h \in Handles, NEW t \in Threads, Return(h, t)
    PROVE  StepsApart' /\ PidsApart' /\ LinksApart'
BY BackApart, DisconnectApart DEF Return, Apart

\* Unlinking, by name, whatever is there.
LEMMA ExitApart ==
    ASSUME TypeOK, Apart, NEW q, NEW save, ExitOrderly(q, save)
    PROVE  PidfilesApart' /\ SocketsApart'
BY DEF TypeOK, Apart, FilesApart, PidfilesApart, SocketsApart, ExitOrderly, Dir

-----------------------------------------------------------------------------
(* Steps.                                                                  *)

LEMMA ApartInit == Init => Apart
BY LocHome, NamesAssumption
DEF Locs, Init, Apart, FilesApart, PidfilesApart, ConfsApart, SocketsApart, RegistriesApart,
     SetupsApart, SocketFilesApart, LinksApart, PidsApart, StepsApart, RegistrySteps

LEMMA ApartStep == ASSUME TypeOK, TypeOK', Apart, [Next]_vars PROVE Apart'
<1> USE DEF daemons, runfiles, dirs, object, calls, conns
<1>f. ASSUME UNCHANGED <<pidfile, conf, sock, registry>> PROVE FilesApart'
  BY <1>f DEF Apart, FilesApart, PidfilesApart, ConfsApart, SocketsApart, RegistriesApart
<1>d. ASSUME UNCHANGED setup PROVE SetupsApart'  BY <1>d DEF Apart, SetupsApart
<1>s. ASSUME UNCHANGED socketFile PROVE SocketFilesApart'  BY <1>s DEF Apart, SocketFilesApart
<1>l. ASSUME UNCHANGED link PROVE LinksApart'  BY <1>l DEF Apart, LinksApart
<1>p. ASSUME UNCHANGED pid PROVE PidsApart'  BY <1>p DEF Apart, PidsApart
<1>a. ASSUME UNCHANGED at PROVE StepsApart'  BY <1>a DEF Apart, StepsApart
<1>1. ASSUME NEW h \in Handles, NEW t \in Threads, Open(h, t) PROVE Apart'
  <2>1. StepsApart'  BY <1>1, GotoApart DEF Open, FirstStep, RegistrySteps, Apart
  <2> QED BY <2>1, <1>1, <1>f, <1>d, <1>s, <1>l, <1>p DEF Open, Apart
<1>2. ASSUME NEW h \in Handles, NEW t \in Threads, LoadRegistry(h, t) PROVE Apart'
  <2>1. h \notin Isolated  BY <1>2 DEF LoadRegistry, RegistrySteps, Apart, StepsApart
  <2>2. StepsApart'
    <3>1. PICK s : Goto(h, t, s)  BY <1>2 DEF LoadRegistry
    <3> QED BY <2>1, <3>1, GotoApart DEF Apart
  <2>3. SocketFilesApart'
    <3>1. CASE socketFile' = [socketFile EXCEPT ![h] = registry[File(h)]] /\ registry[File(h)] \in Locs
      BY <2>1, <3>1, RenderedType
      DEF TypeOK, Apart, FilesApart, RegistriesApart, SocketFilesApart, Dir
    <3> QED BY <1>2, <1>s, <3>1 DEF LoadRegistry, Readable
  <2> QED BY <2>2, <2>3, <1>2, <1>f, <1>d, <1>l, <1>p DEF LoadRegistry, Apart
<1>3. ASSUME NEW h \in Handles, NEW t \in Threads, ProbePid(h, t) PROVE Apart'
  <2>1. StepsApart'  BY <1>3, GotoApart DEF ProbePid, RegistrySteps, Apart
  <2>2. SocketFilesApart'  BY <1>3, LocHome DEF ProbePid, TypeOK, Apart, SocketFilesApart
  <2> QED BY <2>1, <2>2, <1>3, <1>f, <1>d, <1>l, <1>p DEF ProbePid, Apart
<1>4. ASSUME NEW h \in Handles, NEW t \in Threads, WriteConf(h, t) PROVE Apart'
  <2>1. StepsApart'  BY <1>4, GotoApart DEF WriteConf, RegistrySteps, Apart
  <2>2. ConfsApart'  BY <1>4, LocHome DEF WriteConf, Rendered, TypeOK, Apart, FilesApart, ConfsApart
  <2>3. FilesApart'
    BY <1>4, <2>2 DEF WriteConf, Apart, FilesApart, PidfilesApart, SocketsApart, RegistriesApart
  <2> QED BY <2>1, <2>2, <2>3, <1>4, <1>d, <1>s, <1>l, <1>p DEF WriteConf, Apart
<1>5. ASSUME NEW h \in Handles, NEW t \in Threads, Launch(h, t) PROVE Apart'
  <2>1. StepsApart'  BY <1>5, GotoApart DEF Launch, RegistrySteps, Apart
  <2>2. SetupsApart'  BY <1>5, DirType DEF Launch, TypeOK, Apart, FilesApart, ConfsApart, SetupsApart
  <2> QED BY <2>1, <2>2, <1>5, <1>f, <1>s, <1>l, <1>p DEF Launch, Apart
<1>6. ASSUME NEW h \in Handles, NEW t \in Threads, TruncateRegistry(h, t) PROVE Apart'
  <2>1. StepsApart' /\ PidsApart'
    BY <1>6, <1>p, RollBackApart, GotoApart
    DEF TruncateRegistry, RegistrySteps, Apart, StepsApart
  <2>2. RegistriesApart'
    BY <1>6, NamesAssumption
    DEF TruncateRegistry, TypeOK, Apart, FilesApart, RegistriesApart, Locs
  <2>3. FilesApart'
    BY <1>6, <2>2
    DEF TruncateRegistry, Apart, FilesApart, PidfilesApart, SocketsApart, ConfsApart
  <2> QED BY <2>1, <2>2, <2>3, <1>6, <1>d, <1>s, <1>l DEF TruncateRegistry, Apart
<1>7. ASSUME NEW h \in Handles, NEW t \in Threads, SaveRegistry(h, t) PROVE Apart'
  <2>1. StepsApart' /\ PidsApart'
    BY <1>7, <1>p, RollBackApart, GotoApart DEF SaveRegistry, RegistrySteps, Apart, StepsApart
  <2>2. h \notin Isolated  BY <1>7 DEF SaveRegistry, RegistrySteps, Apart, StepsApart
  <2>3. RegistriesApart'
    <3>1. CASE registry' = registry
      BY <3>1 DEF Apart, FilesApart, RegistriesApart
    <3>2. CASE registry' = [registry EXCEPT ![File(h)] = IF @ = None THEN None ELSE Loc(h)]
      BY <2>2, <3>2, LocHome, NamesAssumption
      DEF TypeOK, Apart, FilesApart, RegistriesApart, Locs, Dir
    <3> QED BY <1>7, <3>1, <3>2 DEF SaveRegistry
  <2>4. FilesApart'
    BY <1>7, <2>3 DEF SaveRegistry, Apart, FilesApart, PidfilesApart, SocketsApart, ConfsApart
  <2> QED BY <2>1, <2>2, <2>3, <2>4, <1>7, <1>d, <1>s, <1>l DEF SaveRegistry, Apart
<1>8. ASSUME NEW h \in Handles, NEW t \in Threads, PingAnswered(h, t) PROVE Apart'
  <2>1. StepsApart'  BY <1>8, GotoApart DEF PingAnswered, RegistrySteps, Apart
  <2>2. LinksApart'  BY <1>8, ConnectApart DEF PingAnswered
  <2> QED BY <2>1, <2>2, <1>8, <1>f, <1>d, <1>s, <1>p DEF PingAnswered, Apart
<1>9. ASSUME NEW h \in Handles, NEW t \in Threads, PingTimeout(h, t) PROVE Apart'
  <2>1. StepsApart' /\ PidsApart'  BY <1>9, RollBackApart DEF PingTimeout
  <2> QED BY <2>1, <1>9, <1>f, <1>d, <1>s, <1>l DEF PingTimeout, Apart
<1>10. ASSUME NEW h \in Handles, NEW t \in Threads, Undo(h, t) PROVE Apart'
  <2>1. StepsApart' /\ PidsApart'  BY <1>10, BackApart DEF Undo
  <2>2. PidfilesApart' /\ ConfsApart'  BY <1>10 DEF Undo, Apart, FilesApart, PidfilesApart, ConfsApart
  <2>3. SocketsApart'  BY <1>10 DEF Undo, TypeOK, Apart, FilesApart, SocketsApart
  <2>4. RegistriesApart'
    BY <1>10, NamesAssumption DEF Undo, TypeOK, Apart, FilesApart, RegistriesApart, Locs
  <2>5. FilesApart'  BY <2>2, <2>3, <2>4 DEF FilesApart
  <2> QED BY <2>1, <2>2, <2>3, <2>4, <2>5, <1>10, <1>d, <1>s, <1>l DEF Undo, Apart
<1>11. ASSUME NEW h \in Handles, NEW t \in Threads, BindProcess(h, t) PROVE Apart'
  <2>1. StepsApart'  BY <1>11, GotoApart DEF BindProcess, AfterTerm, RegistrySteps, Apart
  <2> QED BY <2>1, <1>11, <1>f, <1>d, <1>s, <1>l, <1>p DEF BindProcess, Apart
<1>12. ASSUME NEW h \in Handles, NEW t \in Threads, Signal(h, t) PROVE Apart'
  <2>1. StepsApart'  BY <1>12, GotoApart DEF Signal, AfterTerm, RegistrySteps, Apart
  <2>2. PidfilesApart' /\ SocketsApart'
    BY <1>12, ExitApart DEF Signal, Apart, FilesApart, PidfilesApart, SocketsApart
  <2>3. FilesApart'  BY <1>12, <2>2 DEF Signal, Apart, FilesApart, ConfsApart, RegistriesApart
  <2> QED BY <2>1, <2>2, <2>3, <1>12, <1>d, <1>s, <1>l, <1>p DEF Signal, Apart
<1>13. ASSUME NEW h \in Handles, NEW t \in Threads, SignalForeign(h, t) PROVE Apart'
  <2>1. StepsApart'  BY <1>13, GotoApart DEF SignalForeign, AfterTerm, RegistrySteps, Apart
  <2> QED BY <2>1, <1>13, <1>f, <1>d, <1>s, <1>l, <1>p DEF SignalForeign, Apart
<1>14. ASSUME NEW h \in Handles, NEW t \in Threads, BeginClose(h, t) PROVE Apart'
  <2>1. StepsApart'  BY <1>14, GotoApart DEF BeginClose, RegistrySteps, Apart
  <2> QED BY <2>1, <1>14, <1>f, <1>d, <1>s, <1>l, <1>p DEF BeginClose, Apart
<1>15. ASSUME NEW h \in Handles, NEW t \in Threads, Acquire(h, t) PROVE Apart'
  <2>1. StepsApart'  BY <1>15, GotoApart DEF Acquire, RegistrySteps, Apart
  <2>2. LinksApart'  BY <1>15, <1>l, DisconnectApart DEF Acquire, Apart
  <2> QED BY <2>1, <2>2, <1>15, <1>f, <1>d, <1>s, <1>p DEF Acquire, Apart
<1>16. ASSUME NEW h \in Handles, NEW t \in Threads, Count(h, t) PROVE Apart'
  <2>1. StepsApart'  BY <1>16, GotoApart DEF Count, RegistrySteps, Apart
  <2>2. LinksApart'  BY <1>16, ConnectApart DEF Count
  <2> QED BY <2>1, <2>2, <1>16, <1>f, <1>d, <1>s, <1>p DEF Count, Apart
<1>17. ASSUME NEW h \in Handles, NEW t \in Threads, CountFails(h, t) PROVE Apart'
  <2>1. StepsApart' /\ PidsApart' /\ LinksApart'  BY <1>17, ReturnApart DEF CountFails
  <2> QED BY <2>1, <1>17, <1>f, <1>d, <1>s DEF CountFails, Apart
<1>18. ASSUME NEW h \in Handles, NEW t \in Threads, Leave(h, t) PROVE Apart'
  <2>1. StepsApart' /\ PidsApart' /\ LinksApart'  BY <1>18, ReturnApart DEF Leave
  <2> QED BY <2>1, <1>18, <1>f, <1>d, <1>s DEF Leave, Apart
<1>19. ASSUME NEW h \in Handles, NEW t \in Threads, CapturePid(h, t) PROVE Apart'
  <2>1. StepsApart'  BY <1>19, GotoApart DEF CapturePid, RegistrySteps, Apart
  <2>2. PidsApart'  BY <1>19, NoteApart, PidHome DEF CapturePid, CapturedPid, Apart
  <2> QED BY <2>1, <2>2, <1>19, <1>f, <1>d, <1>s, <1>l DEF CapturePid, Apart
<1>20. ASSUME NEW h \in Handles, NEW t \in Threads, Shutdown(h, t) PROVE Apart'
  <2>1. StepsApart'  BY <1>20, GotoApart DEF Shutdown, RegistrySteps, Apart
  <2>2. PidfilesApart' /\ SocketsApart'
    BY <1>20, ExitApart DEF Shutdown, Apart, FilesApart, PidfilesApart, SocketsApart
  <2>3. FilesApart'  BY <1>20, <2>2 DEF Shutdown, Apart, FilesApart, ConfsApart, RegistriesApart
  <2> QED BY <2>1, <2>2, <2>3, <1>20, <1>d, <1>s, <1>l, <1>p DEF Shutdown, Apart
<1>21. ASSUME NEW h \in Handles, NEW t \in Threads, RemoveFiles(h, t) PROVE Apart'
  <2>1. StepsApart' /\ PidsApart' /\ LinksApart'  BY <1>21, ReturnApart DEF RemoveFiles
  <2>2. PidfilesApart' /\ SocketsApart'
    BY <1>21
    DEF RemoveFiles, RemoveRunFiles, TypeOK, Apart, FilesApart, PidfilesApart,
        SocketsApart
  <2>3. ConfsApart'  BY <1>21 DEF RemoveFiles, TypeOK, Apart, FilesApart, ConfsApart
  <2>4. RegistriesApart'
    BY <1>21, NamesAssumption DEF RemoveFiles, TypeOK, Apart, FilesApart, RegistriesApart, Locs
  <2>5. FilesApart'  BY <2>2, <2>3, <2>4 DEF FilesApart
  <2> QED BY <2>1, <2>2, <2>3, <2>4, <2>5, <1>21, <1>d, <1>s DEF RemoveFiles, Apart
<1>22. ASSUME NEW h \in Handles, NEW t \in Threads, Interrupt(h, t) PROVE Apart'
  <2>1. StepsApart' /\ PidsApart'  BY <1>22, BackApart DEF Interrupt
  <2>2. LinksApart'  BY <1>22, <1>l, DisconnectApart DEF Interrupt, Apart
  <2> QED BY <2>1, <2>2, <1>22, <1>f, <1>d, <1>s DEF Interrupt, Apart
<1>23. ASSUME NEW h \in Handles, WritePidfile(h) PROVE Apart'
  <2>1. PidfilesApart'  BY <1>23 DEF WritePidfile, TypeOK, Apart, FilesApart, PidfilesApart
  <2>2. FilesApart'
    BY <1>23, <2>1
    DEF WritePidfile, Apart, FilesApart, ConfsApart, SocketsApart, RegistriesApart
  <2> QED BY <2>1, <2>2, <1>23, <1>d, <1>s, <1>l, <1>p, <1>a DEF WritePidfile, Apart
<1>24. ASSUME NEW h \in Handles, Serve(h) PROVE Apart'
  <2>1. setup[h] # None /\ setup[h].sock \in Locs  BY <1>24 DEF Serve, TypeOK, Live, Confs
  <2>2. SocketsApart'  BY <1>24, <2>1 DEF Serve, TypeOK, Apart, FilesApart, SocketsApart, SetupsApart
  <2>3. FilesApart'
    BY <1>24, <2>2 DEF Serve, Apart, FilesApart, PidfilesApart, ConfsApart, RegistriesApart
  <2> QED BY <2>1, <2>2, <2>3, <1>24, <1>d, <1>s, <1>l, <1>p, <1>a DEF Serve, Apart
<1>25. ASSUME NEW h \in Handles, BindFails(h) PROVE Apart'
  <2> QED BY <1>25, <1>f, <1>d, <1>s, <1>l, <1>p, <1>a DEF BindFails, Apart
<1>26. ASSUME NEW h \in Handles, Crash(h) PROVE Apart'
  <2> QED BY <1>26, <1>f, <1>d, <1>s, <1>l, <1>p, <1>a DEF Crash, Apart
<1>27. ASSUME NEW h \in Handles, ReusePid(h) PROVE Apart'
  <2> QED BY <1>27, <1>f, <1>d, <1>s, <1>l, <1>p, <1>a DEF ReusePid, Apart
<1>28. ASSUME NEW h \in Handles, Grow(h) PROVE Apart'
  <2> QED BY <1>28, <1>f, <1>d, <1>s, <1>l, <1>p, <1>a DEF Grow, Apart
<1>29. ASSUME NEW h \in Handles, Visit(h) PROVE Apart'
  <2> QED BY <1>29, <1>f, <1>d, <1>s, <1>l, <1>p, <1>a DEF Visit, Apart
<1>30. ASSUME NEW h \in Handles, Write(h) PROVE Apart'
  <2>1. LinksApart'  BY <1>30, ConnectApart DEF Write
  <2> QED BY <2>1, <1>30, <1>f, <1>d, <1>s, <1>p, <1>a DEF Write, Apart
<1>31. ASSUME NEW h \in Handles, ClientCrash(h) PROVE Apart'
  <2>1. StepsApart' /\ PidsApart'
    BY <1>31 DEF ClientCrash, TypeOK, Apart, StepsApart, PidsApart, RegistrySteps
  <2>2. LinksApart'  BY <1>31, DisconnectApart DEF ClientCrash, Apart
  <2> QED BY <2>1, <2>2, <1>31, <1>f, <1>d, <1>s DEF ClientCrash, Apart
<1>32. CASE UNCHANGED vars
  BY <1>32, <1>f, <1>d, <1>s, <1>l, <1>p, <1>a DEF vars, Apart
<1> QED
  BY <1>1, <1>2, <1>3, <1>4, <1>5, <1>6, <1>7, <1>8, <1>9, <1>10, <1>11, <1>12, <1>13,
     <1>14, <1>15, <1>16, <1>17, <1>18, <1>19, <1>20, <1>21, <1>22, <1>23, <1>24, <1>25,
     <1>26, <1>27, <1>28, <1>29, <1>30, <1>31, <1>32
  DEF Next, Step, Boot

-----------------------------------------------------------------------------
\* "Fully isolated": whatever instances of whatever processes open, use and close,
\* and whatever fails meanwhile, a private instance is connected to no server but
\* the one it launched and signals no other, and nobody else is or does so to it.
THEOREM PrivateApart == Spec => []Isolation
<1>1. Init /\ []TypeOK /\ [][Next]_vars => []Apart  BY ApartInit, ApartStep, PTL
<1>2. TypeOK /\ Apart => Isolation
  BY HandlesAssumption, NamesAssumption
  DEF TypeOK, Apart, LinksApart, PidsApart, Isolation, Dir
<1> QED BY <1>1, <1>2, TypeCorrect, PTL DEF Spec

-----------------------------------------------------------------------------
(* Part 2: launches.                                                       *)

\* A constructor that has not launched a daemon yet.
PreLaunch == {"load", "probe", "conf", "launch"}
Fresh(h) == life[h] = "unborn" \/ \E t \in Threads : at[h][t] \in PreLaunch
FreshOK ==
    \A h \in Handles : /\ Fresh(h) => ~started[h]
                       /\ ~started[h] => proc[h] = "free" /\ setup[h] = None

\* A connection leads to a daemon that has served.
LinksUsed ==
    \A h \in Handles : link[h] # None => proc[link[h]] \in {"up", "dead", "foreign"}

\* A pid is noted late in a rollback or in a close, and was that of a process.
PidSteps == TermSteps \cup {"shutdown", "remove", "undo"}
PidsUsed ==
    \A h \in Handles, t \in Threads :
        pid[h][t] # None => proc[pid[h][t]] # "free" /\ at[h][t] \in PidSteps

\* Whoever holds the lifecycle lock is tearing down.
LockHeld == \A h \in Handles : lock[h] # None => InTeardown(h, lock[h])

Once == FreshOK /\ LinksUsed /\ PidsUsed /\ LockHeld

\* A process only gets older, and has to be launched first.
Ages(q) ==
    \/ proc'[q] = proc[q]
    \/ proc[q] = "free" /\ proc'[q] = "boot" /\ started'[q]
    \/ proc[q] = "boot" /\ proc'[q] = "named"
    \/ proc[q] = "named" /\ proc'[q] = "up"
    \/ proc[q] # "free" /\ proc'[q] \in {"dead", "foreign"}

LEMMA ProcAges ==
    ASSUME TypeOK, FreshOK, PidsUsed, [Next]_vars
    PROVE  \A q \in Handles : Ages(q)
<1> USE DEF daemons, Ages
<1>0. ASSUME UNCHANGED proc PROVE \A q \in Handles : Ages(q)  BY <1>0
<1>1. ASSUME NEW h \in Handles, NEW t \in Threads, Launch(h, t) PROVE \A q \in Handles : Ages(q)
  <2>1. proc[h] = "free"  BY <1>1 DEF Launch, FreshOK, Fresh, PreLaunch
  <2> QED BY <1>1, <2>1 DEF Launch, TypeOK
<1>2. ASSUME NEW h \in Handles, NEW t \in Threads, Signal(h, t) PROVE \A q \in Handles : Ages(q)
  BY <1>2 DEF Signal, ExitOrderly, TypeOK, Live
<1>3. ASSUME NEW h \in Handles, NEW t \in Threads, SignalForeign(h, t) PROVE \A q \in Handles : Ages(q)
  <2>1. \A q \in Handles : proc'[q] = proc[q] \/ (q = pid[h][t] /\ proc'[q] = "dead")
    BY <1>3 DEF SignalForeign, TypeOK
  <2> QED BY <2>1, NamesAssumption DEF PidsUsed
<1>4. ASSUME NEW h \in Handles, NEW t \in Threads, Shutdown(h, t) PROVE \A q \in Handles : Ages(q)
  BY <1>4 DEF Shutdown, ExitOrderly, Reach, Up, TypeOK
<1>5. ASSUME NEW q \in Handles, Boot(q) \/ Crash(q) \/ ReusePid(q) PROVE \A r \in Handles : Ages(r)
  BY <1>5 DEF Boot, WritePidfile, Serve, BindFails, Crash, ReusePid, TypeOK, Live
<1> QED
  BY <1>0, <1>1, <1>2, <1>3, <1>4, <1>5
  DEF Next, Step, vars, Open, LoadRegistry, ProbePid, WriteConf, TruncateRegistry, SaveRegistry,
      PingAnswered, PingTimeout, Undo, BindProcess, BeginClose, Acquire, Count, CountFails,
      Leave, CapturePid, RemoveFiles, Interrupt, Write, Grow, Visit, ClientCrash

\* No instance becomes fresh again.
LEMMA Goes ==
    ASSUME TypeOK, NEW h \in Handles, NEW t \in Threads, NEW s, Goto(h, t, s),
           s \in PreLaunch => Fresh(h),
           \A g \in Handles : life'[g] = "unborn" => life[g] = "unborn"
    PROVE  \A g \in Handles : Fresh(g)' => Fresh(g)
BY DEF TypeOK, Goto, Fresh

LEMMA FreshStep ==
    ASSUME CallInv, FreshOK, [Next]_vars, \A q \in Handles : Ages(q)
    PROVE  FreshOK'
<1> USE DEF daemons, object, calls
<1> DEFINE Older == \A g \in Handles : /\ Fresh(g)' => Fresh(g) /\ started'[g] = started[g]
                                       /\ ~started'[g] => ~started[g] /\ setup'[g] = setup[g]
<1>t. TypeOK  BY DEF CallInv
<1>0. ASSUME UNCHANGED <<setup, started>>, \A g \in Handles : Fresh(g)' => Fresh(g)
      PROVE  Older
  BY <1>0
<1>1. ASSUME NEW h \in Handles, NEW t \in Threads, Open(h, t) PROVE Older
  <2>1. PICK s : Goto(h, t, s) /\ (s \in PreLaunch => Fresh(h))  BY <1>1 DEF Open, FirstStep, PreLaunch, Fresh
  <2>2. \A g \in Handles : life'[g] = "unborn" => life[g] = "unborn"  BY <1>1, <1>t DEF Open, TypeOK
  <2> QED BY <2>1, <2>2, <1>t, <1>1, <1>0, Goes DEF Open
<1>2. ASSUME NEW h \in Handles, NEW t \in Threads, LoadRegistry(h, t) PROVE Older
  <2>1. PICK s : Goto(h, t, s) /\ (s \in PreLaunch => Fresh(h))  BY <1>2 DEF LoadRegistry, PreLaunch, Fresh
  <2>2. \A g \in Handles : life'[g] = "unborn" => life[g] = "unborn"  BY <1>2, <1>t DEF LoadRegistry, TypeOK
  <2> QED BY <2>1, <2>2, <1>t, <1>2, <1>0, Goes DEF LoadRegistry
<1>3. ASSUME NEW h \in Handles, NEW t \in Threads, ProbePid(h, t) PROVE Older
  <2>1. PICK s : Goto(h, t, s) /\ (s \in PreLaunch => Fresh(h))  BY <1>3 DEF ProbePid, PreLaunch, Fresh
  <2>2. \A g \in Handles : life'[g] = "unborn" => life[g] = "unborn"  BY <1>3, <1>t DEF ProbePid, TypeOK
  <2> QED BY <2>1, <2>2, <1>t, <1>3, <1>0, Goes DEF ProbePid
<1>4. ASSUME NEW h \in Handles, NEW t \in Threads, WriteConf(h, t) PROVE Older
  <2>1. PICK s : Goto(h, t, s) /\ (s \in PreLaunch => Fresh(h))  BY <1>4 DEF WriteConf, PreLaunch, Fresh
  <2>2. \A g \in Handles : life'[g] = "unborn" => life[g] = "unborn"  BY <1>4, <1>t DEF WriteConf, TypeOK
  <2> QED BY <2>1, <2>2, <1>t, <1>4, <1>0, Goes DEF WriteConf
<1>5. ASSUME NEW h \in Handles, NEW t \in Threads, TruncateRegistry(h, t) PROVE Older
  <2>1. PICK s : Goto(h, t, s) /\ (s \in PreLaunch => Fresh(h))  BY <1>5 DEF TruncateRegistry, RollBack, PreLaunch
  <2>2. \A g \in Handles : life'[g] = "unborn" => life[g] = "unborn"  BY <1>5, <1>t DEF TruncateRegistry, TypeOK
  <2> QED BY <2>1, <2>2, <1>t, <1>5, <1>0, Goes DEF TruncateRegistry
<1>6. ASSUME NEW h \in Handles, NEW t \in Threads, SaveRegistry(h, t) PROVE Older
  <2>1. PICK s : Goto(h, t, s) /\ (s \in PreLaunch => Fresh(h))  BY <1>6 DEF SaveRegistry, RollBack, PreLaunch
  <2>2. \A g \in Handles : life'[g] = "unborn" => life[g] = "unborn"  BY <1>6, <1>t DEF SaveRegistry, TypeOK
  <2> QED BY <2>1, <2>2, <1>t, <1>6, <1>0, Goes DEF SaveRegistry
<1>7. ASSUME NEW h \in Handles, NEW t \in Threads, PingAnswered(h, t) PROVE Older
  <2>1. PICK s : Goto(h, t, s) /\ (s \in PreLaunch => Fresh(h))  BY <1>7 DEF PingAnswered, PreLaunch
  <2>2. \A g \in Handles : life'[g] = "unborn" => life[g] = "unborn"  BY <1>7, <1>t DEF PingAnswered, TypeOK
  <2> QED BY <2>1, <2>2, <1>t, <1>7, <1>0, Goes DEF PingAnswered
<1>8. ASSUME NEW h \in Handles, NEW t \in Threads, PingTimeout(h, t) PROVE Older
  <2>1. PICK s : Goto(h, t, s) /\ (s \in PreLaunch => Fresh(h))  BY <1>8 DEF PingTimeout, RollBack, PreLaunch
  <2>2. \A g \in Handles : life'[g] = "unborn" => life[g] = "unborn"  BY <1>8, <1>t DEF PingTimeout, TypeOK
  <2> QED BY <2>1, <2>2, <1>t, <1>8, <1>0, Goes DEF PingTimeout
<1>9. ASSUME NEW h \in Handles, NEW t \in Threads, Undo(h, t) PROVE Older
  <2>1. PICK s : Goto(h, t, s) /\ (s \in PreLaunch => Fresh(h))  BY <1>9 DEF Undo, Back, PreLaunch
  <2>2. \A g \in Handles : life'[g] = "unborn" => life[g] = "unborn"  BY <1>9, <1>t DEF Undo, TypeOK
  <2> QED BY <2>1, <2>2, <1>t, <1>9, <1>0, Goes DEF Undo
<1>10. ASSUME NEW h \in Handles, NEW t \in Threads, BindProcess(h, t) PROVE Older
  <2>1. PICK s : Goto(h, t, s) /\ (s \in PreLaunch => Fresh(h))  BY <1>10 DEF BindProcess, AfterTerm, PreLaunch
  <2>2. \A g \in Handles : life'[g] = "unborn" => life[g] = "unborn"  BY <1>10, <1>t DEF BindProcess, TypeOK
  <2> QED BY <2>1, <2>2, <1>t, <1>10, <1>0, Goes DEF BindProcess
<1>11. ASSUME NEW h \in Handles, NEW t \in Threads, Signal(h, t) PROVE Older
  <2>1. PICK s : Goto(h, t, s) /\ (s \in PreLaunch => Fresh(h))  BY <1>11 DEF Signal, AfterTerm, PreLaunch
  <2>2. \A g \in Handles : life'[g] = "unborn" => life[g] = "unborn"  BY <1>11, <1>t DEF Signal, TypeOK
  <2> QED BY <2>1, <2>2, <1>t, <1>11, <1>0, Goes DEF Signal
<1>12. ASSUME NEW h \in Handles, NEW t \in Threads, SignalForeign(h, t) PROVE Older
  <2>1. PICK s : Goto(h, t, s) /\ (s \in PreLaunch => Fresh(h))  BY <1>12 DEF SignalForeign, AfterTerm, PreLaunch
  <2>2. \A g \in Handles : life'[g] = "unborn" => life[g] = "unborn"  BY <1>12, <1>t DEF SignalForeign, TypeOK
  <2> QED BY <2>1, <2>2, <1>t, <1>12, <1>0, Goes DEF SignalForeign
<1>13. ASSUME NEW h \in Handles, NEW t \in Threads, BeginClose(h, t) PROVE Older
  <2>1. PICK s : Goto(h, t, s) /\ (s \in PreLaunch => Fresh(h))  BY <1>13 DEF BeginClose, PreLaunch
  <2>2. \A g \in Handles : life'[g] = "unborn" => life[g] = "unborn"  BY <1>13, <1>t DEF BeginClose, TypeOK
  <2> QED BY <2>1, <2>2, <1>t, <1>13, <1>0, Goes DEF BeginClose
<1>14. ASSUME NEW h \in Handles, NEW t \in Threads, Acquire(h, t) PROVE Older
  <2>1. PICK s : Goto(h, t, s) /\ (s \in PreLaunch => Fresh(h))  BY <1>14 DEF Acquire, PreLaunch
  <2>2. \A g \in Handles : life'[g] = "unborn" => life[g] = "unborn"  BY <1>14, <1>t DEF Acquire, TypeOK
  <2> QED BY <2>1, <2>2, <1>t, <1>14, <1>0, Goes DEF Acquire
<1>15. ASSUME NEW h \in Handles, NEW t \in Threads, Count(h, t) PROVE Older
  <2>1. PICK s : Goto(h, t, s) /\ (s \in PreLaunch => Fresh(h))  BY <1>15 DEF Count, PreLaunch
  <2>2. \A g \in Handles : life'[g] = "unborn" => life[g] = "unborn"  BY <1>15, <1>t DEF Count, TypeOK
  <2> QED BY <2>1, <2>2, <1>t, <1>15, <1>0, Goes DEF Count
<1>16. ASSUME NEW h \in Handles, NEW t \in Threads, CountFails(h, t) PROVE Older
  <2>1. PICK s : Goto(h, t, s) /\ (s \in PreLaunch => Fresh(h))  BY <1>16 DEF CountFails, Return, Back, PreLaunch
  <2>2. \A g \in Handles : life'[g] = "unborn" => life[g] = "unborn"  BY <1>16, <1>t DEF CountFails, TypeOK
  <2> QED BY <2>1, <2>2, <1>t, <1>16, <1>0, Goes DEF CountFails
<1>17. ASSUME NEW h \in Handles, NEW t \in Threads, Leave(h, t) PROVE Older
  <2>1. PICK s : Goto(h, t, s) /\ (s \in PreLaunch => Fresh(h))  BY <1>17 DEF Leave, Return, Back, PreLaunch
  <2>2. \A g \in Handles : life'[g] = "unborn" => life[g] = "unborn"  BY <1>17, <1>t DEF Leave, TypeOK
  <2> QED BY <2>1, <2>2, <1>t, <1>17, <1>0, Goes DEF Leave
<1>18. ASSUME NEW h \in Handles, NEW t \in Threads, CapturePid(h, t) PROVE Older
  <2>1. PICK s : Goto(h, t, s) /\ (s \in PreLaunch => Fresh(h))  BY <1>18 DEF CapturePid, PreLaunch
  <2>2. \A g \in Handles : life'[g] = "unborn" => life[g] = "unborn"  BY <1>18, <1>t DEF CapturePid, TypeOK
  <2> QED BY <2>1, <2>2, <1>t, <1>18, <1>0, Goes DEF CapturePid
<1>19. ASSUME NEW h \in Handles, NEW t \in Threads, Shutdown(h, t) PROVE Older
  <2>1. PICK s : Goto(h, t, s) /\ (s \in PreLaunch => Fresh(h))  BY <1>19 DEF Shutdown, PreLaunch
  <2>2. \A g \in Handles : life'[g] = "unborn" => life[g] = "unborn"  BY <1>19, <1>t DEF Shutdown, TypeOK
  <2> QED BY <2>1, <2>2, <1>t, <1>19, <1>0, Goes DEF Shutdown
<1>20. ASSUME NEW h \in Handles, NEW t \in Threads, RemoveFiles(h, t) PROVE Older
  <2>1. PICK s : Goto(h, t, s) /\ (s \in PreLaunch => Fresh(h))  BY <1>20 DEF RemoveFiles, Return, Back, PreLaunch
  <2>2. \A g \in Handles : life'[g] = "unborn" => life[g] = "unborn"  BY <1>20, <1>t DEF RemoveFiles, TypeOK
  <2> QED BY <2>1, <2>2, <1>t, <1>20, <1>0, Goes DEF RemoveFiles
<1>21. ASSUME NEW h \in Handles, NEW t \in Threads, Interrupt(h, t) PROVE Older
  <2>1. PICK s : Goto(h, t, s) /\ (s \in PreLaunch => Fresh(h))  BY <1>21 DEF Interrupt, Back, PreLaunch
  <2>2. \A g \in Handles : life'[g] = "unborn" => life[g] = "unborn"  BY <1>21, <1>t DEF Interrupt, TypeOK
  <2> QED BY <2>1, <2>2, <1>t, <1>21, <1>0, Goes DEF Interrupt
<1>22. ASSUME NEW h \in Handles, NEW t \in Threads, Launch(h, t) PROVE Older
  <2>1. at[h][t] = "launch" /\ Fresh(h)  BY <1>22 DEF Launch, Fresh, PreLaunch
  <2>2. PICK s \in {"ping", "truncate"} : Goto(h, t, s)  BY <1>22 DEF Launch
  <2>3. \A u \in Threads : at'[h][u] \notin PreLaunch
    BY <2>1, <2>2, <1>t, Moved DEF PreLaunch, CtorSteps, CallInv, HandleOK, BuilderOK, OneBuilder
  <2>4. life[h] = "building" /\ life' = life
    BY <2>1, <1>22 DEF Launch, CtorSteps, CallInv, HandleOK, BuilderOK
  <2>5. ~Fresh(h)'  BY <2>3, <2>4 DEF Fresh
  <2>6. \A g \in Handles \ {h} : at'[g] = at[g] /\ started'[g] = started[g] /\ setup'[g] = setup[g]
    BY <2>2, <1>t, <1>22, Moved DEF Launch, TypeOK
  <2>7. started'[h]  BY <1>22, <1>t DEF Launch, TypeOK
  <2> QED BY <2>4, <2>5, <2>6, <2>7 DEF Fresh
<1>23. ASSUME NEW h \in Handles, ClientCrash(h) PROVE Older
  <2>1. \A g \in Handles : Fresh(g)' => Fresh(g)
    BY <1>23, <1>t DEF ClientCrash, TypeOK, Fresh, PreLaunch
  <2> QED BY <2>1, <1>23, <1>0 DEF ClientCrash
<1>24. ASSUME UNCHANGED <<setup, started, life, at>> PROVE Older  BY <1>24 DEF Fresh
<1>25. Older
  BY <1>1, <1>2, <1>3, <1>4, <1>5, <1>6, <1>7, <1>8, <1>9, <1>10, <1>11, <1>12, <1>13, <1>14, <1>15, <1>16, <1>17, <1>18, <1>19, <1>20, <1>21, <1>22, <1>23, <1>24
  DEF Next, Step, vars, Boot, WritePidfile, Serve, BindFails, Crash, ReusePid, Write, Grow, Visit
<1> QED BY <1>25 DEF FreshOK, Ages

LEMMA LinksStep ==
    ASSUME TypeOK, LinksUsed, [Next]_vars, \A q \in Handles : Ages(q)
    PROVE  LinksUsed'
<1> USE DEF conns
<1>0. ASSUME \A h \in Handles : link'[h] \in {link[h], None} PROVE LinksUsed'
  BY <1>0 DEF TypeOK, LinksUsed, Ages
<1>1. ASSUME NEW h \in Handles, Disconnect(h) PROVE LinksUsed'
  BY <1>1, <1>0 DEF Disconnect, TypeOK
<1>2. ASSUME NEW h \in Handles, Connect(h), UNCHANGED proc PROVE LinksUsed'
  <2>1. Reach(h) # None => proc[Reach(h)] = "up"  BY DEF Reach, Up
  <2> QED BY <1>2, <2>1 DEF Connect, TypeOK, LinksUsed
<1>3. ASSUME UNCHANGED link PROVE LinksUsed'  BY <1>3, <1>0
<1>4. ASSUME NEW h \in Handles, NEW t \in Threads, Step(h, t) PROVE LinksUsed'
  <2>1. CASE PingAnswered(h, t) \/ Count(h, t)  BY <2>1, <1>2 DEF PingAnswered, Count, daemons
  <2>2. CASE Acquire(h, t)  BY <2>2, <1>1, <1>3 DEF Acquire
  <2>3. CASE CountFails(h, t) \/ Leave(h, t) \/ RemoveFiles(h, t)
    BY <2>3, <1>1 DEF CountFails, Leave, RemoveFiles, Return
  <2>4. CASE \/ LoadRegistry(h, t) \/ ProbePid(h, t) \/ WriteConf(h, t) \/ Launch(h, t)
             \/ TruncateRegistry(h, t) \/ SaveRegistry(h, t) \/ PingTimeout(h, t) \/ Undo(h, t)
             \/ BindProcess(h, t) \/ Signal(h, t) \/ SignalForeign(h, t)
             \/ CapturePid(h, t) \/ Shutdown(h, t)
    BY <2>4, <1>3
    DEF LoadRegistry, ProbePid, WriteConf, Launch, TruncateRegistry, SaveRegistry, PingTimeout, Undo,
        BindProcess, Signal, SignalForeign, CapturePid, Shutdown
  <2> QED BY <1>4, <2>1, <2>2, <2>3, <2>4 DEF Step
<1>5. ASSUME NEW h \in Handles, NEW t \in Threads, Open(h, t) \/ BeginClose(h, t) \/ Interrupt(h, t)
      PROVE  LinksUsed'
  BY <1>5, <1>1, <1>3 DEF Open, BeginClose, Interrupt
<1>6. ASSUME NEW h \in Handles,
             Boot(h) \/ Crash(h) \/ ReusePid(h) \/ Write(h) \/ Grow(h) \/ Visit(h) \/ ClientCrash(h)
      PROVE  LinksUsed'
  BY <1>6, <1>1, <1>2, <1>3
  DEF Boot, WritePidfile, Serve, BindFails, Crash, ReusePid, Write, Grow, Visit, ClientCrash
<1>7. CASE UNCHANGED vars  BY <1>7, <1>3 DEF vars
<1> QED BY <1>4, <1>5, <1>6, <1>7 DEF Next

LEMMA PidsStep ==
    ASSUME CallInv, PidsUsed, [Next]_vars, \A q \in Handles : Ages(q)
    PROVE  PidsUsed'
<1> USE DEF calls, PidSteps, TermSteps
<1>t. TypeOK  BY DEF CallInv
<1>0. ASSUME UNCHANGED pid,
             \A g \in Handles, u \in Threads :
                at'[g][u] = at[g][u] \/ at'[g][u] \in PidSteps \/ at[g][u] \notin PidSteps
      PROVE  PidsUsed'
  <2> SUFFICES ASSUME NEW g \in Handles, NEW u \in Threads, pid[g][u] # None
               PROVE  proc'[pid[g][u]] # "free" /\ at'[g][u] \in PidSteps
    BY <1>0 DEF PidsUsed
  <2>1. pid[g][u] \in Handles /\ proc[pid[g][u]] # "free" /\ at[g][u] \in PidSteps
    BY <1>t DEF TypeOK, PidsUsed
  <2>2. Ages(pid[g][u])  BY <2>1
  <2> QED BY <1>0, <2>1, <2>2 DEF Ages
<1>1. ASSUME NEW h \in Handles, NEW t \in Threads, NEW s, Goto(h, t, s), UNCHANGED pid,
             s \in PidSteps \/ at[h][t] \notin PidSteps
      PROVE  PidsUsed'
  BY <1>1, <1>t, <1>0 DEF TypeOK, Goto
<1>2. ASSUME NEW h \in Handles, NEW t \in Threads, NEW s, Goto(h, t, s), NEW p,
             pid' = [pid EXCEPT ![h][t] = p], p = None \/ (proc[p] # "free" /\ s \in PidSteps),
             p \in Handles \cup {None}
      PROVE  PidsUsed'
  <2>1. p # None => proc'[p] # "free"  BY <1>2 DEF Ages
  <2>2. \A g \in Handles, u \in Threads :
           \/ at'[g][u] = at[g][u] /\ pid'[g][u] = pid[g][u]
           \/ at'[g][u] = s /\ pid'[g][u] = p
    BY <1>2, <1>t, Moved, Noted DEF TypeOK, Goto
  <2> SUFFICES ASSUME NEW g \in Handles, NEW u \in Threads, pid'[g][u] # None
               PROVE  proc'[pid'[g][u]] # "free" /\ at'[g][u] \in PidSteps
    BY DEF PidsUsed
  <2>3. CASE at'[g][u] = s /\ pid'[g][u] = p  BY <2>3, <2>1, <1>2
  <2>4. CASE at'[g][u] = at[g][u] /\ pid'[g][u] = pid[g][u]
    <3>1. pid[g][u] \in Handles /\ proc[pid[g][u]] # "free" /\ at[g][u] \in PidSteps
      BY <2>4, <1>t DEF TypeOK, PidsUsed
    <3>2. Ages(pid[g][u])  BY <3>1
    <3> QED BY <2>4, <3>1, <3>2 DEF Ages
  <2> QED BY <2>2, <2>3, <2>4
<1>3. ASSUME NEW h \in Handles, NEW t \in Threads, RollBack(h, t) PROVE PidsUsed'
  <2>1. PidOf(h) # None => proc[PidOf(h)] # "free"  BY DEF PidOf, Exists, Live
  <2> QED BY <1>3, <1>2, <2>1, <1>t, PidType DEF RollBack
<1>4. ASSUME NEW h \in Handles, NEW t \in Threads, Back(h, t) PROVE PidsUsed'
  BY <1>4, <1>2 DEF Back
<1>5. ASSUME NEW h \in Handles, NEW t \in Threads, CapturePid(h, t) PROVE PidsUsed'
  <2>1. PidOf(h) # None => proc[PidOf(h)] # "free"  BY DEF PidOf, Exists, Live
  <2> QED BY <1>5, <1>2, <2>1, <1>t, PidType DEF CapturePid, CapturedPid
<1>6. ASSUME NEW h \in Handles, ClientCrash(h) PROVE PidsUsed'
  <2> SUFFICES ASSUME NEW g \in Handles, NEW u \in Threads, pid'[g][u] # None
               PROVE  proc'[pid'[g][u]] # "free" /\ at'[g][u] \in PidSteps
    BY DEF PidsUsed
  <2>1. at'[g][u] = at[g][u] /\ pid'[g][u] = pid[g][u]  BY <1>6, <1>t DEF ClientCrash, TypeOK
  <2>2. pid[g][u] \in Handles /\ proc[pid[g][u]] # "free" /\ at[g][u] \in PidSteps
    BY <2>1, <1>t DEF TypeOK, PidsUsed
  <2>3. Ages(pid[g][u])  BY <2>2
  <2> QED BY <2>1, <2>2, <2>3 DEF Ages
<1>7. ASSUME UNCHANGED calls PROVE PidsUsed'  BY <1>7, <1>0
<1>8. ASSUME NEW h \in Handles, NEW t \in Threads,
             \/ LoadRegistry(h, t) \/ ProbePid(h, t) \/ WriteConf(h, t) \/ Launch(h, t)
             \/ PingAnswered(h, t) \/ BeginClose(h, t) \/ Acquire(h, t) \/ Count(h, t)
      PROVE  PidsUsed'
  <2>1. PICK s : Goto(h, t, s) /\ UNCHANGED pid /\ at[h][t] \notin PidSteps
    BY <1>8
    DEF LoadRegistry, ProbePid, WriteConf, Launch, PingAnswered, BeginClose, Acquire, Count
  <2> QED BY <2>1, <1>1
<1>10. ASSUME NEW h \in Handles, NEW t \in Threads,
              BindProcess(h, t) \/ Signal(h, t) \/ SignalForeign(h, t) \/ Shutdown(h, t)
      PROVE  PidsUsed'
  <2>1. PICK s : Goto(h, t, s) /\ UNCHANGED pid /\ s \in PidSteps
    BY <1>10 DEF BindProcess, Signal, SignalForeign, Shutdown, AfterTerm
  <2> QED BY <2>1, <1>1
<1>11. ASSUME NEW h \in Handles, NEW t \in Threads, Open(h, t) PROVE PidsUsed'
  <2>1. at[h][t] = "idle"  BY <1>11 DEF Open, CallInv, HandleOK, AbsentOK
  <2> QED BY <2>1, <1>11, <1>1 DEF Open
<1>9. ASSUME NEW h \in Handles, NEW t \in Threads, TruncateRegistry(h, t) \/ SaveRegistry(h, t)
      PROVE  PidsUsed'
  <2>1. at[h][t] \notin PidSteps  BY <1>9 DEF TruncateRegistry, SaveRegistry
  <2> QED BY <1>9, <2>1, <1>1, <1>3 DEF TruncateRegistry, SaveRegistry
<1> QED
  BY <1>3, <1>4, <1>5, <1>6, <1>7, <1>8, <1>9, <1>10, <1>11
  DEF Next, Step, vars, Boot, PingTimeout, Undo, CountFails, Leave, RemoveFiles, Return, Interrupt,
      Write, Grow, Visit, WritePidfile, Serve, BindFails, Crash, ReusePid

LEMMA LockStep == ASSUME CallInv, LockHeld, [Next]_vars PROVE LockHeld'
<1> USE DEF calls, object, TermSteps, CloseSteps
<1>t. TypeOK  BY DEF CallInv
<1>b. \A h \in Handles : lock[h] # None => lock[h] \in Threads /\ life[h] = "built"
  BY DEF CallInv, HandleOK, TeardownOK, TypeOK, LockHeld
<1>1. ASSUME NEW h \in Handles, NEW t \in Threads, NEW s, Goto(h, t, s), UNCHANGED lock,
             InTeardown(h, t) => s \in CloseSteps \cup TermSteps,
             \A g \in Handles : life'[g] # life[g] => life[g] # "built"
      PROVE  LockHeld'
  BY <1>1, <1>b, <1>t, Moved DEF LockHeld, InTeardown
<1>2. ASSUME NEW h \in Handles, NEW t \in Threads, Return(h, t), UNCHANGED life PROVE LockHeld'
  <2>1. \A g \in Handles \ {h} : at'[g] = at[g] /\ lock'[g] = lock[g]
    BY <1>2, <1>t, Moved DEF Return, Back, TypeOK
  <2> QED BY <2>1, <1>2, <1>t DEF Return, LockHeld, InTeardown, TypeOK
<1>3. ASSUME NEW h \in Handles, NEW t \in Threads, Acquire(h, t) PROVE LockHeld'
  <2>1. CASE Goto(h, t, "idle") /\ UNCHANGED lock
    BY <2>1, <1>3, <1>1 DEF Acquire, InTeardown
  <2>2. CASE /\ lock' = [lock EXCEPT ![h] = t]
             /\ Goto(h, t, IF h \in Isolated THEN "capture" ELSE "count")
    <3>1. /\ at'[h][t] \in {"capture", "count"}
          /\ \A g \in Handles \ {h} : at'[g] = at[g] /\ lock'[g] = lock[g]
      BY <2>2, <1>t, Moved DEF TypeOK
    <3> QED BY <2>2, <3>1, <1>t, <1>3 DEF Acquire, LockHeld, InTeardown, TypeOK
  <2> QED BY <2>1, <2>2, <1>3 DEF Acquire
<1>4. ASSUME NEW h \in Handles, NEW t \in Threads, Interrupt(h, t) PROVE LockHeld'
  <2>1. /\ \A u \in Threads \ {t} : at'[h][u] = at[h][u]
        /\ \A g \in Handles \ {h} : at'[g] = at[g] /\ lock'[g] = lock[g] /\ life'[g] = life[g]
    BY <1>4, <1>t, Moved DEF Interrupt, Back, TypeOK
  <2>2. lock'[h] # None => lock'[h] = lock[h] /\ lock[h] # t
    BY <1>4, <1>t DEF Interrupt, TypeOK
  <2>3. life[h] = "built" => life'[h] = "built"  BY <1>4, <1>t DEF Interrupt, TypeOK
  <2> QED BY <2>1, <2>2, <2>3, <1>b DEF LockHeld, InTeardown
<1>5. ASSUME NEW h \in Handles, ClientCrash(h) PROVE LockHeld'
  BY <1>5, <1>t DEF ClientCrash, LockHeld, InTeardown, TypeOK
<1>6. ASSUME UNCHANGED <<at, lock, life>> PROVE LockHeld'  BY <1>6 DEF LockHeld, InTeardown
<1>7. ASSUME NEW h \in Handles, NEW t \in Threads,
             \/ Open(h, t) \/ PingAnswered(h, t) \/ Undo(h, t)
             \/ LoadRegistry(h, t) \/ ProbePid(h, t) \/ WriteConf(h, t) \/ Launch(h, t)
             \/ TruncateRegistry(h, t) \/ SaveRegistry(h, t) \/ PingTimeout(h, t)
             \/ BindProcess(h, t) \/ Signal(h, t) \/ SignalForeign(h, t)
             \/ BeginClose(h, t) \/ Count(h, t) \/ CapturePid(h, t) \/ Shutdown(h, t)
      PROVE  LockHeld'
  <2>1. life[h] = "building" => ~InTeardown(h, t)
    BY DEF CallInv, HandleOK, TeardownOK
  <2>2. PICK s : Goto(h, t, s) /\ (InTeardown(h, t) => s \in CloseSteps \cup TermSteps)
    <3>1. CASE \/ Open(h, t) \/ PingAnswered(h, t) \/ Undo(h, t) \/ LoadRegistry(h, t)
               \/ ProbePid(h, t) \/ WriteConf(h, t) \/ Launch(h, t) \/ BeginClose(h, t)
               \/ SaveRegistry(h, t) \/ TruncateRegistry(h, t)
      <4>1. ~InTeardown(h, t)
        BY <3>1
        DEF Open, PingAnswered, Undo, LoadRegistry, ProbePid, WriteConf, Launch, BeginClose,
            SaveRegistry, TruncateRegistry, InTeardown, CallInv, HandleOK, AbsentOK
      <4>2. \E s : Goto(h, t, s)
        BY <3>1
        DEF Open, PingAnswered, Undo, Back, LoadRegistry, ProbePid, WriteConf, Launch, BeginClose,
            SaveRegistry, TruncateRegistry, RollBack
      <4> QED BY <4>1, <4>2
    <3>2. CASE PingTimeout(h, t) \/ Count(h, t) \/ CapturePid(h, t) \/ Shutdown(h, t)
      BY <3>2 DEF PingTimeout, RollBack, Count, CapturePid, Shutdown
    <3>3. CASE BindProcess(h, t) \/ Signal(h, t) \/ SignalForeign(h, t)
      BY <3>3, <2>1 DEF BindProcess, Signal, SignalForeign, AfterTerm
    <3> QED BY <1>7, <3>1, <3>2, <3>3
  <2>3. UNCHANGED lock /\ (life[h] = "built" => UNCHANGED life)
    BY <1>7
    DEF Open, PingAnswered, Undo, Back, LoadRegistry, ProbePid, WriteConf, Launch, TruncateRegistry,
        SaveRegistry, PingTimeout, BindProcess, Signal, SignalForeign, BeginClose,
        Count, CapturePid, Shutdown, CtorSteps, CallInv, HandleOK, BuilderOK
  <2>4. \A g \in Handles : life'[g] # life[g] => life[g] # "built"
    BY <1>7, <2>3, <1>t
    DEF Open, PingAnswered, Undo, LoadRegistry, ProbePid, WriteConf, Launch, TruncateRegistry,
        SaveRegistry, PingTimeout, BindProcess, Signal, SignalForeign, BeginClose,
        Count, CapturePid, Shutdown, TypeOK
  <2> QED BY <2>2, <2>3, <2>4, <1>1
<1> QED
  BY <1>2, <1>3, <1>4, <1>5, <1>6, <1>7
  DEF Next, Step, vars, Boot, CountFails, Leave, RemoveFiles, Write, Grow, Visit, WritePidfile,
      Serve, BindFails, Crash, ReusePid

LEMMA OnceInit == Init => Once
BY NamesAssumption
DEF Init, Once, FreshOK, LinksUsed, PidsUsed, LockHeld

LEMMA OnceCorrect == Spec => []Once
<1>1. CallInv /\ Once /\ [Next]_vars => Once'
  <2> SUFFICES ASSUME CallInv, Once, [Next]_vars PROVE Once'  OBVIOUS
  <2>1. TypeOK  BY DEF CallInv
  <2>2. \A q \in Handles : Ages(q)  BY <2>1, ProcAges DEF Once
  <2> QED BY <2>1, <2>2, FreshStep, LinksStep, PidsStep, LockStep DEF Once
<1> QED BY <1>1, OnceInit, CallsCorrect, PTL DEF Spec

-----------------------------------------------------------------------------
(* Part 3: the server of the own RDB path.  Files, valkey.conf and sockets  *)
(* of one directory serve all the RDB paths in it, and two instances may    *)
(* interleave so that one launches with the configuration of the other.     *)
(* What keeps the paths apart is the socket: OwnSockets.                    *)

\* No socket location serves instances of two RDB paths.
OwnSockets == \A g, h \in SharedHandles : Loc(g) = Loc(h) => File(g) = File(h)

\* The RDB path whose instances use a location.
FileOf(l) == IF \E h \in Siblings : Loc(h) = l THEN "sibling" ELSE "main"

\* Whatever names a location and a file names a location of that file.
SocketFilesMatch == \A h \in SharedHandles : FileOf(socketFile[h]) = File(h)
RegistriesMatch == \A f \in Files : registry[f] \in Locs => FileOf(registry[f]) = f
ConfMatches == conf[Shared] # None => conf[Shared].file = FileOf(conf[Shared].sock)
SetupsMatch == \A q \in SharedHandles : setup[q] # None => setup[q].file = FileOf(setup[q].sock)
\* A socket is where its daemon was told to bind it.
SocketsMatch == \A l \in Locs : sock[l] # None => setup[sock[l]] # None /\ setup[sock[l]].sock = l
LinksMatch ==
    \A h \in SharedHandles :
        link[h] # None => setup[link[h]] # None /\ setup[link[h]].file = File(h)

Matching ==
    /\ SocketFilesMatch /\ RegistriesMatch /\ ConfMatches
    /\ SetupsMatch /\ SocketsMatch /\ LinksMatch

LEMMA LocMatches == ASSUME OwnSockets, NEW h \in SharedHandles PROVE FileOf(Loc(h)) = File(h)
BY HandlesAssumption DEF OwnSockets, FileOf, File, SharedHandles

LEMMA ReachMatches ==
    ASSUME TypeOK, Apart, Matching, NEW h \in SharedHandles, Reach(h) # None
    PROVE  setup[Reach(h)] # None /\ setup[Reach(h)].file = File(h)
<1>1. h \in Handles  BY DEF SharedHandles
<1>2. CASE Up(link[h])  BY <1>2 DEF Reach, Matching, LinksMatch, Up
<1>3. CASE ~Up(link[h])
  <2>1. Reach(h) = sock[socketFile[h]] /\ Reach(h) \in Handles
    BY <1>1, <1>3, ReachType DEF Reach
  <2>2. Dir(Reach(h)) = Dir(h)  BY <1>1, ReachHome
  <2>3. Reach(h) \in SharedHandles
    BY <1>1, <2>1, <2>2, NamesAssumption DEF SharedHandles, Dir
  <2>4. setup[Reach(h)] # None /\ setup[Reach(h)].sock = socketFile[h]
    BY <1>1, <2>1 DEF TypeOK, Matching, SocketsMatch
  <2> QED BY <2>3, <2>4 DEF Matching, SetupsMatch, SocketFilesMatch
<1> QED BY <1>2, <1>3

LEMMA MatchInit == OwnSockets /\ Init => Matching
BY LocMatches, NamesAssumption, DirType
DEF Init, Matching, SocketFilesMatch, RegistriesMatch, ConfMatches, SetupsMatch, SocketsMatch,
    LinksMatch, SharedHandles, Locs, Dirs

\* Clean-ups only remove: files, sockets and connections that stay keep matching.
LEMMA LessMatches ==
    ASSUME TypeOK, TypeOK', Matching, UNCHANGED <<setup, socketFile>>,
           \A f \in Files : registry'[f] \in {registry[f], None, Torn},
           conf'[Shared] \in {conf[Shared], None},
           \A l \in Locs : sock'[l] \in {sock[l], None},
           \A h \in Handles : link'[h] \in {link[h], None}
    PROVE  Matching'
<1>1. SocketFilesMatch' /\ SetupsMatch' /\ ConfMatches'
  BY DEF Matching, SocketFilesMatch, SetupsMatch, ConfMatches
<1>2. RegistriesMatch'  BY NamesAssumption DEF Matching, RegistriesMatch, Locs
<1>3. SocketsMatch'  BY DEF Matching, SocketsMatch
<1>4. LinksMatch'  BY DEF Matching, LinksMatch, SharedHandles
<1> QED BY <1>1, <1>2, <1>3, <1>4 DEF Matching

LEMMA MatchStep ==
    ASSUME OwnSockets, TypeOK, TypeOK', Apart, Apart', FreshOK, Matching, [Next]_vars
    PROVE  Matching'
<1> USE DEF daemons, runfiles, object, conns
<1>d. Shared \in Dirs /\ \A h \in Handles : Isolated \subseteq Handles /\ h # Shared
  BY HandlesAssumption, NamesAssumption DEF Dirs
<1>0. ASSUME UNCHANGED <<setup, socketFile, registry, conf, sock, link>> PROVE Matching'
  BY <1>0, LessMatches
<1>1. ASSUME NEW h \in Handles, NEW t \in Threads, LoadRegistry(h, t) PROVE Matching'
  <2>1. h \in SharedHandles
    BY <1>1 DEF LoadRegistry, Apart, StepsApart, RegistrySteps, SharedHandles
  <2>2. SocketFilesMatch'
    BY <1>1, <2>1, RenderedType
    DEF LoadRegistry, Readable, Matching, SocketFilesMatch, RegistriesMatch, TypeOK, SharedHandles
  <2> QED BY <1>1, <2>2 DEF LoadRegistry, Matching, RegistriesMatch, ConfMatches, SetupsMatch,
                            SocketsMatch, LinksMatch
<1>2. ASSUME NEW h \in Handles, NEW t \in Threads, ProbePid(h, t) PROVE Matching'
  <2>0. \A g \in SharedHandles : socketFile'[g] = socketFile[g] \/ socketFile'[g] = Loc(g)
    BY <1>2 DEF ProbePid, TypeOK, SharedHandles
  <2>1. SocketFilesMatch'
    <3> SUFFICES ASSUME NEW g \in SharedHandles PROVE FileOf(socketFile'[g]) = File(g)
      BY DEF SocketFilesMatch
    <3> QED BY <2>0, LocMatches DEF Matching, SocketFilesMatch
  <2> QED BY <1>2, <2>1 DEF ProbePid, Matching, RegistriesMatch, ConfMatches, SetupsMatch,
                            SocketsMatch, LinksMatch
<1>3. ASSUME NEW h \in Handles, NEW t \in Threads, WriteConf(h, t) PROVE Matching'
  <2>1. ConfMatches'
    <3>1. CASE conf' = [conf EXCEPT ![Dir(h)] = Rendered(h)]
      <4>1. CASE h \in SharedHandles
        BY <3>1, <4>1, <1>d, LocMatches DEF ConfMatches, Rendered, SharedHandles, Dir, TypeOK
      <4>2. CASE h \notin SharedHandles
        BY <3>1, <4>2, <1>d DEF Matching, ConfMatches, SharedHandles, Dir, TypeOK
      <4> QED BY <4>1, <4>2
    <3>2. CASE UNCHANGED conf  BY <3>2 DEF Matching, ConfMatches
    <3> QED BY <1>3, <3>1, <3>2 DEF WriteConf
  <2> QED BY <1>3, <2>1 DEF WriteConf, Matching, SocketFilesMatch, RegistriesMatch, SetupsMatch,
                            SocketsMatch, LinksMatch
<1>4. ASSUME NEW h \in Handles, NEW t \in Threads, Launch(h, t) PROVE Matching'
  <2>1. setup[h] = None  BY <1>4 DEF Launch, FreshOK, Fresh, PreLaunch
  <2>2. /\ \A g \in Handles \ {h} : setup'[g] = setup[g]
        /\ setup'[h] \in {None, conf[Dir(h)]}
    BY <1>4, <2>1 DEF Launch, TypeOK
  <2>3. SetupsMatch'  BY <2>2 DEF Matching, SetupsMatch, ConfMatches, SharedHandles, Dir
  <2>4. SocketsMatch'  BY <1>4, <2>1, <2>2 DEF Launch, Matching, SocketsMatch, TypeOK
  <2>5. LinksMatch'  BY <1>4, <2>1, <2>2 DEF Launch, Matching, LinksMatch, TypeOK, SharedHandles
  <2> QED BY <1>4, <2>3, <2>4, <2>5 DEF Launch, Matching, SocketFilesMatch, RegistriesMatch, ConfMatches
<1>5. ASSUME NEW h \in Handles, NEW t \in Threads, SaveRegistry(h, t) PROVE Matching'
  <2>1. h \in SharedHandles
    BY <1>5 DEF SaveRegistry, Apart, StepsApart, RegistrySteps, SharedHandles
  <2>2. RegistriesMatch'
    <3>1. CASE registry' = registry
      BY <3>1 DEF Matching, RegistriesMatch
    <3>2. CASE registry' = [registry EXCEPT ![File(h)] = IF @ = None THEN None ELSE Loc(h)]
      BY <2>1, <3>2, LocMatches, NamesAssumption DEF Matching, RegistriesMatch, TypeOK, Locs
    <3> QED BY <1>5, <3>1, <3>2 DEF SaveRegistry
  <2> QED BY <1>5, <2>2 DEF SaveRegistry, Matching, SocketFilesMatch, ConfMatches, SetupsMatch,
                            SocketsMatch, LinksMatch
<1>6. ASSUME NEW h \in Handles, Connect(h), UNCHANGED <<setup, socketFile, registry, conf, sock>>
      PROVE  Matching'
  <2>1. LinksMatch'  BY <1>6, ReachMatches DEF Connect, Matching, LinksMatch, TypeOK, SharedHandles
  <2> QED BY <1>6, <2>1 DEF Matching, SocketFilesMatch, RegistriesMatch, ConfMatches, SetupsMatch,
                            SocketsMatch
<1>7. ASSUME NEW h \in Handles, Disconnect(h), UNCHANGED <<setup, socketFile, registry, conf, sock>>
      PROVE  Matching'
  BY <1>7, LessMatches DEF Disconnect, TypeOK
<1>8. ASSUME NEW h \in Handles, Serve(h) PROVE Matching'
  <2>1. setup[h] # None /\ setup[h].sock \in Locs  BY <1>8 DEF Serve, TypeOK, Live, Confs
  <2>2. SocketsMatch'  BY <1>8, <2>1 DEF Serve, Matching, SocketsMatch, TypeOK
  <2> QED BY <1>8, <2>2 DEF Serve, Matching, SocketFilesMatch, RegistriesMatch, ConfMatches,
                            SetupsMatch, LinksMatch
<1>9. ASSUME NEW q, NEW save, ExitOrderly(q, save), UNCHANGED <<setup, socketFile, registry, conf, link>>
      PROVE  Matching'
  BY <1>9, LessMatches DEF ExitOrderly, TypeOK
<1>10. ASSUME NEW h \in Handles, NEW t \in Threads, TruncateRegistry(h, t) PROVE Matching'
  BY <1>10, LessMatches DEF TruncateRegistry, TypeOK
<1>11. ASSUME NEW h \in Handles, NEW t \in Threads, Undo(h, t) PROVE Matching'
  BY <1>11, <1>d, LessMatches DEF Undo, TypeOK
<1>12. ASSUME NEW h \in Handles, NEW t \in Threads, RemoveFiles(h, t) PROVE Matching'
  <2>1. UNCHANGED <<setup, socketFile>> /\ conf'[Shared] \in {conf[Shared], None}
    BY <1>12, <1>d DEF RemoveFiles, TypeOK
  <2>2. \A f \in Files : registry'[f] \in {registry[f], None, Torn}  BY <1>12 DEF RemoveFiles, TypeOK
  <2>3. \A l \in Locs : sock'[l] \in {sock[l], None}  BY <1>12 DEF RemoveFiles, RemoveRunFiles
  <2>4. \A g \in Handles : link'[g] \in {link[g], None}
    BY <1>12 DEF RemoveFiles, Return, Disconnect, TypeOK
  <2> QED BY <2>1, <2>2, <2>3, <2>4, LessMatches
<1>13. ASSUME NEW h \in Handles, NEW t \in Threads, Step(h, t) PROVE Matching'
  <2>1. CASE PingAnswered(h, t) \/ Count(h, t)  BY <2>1, <1>6 DEF PingAnswered, Count
  <2>2. CASE Acquire(h, t)  BY <2>2, <1>0, <1>7 DEF Acquire
  <2>3. CASE CountFails(h, t) \/ Leave(h, t)  BY <2>3, <1>7 DEF CountFails, Leave, Return
  <2>4. CASE PingTimeout(h, t) \/ BindProcess(h, t) \/ SignalForeign(h, t) \/ CapturePid(h, t)
    BY <2>4, <1>0 DEF PingTimeout, BindProcess, SignalForeign, CapturePid
  <2>5. CASE Signal(h, t)  BY <2>5, <1>0, <1>9 DEF Signal
  <2>6. CASE Shutdown(h, t)  BY <2>6, <1>0, <1>9 DEF Shutdown
  <2> QED BY <1>13, <1>1, <1>2, <1>3, <1>4, <1>5, <1>10, <1>11, <1>12, <2>1, <2>2, <2>3, <2>4, <2>5, <2>6
          DEF Step
<1>14. ASSUME NEW h \in Handles, NEW t \in Threads, Open(h, t) \/ BeginClose(h, t) \/ Interrupt(h, t)
       PROVE  Matching'
  BY <1>14, <1>0, <1>7 DEF Open, BeginClose, Interrupt
<1>15. ASSUME NEW h \in Handles,
              WritePidfile(h) \/ BindFails(h) \/ Crash(h) \/ ReusePid(h) \/ Grow(h) \/ Visit(h)
       PROVE  Matching'
  BY <1>15, <1>0 DEF WritePidfile, BindFails, Crash, ReusePid, Grow, Visit
<1>16. ASSUME NEW h \in Handles, Write(h) \/ ClientCrash(h) PROVE Matching'
  BY <1>16, <1>6, <1>7 DEF Write, ClientCrash
<1>17. CASE UNCHANGED vars  BY <1>17, <1>0 DEF vars
<1> QED BY <1>8, <1>13, <1>14, <1>15, <1>16, <1>17 DEF Next, Boot

LEMMA ApartCorrect == Spec => []Apart
<1>1. TypeOK /\ TypeOK' /\ Apart /\ [Next]_vars => Apart'  BY ApartStep
<1> QED BY <1>1, ApartInit, TypeCorrect, PTL DEF Spec

\* Instances of two RDB paths in one directory overwrite each other's pidfile and
\* valkey.conf; but whatever they do and whatever fails meanwhile, as long as the
\* two paths do not share a socket location (they do not if sockets go to fallback
\* directories, or callers pass unix_socket_path), an instance is connected to no
\* server but one that keeps the RDB file of its own path.
THEOREM PathCorrect == ASSUME OwnSockets PROVE Spec => []OwnPath
<1>1. TypeOK /\ Apart /\ Matching => OwnPath
  <2> SUFFICES ASSUME TypeOK, Apart, Matching, NEW h \in SharedHandles, link[h] # None
               PROVE  link[h] \in SharedHandles /\ setup[link[h]].file = File(h)
    BY DEF OwnPath
  <2>1. h \in Handles /\ link[h] \in Handles /\ Dir(link[h]) = Dir(h)
    BY DEF SharedHandles, TypeOK, Apart, LinksApart
  <2>2. link[h] \in SharedHandles  BY <2>1, NamesAssumption DEF SharedHandles, Dir
  <2> QED BY <2>2 DEF Matching, LinksMatch
<1>2. TypeOK /\ TypeOK' /\ Apart /\ Apart' /\ Once /\ Matching /\ [Next]_vars => Matching'
  BY MatchStep DEF Once
<1>3. Init => Matching  BY MatchInit
<1> QED BY <1>1, <1>2, <1>3, TypeCorrect, ApartCorrect, OnceCorrect, PTL DEF Spec

-----------------------------------------------------------------------------
(* Part 4: private servers.  The daemon of a private instance lives while   *)
(* somebody is there to end it: its constructor until it has answered, the  *)
(* instance while it runs, a close that has noted its pid.                  *)

\* No constructor gives up on a daemon that still boots, or without rolling back.
Patient == Faults \cap {"slow_start", "interrupt"} = {}

\* Somebody will end the daemon of h, or has been killed before he could.
Cared(h) ==
    \/ life[h] = "crashed"
    \/ /\ life[h] = "building"
       /\ \E t \in Threads : \/ at[h][t] = "ping"
                             \/ at[h][t] \in {"term", "signal"} /\ pid[h][t] = h /\ proc[h] = "up"
    \/ /\ life[h] = "built" /\ running[h] /\ proc[h] = "up"
       /\ \A t \in Threads : /\ at[h][t] # "remove"
                             /\ at[h][t] \in {"shutdown", "term", "signal"} => pid[h][t] = h

DaemonCared(h) ==
    proc[h] \in Live =>
        /\ h \in tmpdirs
        /\ proc[h] # "boot" => pidfile[h] = h
        /\ proc[h] = "up" => sock[h] = h
        /\ Cared(h)

\* The directories of h live as long as its constructor or the instance.
DirsCared(h) ==
    /\ life[h] = "building" => h \in tmpdirs
    /\ h \in tmpdirs \cup sockdirs =>
          life[h] \in {"building", "crashed"} \/ (life[h] = "built" /\ running[h])

\* Nobody counts the clients of a private server.
NeverCounts(h) == \A t \in Threads : at[h][t] \notin {"count", "leave"}

\* In use, it is connected to the daemon it has launched.
InUse(h) ==
    "daemon_crash" \notin Faults /\ life[h] = "built" /\ running[h]
       /\ (\A t \in Threads : ~InTeardown(h, t))
          => link[h] = h /\ proc[h] = "up"

PrivateOK(h) == DaemonCared(h) /\ DirsCared(h) /\ NeverCounts(h) /\ InUse(h)
PrivateInv == \A h \in Isolated : PrivateOK(h)

\* What a private instance knows leads to itself.
LEMMA OwnFiles ==
    ASSUME TypeOK, Apart, NEW h \in Isolated
    PROVE  /\ h \in Handles /\ Dir(h) = h /\ socketFile[h] = h
           /\ link[h] \in {None, h} /\ Reach(h) \in {None, h}
           /\ \A t \in Threads : pid[h][t] \in {None, h}
           /\ setup[h] # None => setup[h].sock = h
<1>1. h \in Handles /\ Dir(h) = h /\ h # Shared
  BY HandlesAssumption, NamesAssumption DEF Dir
<1>2. \A q \in Handles : Dir(q) = h => q = h  BY <1>1 DEF Dir
<1>3. \A l \in Locs : Home(l) = h => l = h  BY <1>1 DEF Home
<1>4. socketFile[h] = h  BY <1>1, <1>3 DEF TypeOK, Apart, SocketFilesApart
<1>5. link[h] \in {None, h}  BY <1>1, <1>2 DEF TypeOK, Apart, LinksApart
<1>6. Reach(h) \in {None, h}  BY <1>1, <1>2, ReachHome, ReachType
<1>7. \A t \in Threads : pid[h][t] \in {None, h}  BY <1>1, <1>2 DEF TypeOK, Apart, PidsApart
<1>8. setup[h] # None => setup[h].sock = h
  BY <1>1, <1>3 DEF TypeOK, Confs, Apart, SetupsApart
<1> QED BY <1>1, <1>4, <1>5, <1>6, <1>7, <1>8

LEMMA PrivateInit == Init => PrivateInv
BY HandlesAssumption, NamesAssumption
DEF Init, PrivateInv, PrivateOK, DaemonCared, DirsCared, NeverCounts, InUse, Live

\* Nothing of h changes.
Untouched(h) ==
    /\ proc'[h] = proc[h] /\ pidfile'[h] = pidfile[h] /\ sock'[h] = sock[h]
    /\ life'[h] = life[h] /\ running'[h] = running[h] /\ link'[h] = link[h]
    /\ at'[h] = at[h] /\ pid'[h] = pid[h]
    /\ h \in tmpdirs' <=> h \in tmpdirs
    /\ h \in sockdirs' <=> h \in sockdirs

LEMMA UntouchedOK == ASSUME NEW h \in Isolated, PrivateOK(h), Untouched(h) PROVE PrivateOK(h)'
BY DEF Untouched, PrivateOK, DaemonCared, Cared, DirsCared, NeverCounts, InUse, InTeardown

\* A daemon that exits unlinks the files of its own directory.
LEMMA ExitSpares ==
    ASSUME TypeOK, Apart, NEW h \in Isolated, NEW q \in Handles, q # h, proc[q] = "up",
           NEW save, ExitOrderly(q, save)
    PROVE  proc'[h] = proc[h] /\ pidfile'[h] = pidfile[h] /\ sock'[h] = sock[h]
<1>1. h \in Handles /\ h \in Dirs /\ h \in Locs /\ h # Shared /\ Home(h) = h
  BY HandlesAssumption, NamesAssumption DEF Dirs, Locs, Home
<1>2. Dir(q) # h  BY <1>1 DEF Dir
<1>3. setup[q] # None /\ setup[q].sock # h
  BY <1>1, <1>2 DEF TypeOK, Live, Apart, SetupsApart
<1> QED BY <1>1, <1>2, <1>3 DEF ExitOrderly, TypeOK

\* What the calls of other instances do does not touch a private one...
LEMMA CallsSpare ==
    ASSUME TypeOK, Apart, SignalsSomeone, NEW h \in Isolated, NEW g \in Handles, g # h,
           NEW t \in Threads, Open(g, t) \/ BeginClose(g, t) \/ Step(g, t) \/ Interrupt(g, t)
    PROVE  Untouched(h)
<1> USE DEF daemons, runfiles, dirs, object, calls, conns
<1>h. /\ h \in Handles /\ h \in Dirs /\ h \in Locs /\ h # Shared /\ Dir(g) # h
      /\ \A q \in Handles : Dir(q) = Dir(g) => q # h
  BY HandlesAssumption, NamesAssumption DEF Dirs, Locs, Dir
<1>g. ASSUME NEW s, Goto(g, t, s) PROVE at'[h] = at[h]  BY <1>g, <1>h DEF Goto, TypeOK
<1>b. ASSUME Back(g, t) PROVE at'[h] = at[h] /\ pid'[h] = pid[h]
  BY <1>b, <1>h DEF Back, Goto, TypeOK
<1>r. ASSUME RollBack(g, t) PROVE at'[h] = at[h] /\ pid'[h] = pid[h]
  BY <1>r, <1>h DEF RollBack, Goto, TypeOK
<1>d. ASSUME Disconnect(g) PROVE link'[h] = link[h]  BY <1>d, <1>h DEF Disconnect, TypeOK
<1>c. ASSUME Connect(g) PROVE link'[h] = link[h]  BY <1>c, <1>h DEF Connect, TypeOK
<1>1. CASE Open(g, t)  BY <1>1, <1>h, <1>g DEF Open, TypeOK, Untouched
<1>2. CASE BeginClose(g, t)  BY <1>2, <1>h, <1>g DEF BeginClose, TypeOK, Untouched
<1>3. CASE LoadRegistry(g, t)  BY <1>3, <1>h, <1>g DEF LoadRegistry, TypeOK, Untouched
<1>4. CASE ProbePid(g, t)  BY <1>4, <1>h, <1>g DEF ProbePid, TypeOK, Untouched
<1>5. CASE WriteConf(g, t)  BY <1>5, <1>h, <1>g DEF WriteConf, TypeOK, Untouched
<1>6. CASE Launch(g, t)  BY <1>6, <1>h, <1>g DEF Launch, TypeOK, Untouched
<1>7. CASE TruncateRegistry(g, t)  BY <1>7, <1>h, <1>g, <1>r DEF TruncateRegistry, TypeOK, Untouched
<1>8. CASE SaveRegistry(g, t)  BY <1>8, <1>h, <1>g, <1>r DEF SaveRegistry, TypeOK, Untouched
<1>9. CASE PingAnswered(g, t)  BY <1>9, <1>h, <1>g, <1>c DEF PingAnswered, TypeOK, Untouched
<1>10. CASE PingTimeout(g, t)  BY <1>10, <1>h, <1>r DEF PingTimeout, TypeOK, Untouched
<1>11. CASE Undo(g, t)  BY <1>11, <1>h, <1>b DEF Undo, TypeOK, Untouched
<1>12. CASE BindProcess(g, t)  BY <1>12, <1>h, <1>g DEF BindProcess, TypeOK, Untouched
<1>13. CASE Signal(g, t)
  <2>1. pid[g][t] \in Handles /\ pid[g][t] # h
    BY <1>13, <1>h DEF Signal, SignalsSomeone, TypeOK, Apart, PidsApart
  <2>2. proc'[h] = proc[h] /\ pidfile'[h] = pidfile[h] /\ sock'[h] = sock[h]
    <3>1. CASE proc[pid[g][t]] = "up" /\ ExitOrderly(pid[g][t], TRUE)  BY <3>1, <2>1, ExitSpares
    <3>2. CASE UNCHANGED <<pidfile, sock>> /\ (proc' = proc \/ proc' = [proc EXCEPT ![pid[g][t]] = "dead"])
      BY <3>2, <2>1, <1>h DEF TypeOK
    <3> QED BY <1>13, <3>1, <3>2 DEF Signal
  <2> QED BY <1>13, <2>2, <1>h, <1>g DEF Signal, Untouched
<1>14. CASE SignalForeign(g, t)
  <2>1. pid[g][t] # h
    BY <1>14, <1>h DEF SignalForeign, SignalsSomeone, TypeOK, Apart, PidsApart
  <2> QED BY <1>14, <2>1, <1>h, <1>g DEF SignalForeign, TypeOK, Untouched
<1>15. CASE Acquire(g, t)
  <2>1. at'[h] = at[h] /\ link'[h] = link[h]  BY <1>15, <1>g, <1>d DEF Acquire
  <2> QED BY <1>15, <2>1, <1>h DEF Acquire, Untouched
<1>16. CASE Count(g, t)  BY <1>16, <1>h, <1>g, <1>c DEF Count, TypeOK, Untouched
<1>17. CASE CountFails(g, t)  BY <1>17, <1>h, <1>b, <1>d DEF CountFails, Return, TypeOK, Untouched
<1>18. CASE Leave(g, t)  BY <1>18, <1>h, <1>b, <1>d DEF Leave, Return, TypeOK, Untouched
<1>19. CASE CapturePid(g, t)  BY <1>19, <1>h, <1>g DEF CapturePid, TypeOK, Untouched
<1>20. CASE Shutdown(g, t)
  <2>1. Reach(g) # None => Reach(g) \in Handles /\ Reach(g) # h /\ proc[Reach(g)] = "up"
    BY <1>h, ReachHome, ReachType DEF Reach, Up
  <2>2. proc'[h] = proc[h] /\ pidfile'[h] = pidfile[h] /\ sock'[h] = sock[h]
    BY <1>20, <2>1, ExitSpares DEF Shutdown
  <2> QED BY <1>20, <2>2, <1>h, <1>g DEF Shutdown, Untouched
<1>21. CASE RemoveFiles(g, t)
  <2>1. at'[h] = at[h] /\ pid'[h] = pid[h] /\ link'[h] = link[h]
    BY <1>21, <1>b, <1>d DEF RemoveFiles, Return
  <2> QED BY <1>21, <2>1, <1>h DEF RemoveFiles, RemoveRunFiles, TypeOK, Untouched
<1>22. CASE Interrupt(g, t)
  <2>1. at'[h] = at[h] /\ pid'[h] = pid[h] /\ link'[h] = link[h]
    BY <1>22, <1>b, <1>d DEF Interrupt
  <2> QED BY <1>22, <2>1, <1>h DEF Interrupt, TypeOK, Untouched
<1> QED
  BY <1>1, <1>2, <1>3, <1>4, <1>5, <1>6, <1>7, <1>8, <1>9, <1>10, <1>11, <1>12, <1>13, <1>14,
     <1>15, <1>16, <1>17, <1>18, <1>19, <1>20, <1>21, <1>22
  DEF Step

\* ... nor does what their daemons do, nor the programs around them.
LEMMA DaemonsSpare ==
    ASSUME TypeOK, Apart, NEW h \in Isolated, NEW g \in Handles, g # h,
           Boot(g) \/ Crash(g) \/ ReusePid(g) \/ Write(g) \/ Grow(g) \/ Visit(g) \/ ClientCrash(g)
    PROVE  Untouched(h)
<1> USE DEF daemons, runfiles, dirs, object, calls, conns, TypeOK, Untouched
<1>h. /\ h \in Handles /\ h \in Dirs /\ h \in Locs /\ h # Shared /\ Dir(g) # h
  BY HandlesAssumption, NamesAssumption DEF Dirs, Locs, Dir
<1>1. CASE WritePidfile(g)  BY <1>1, <1>h DEF WritePidfile
<1>2. CASE Serve(g)
  <2>1. setup[g].sock # h
    <3>1. Home(h) = h  BY DEF Home
    <3> QED BY <1>2, <1>h, <3>1 DEF Serve, Live, Apart, SetupsApart
  <2> QED BY <1>2, <1>h, <2>1 DEF Serve
<1>3. CASE BindFails(g) \/ Crash(g) \/ ReusePid(g)  BY <1>3, <1>h DEF BindFails, Crash, ReusePid
<1>4. CASE Write(g)  BY <1>4, <1>h DEF Write, Connect
<1>5. CASE Grow(g) \/ Visit(g)  BY <1>5, <1>h DEF Grow, Visit
<1>6. CASE ClientCrash(g)  BY <1>6, <1>h DEF ClientCrash, Disconnect
<1> QED BY <1>1, <1>2, <1>3, <1>4, <1>5, <1>6 DEF Boot

\* The steps of the instance itself.
LEMMA OwnCalls ==
    ASSUME Patient, CallInv, Apart, FreshOK, NEW h \in Isolated, PrivateOK(h),
           NEW t \in Threads, Open(h, t) \/ BeginClose(h, t) \/ Step(h, t) \/ Interrupt(h, t)
    PROVE  PrivateOK(h)'
<1> USE DEF daemons, runfiles, dirs, object, calls, conns
<1> USE DEF PrivateOK, DaemonCared, Cared, DirsCared, NeverCounts, InUse, InTeardown
<1>t. TypeOK  BY DEF CallInv
<1>h. /\ h \in Handles /\ h \in Dirs /\ h \in Locs /\ h # Shared /\ h # None /\ Dir(h) = h
      /\ socketFile[h] = h /\ link[h] \in {None, h} /\ Reach(h) \in {None, h}
      /\ \A u \in Threads : pid[h][u] \in {None, h}
      /\ setup[h] # None => setup[h].sock = h
  BY <1>t, OwnFiles, NamesAssumption DEF Dirs, Locs
<1>r. Reach(h) # None => Reach(h) = h /\ proc[h] = "up"  BY <1>h DEF Reach, Up
<1>p. PidOf(h) = IF pidfile[h] # None /\ Exists(pidfile[h]) THEN pidfile[h] ELSE None
  BY <1>h DEF PidOf, Exists
<1>c. at[h][t] \in CloseSteps \/ (at[h][t] \in TermSteps /\ life[h] # "building")
         => life[h] = "built" /\ running[h]
  BY <1>h DEF CallInv, HandleOK, TeardownOK
<1>b. at[h][t] \in CtorSteps \/ (at[h][t] \in TermSteps /\ life[h] = "building")
         => life[h] = "building" /\ \A u \in Threads \ {t} : at[h][u] = "idle"
  BY <1>h DEF CallInv, HandleOK, BuilderOK, OneBuilder, CtorSteps, TermSteps
<1>g. ASSUME NEW s, Goto(h, t, s)
      PROVE  at'[h][t] = s /\ \A u \in Threads \ {t} : at'[h][u] = at[h][u]
  BY <1>g, <1>t, <1>h, Moved
<1>n. ASSUME NEW p, pid' = [pid EXCEPT ![h][t] = p]
      PROVE  pid'[h][t] = p /\ \A u \in Threads \ {t} : pid'[h][u] = pid[h][u]
  BY <1>n, <1>t, <1>h DEF TypeOK
<1>1. CASE Open(h, t)
  <2>1. proc[h] = "free" /\ \A u \in Threads : at[h][u] = "idle"
    BY <1>1, <1>h DEF Open, FreshOK, Fresh, CallInv, HandleOK, AbsentOK
  <2>2. life'[h] = "building" /\ h \in tmpdirs' /\ proc'[h] = "free"
    BY <1>1, <2>1, <1>h, <1>t DEF Open, TypeOK
  <2>3. \A u \in Threads : at'[h][u] \in {"idle", "conf"}
    BY <1>1, <2>1, <1>g DEF Open, FirstStep
  <2> QED BY <2>2, <2>3 DEF Live
<1>2. CASE BeginClose(h, t)
  <2>1. /\ at[h][t] = "idle" /\ at'[h][t] = "lock"
        /\ \A u \in Threads \ {t} : at'[h][u] = at[h][u]
    BY <1>2, <1>g DEF BeginClose
  <2>2. life[h] # "building"  BY <1>2 DEF BeginClose
  <2> QED BY <1>2, <2>1, <2>2 DEF BeginClose, CloseSteps, TermSteps
<1>3. CASE WriteConf(h, t)
  <2>1. at[h][t] = "conf" /\ life[h] = "building" /\ proc[h] = "free"
    BY <1>3, <1>b, <1>h DEF WriteConf, CtorSteps, FreshOK, Fresh, PreLaunch
  <2>2. \A u \in Threads : at'[h][u] \in {"idle", "launch", "undo"}
    BY <1>3, <1>b, <1>g DEF WriteConf, CtorSteps
  <2> QED BY <1>3, <2>1, <2>2 DEF WriteConf, Live
<1>4. CASE Launch(h, t)
  <2>1. at[h][t] = "launch" /\ life[h] = "building" /\ proc[h] = "free"
    BY <1>4, <1>b, <1>h DEF Launch, CtorSteps, FreshOK, Fresh, PreLaunch
  <2>2. at'[h][t] = "ping" /\ \A u \in Threads \ {t} : at'[h][u] = "idle"
    BY <1>4, <1>b, <1>g DEF Launch, CtorSteps
  <2>3. proc'[h] \in {"free", "boot"}  BY <1>4, <2>1, <1>h, <1>t DEF Launch, TypeOK
  <2> QED BY <1>4, <2>1, <2>2, <2>3 DEF Launch, Live
<1>5. CASE PingAnswered(h, t)
  <2>1. at[h][t] = "ping" /\ Reach(h) = h /\ proc[h] = "up"  BY <1>5, <1>r DEF PingAnswered
  <2>2. \A u \in Threads : at'[h][u] = "idle"  BY <1>5, <1>b, <1>g DEF PingAnswered, CtorSteps
  <2>3. life'[h] = "built" /\ running'[h] /\ link'[h] = h
    BY <1>5, <2>1, <1>h, <1>t DEF PingAnswered, Connect, TypeOK
  <2> QED BY <1>5, <2>1, <2>2, <2>3 DEF PingAnswered, Live
<1>6. CASE PingTimeout(h, t)
  <2>1. at[h][t] = "ping" /\ life[h] = "building"  BY <1>6, <1>b DEF PingTimeout, CtorSteps
  <2>2. proc[h] \in Live => proc[h] = "up"
    BY <1>6, <1>h, <1>r DEF PingTimeout, Patient, Live
  <2>3. proc[h] = "up" => PidOf(h) = h /\ started[h]
    BY <1>h, <1>p DEF Exists, Live, FreshOK
  <2>4. at'[h][t] = "term" /\ pid'[h][t] = IF started[h] THEN PidOf(h) ELSE None
    BY <1>6, <1>g, <1>n DEF PingTimeout, RollBack
  <2>5. \A u \in Threads \ {t} : at'[h][u] = "idle"
    BY <1>6, <2>1, <1>b, <1>g DEF PingTimeout, RollBack, CtorSteps
  <2> QED BY <1>6, <2>1, <2>2, <2>3, <2>4, <2>5 DEF PingTimeout
<1>7. CASE Undo(h, t)
  <2>1. at[h][t] = "undo" /\ life[h] = "building"  BY <1>7, <1>b DEF Undo, CtorSteps
  <2>2. proc[h] \notin Live  BY <2>1, <1>b DEF CtorSteps
  <2>3. \A u \in Threads : at'[h][u] = "idle"
    BY <1>7, <2>1, <1>b, <1>g DEF Undo, Back, CtorSteps
  <2>4. life'[h] = "failed" /\ h \notin tmpdirs' \cup sockdirs'  BY <1>7, <1>h, <1>t DEF Undo, TypeOK
  <2> QED BY <1>7, <2>2, <2>3, <2>4 DEF Undo
<1>8. CASE BindProcess(h, t)
  <2>1. at[h][t] = "term"  BY <1>8 DEF BindProcess
  <2>2. CASE proc[h] \in Live
    <3>1. pid[h][t] = h  BY <2>1, <2>2, <1>h, <1>b DEF TermSteps, CtorSteps, CallInv, HandleOK, AbsentOK
    <3>2. at'[h][t] = "signal" /\ \A u \in Threads \ {t} : at'[h][u] = at[h][u]
      BY <1>8, <2>2, <3>1, <1>h, <1>g DEF BindProcess, Exists, Live
    <3> QED BY <1>8, <2>1, <2>2, <3>1, <3>2 DEF BindProcess, TermSteps, CloseSteps
  <2>3. CASE proc[h] \notin Live
    <3>1. /\ at'[h][t] \in {"undo", "remove", "signal", "signalForeign"}
          /\ life[h] # "building" => at'[h][t] \in {"remove", "signal", "signalForeign"}
          /\ \A u \in Threads \ {t} : at'[h][u] = at[h][u]
      BY <1>8, <1>g DEF BindProcess, AfterTerm
    <3> QED BY <1>8, <2>1, <2>3, <3>1, <1>c DEF BindProcess, TermSteps, CloseSteps
  <2> QED BY <2>2, <2>3
<1>9. CASE Signal(h, t) \/ SignalForeign(h, t)
  <2>1. pid[h][t] = h
    BY <1>9, <1>h, CallsType DEF SignalsSomeone, Signal, SignalForeign
  <2>2. proc'[h] \notin Live
    <3>1. CASE Signal(h, t)
      <4>1. proc[h] \in Live => proc[h] = "up" \/ proc[h] \in {"boot", "named"}  BY DEF Live
      <4> QED BY <3>1, <2>1, <1>h, <1>t DEF Signal, ExitOrderly, TypeOK, Live
    <3>2. CASE SignalForeign(h, t)  BY <3>2, <2>1, <1>h, <1>t DEF SignalForeign, TypeOK, Live
    <3> QED BY <1>9, <3>1, <3>2
  <2>3. /\ at'[h][t] \in {"undo", "remove"} /\ (life[h] # "building" => at'[h][t] = "remove")
        /\ \A u \in Threads \ {t} : at'[h][u] = at[h][u]
    BY <1>9, <1>g DEF Signal, SignalForeign, AfterTerm
  <2>4. at[h][t] \in TermSteps  BY <1>9 DEF Signal, SignalForeign, TermSteps
  <2> QED BY <1>9, <2>2, <2>3, <2>4, <1>c DEF Signal, SignalForeign, CloseSteps
<1>10. CASE Acquire(h, t)
  <2>1. at[h][t] = "lock" /\ \A u \in Threads \ {t} : at'[h][u] = at[h][u]
    BY <1>10, <1>g DEF Acquire
  <2>2. life[h] # "building"  BY <1>10, <1>h DEF Acquire, CallInv, HandleOK, WaiterOK
  <2>3. CASE Retired(h)
    BY <1>10, <2>1, <2>2, <2>3, <1>g DEF Acquire, Retired
  <2>4. CASE ~Retired(h)
    <3>1. at'[h][t] = "capture"  BY <1>10, <2>4, <1>g DEF Acquire
    <3> QED BY <1>10, <2>1, <2>2, <2>4, <3>1 DEF Acquire, CloseSteps
  <2> QED BY <2>3, <2>4
<1>11. CASE CapturePid(h, t)
  <2>1. at[h][t] = "capture" /\ life[h] = "built" /\ running[h]
    BY <1>11, <1>c DEF CapturePid, CloseSteps
  <2>2. proc[h] \in Live => PidOf(h) = h
    BY <2>1, <1>h, <1>p DEF Exists, Live, CallInv, HandleOK
  <2>3. /\ at'[h][t] = "shutdown" /\ pid'[h][t] = PidOf(h)
        /\ \A u \in Threads \ {t} : at'[h][u] = at[h][u] /\ pid'[h][u] = pid[h][u]
    BY <1>11, <1>g, <1>n DEF CapturePid, CapturedPid
  <2> QED BY <1>11, <2>1, <2>2, <2>3 DEF CapturePid, CloseSteps
<1>12. CASE Shutdown(h, t)
  <2>1. at[h][t] = "shutdown" /\ life[h] = "built" /\ running[h]
    BY <1>12, <1>c DEF Shutdown, CloseSteps
  <2>2. at'[h][t] = "term" /\ \A u \in Threads \ {t} : at'[h][u] = at[h][u]
    BY <1>12, <1>g DEF Shutdown
  <2>3. \/ proc'[h] = "dead"
        \/ proc'[h] = proc[h] /\ pidfile'[h] = pidfile[h] /\ sock'[h] = sock[h]
    BY <1>12, <1>h, <1>r, <1>t DEF Shutdown, ExitOrderly, TypeOK
  <2> QED BY <1>12, <2>1, <2>2, <2>3 DEF Shutdown, TermSteps, Live
<1>13. CASE RemoveFiles(h, t)
  <2>1. at[h][t] = "remove" /\ life[h] = "built" /\ running[h]
    BY <1>13, <1>c DEF RemoveFiles, CloseSteps
  <2>2. proc[h] \notin Live  BY <2>1
  <2>3. at'[h][t] = "idle" /\ \A u \in Threads \ {t} : at'[h][u] = at[h][u]
    BY <1>13, <1>g DEF RemoveFiles, Return, Back
  <2>4. ~running'[h] /\ h \notin tmpdirs' \cup sockdirs'
    BY <1>13, <1>h, <1>t DEF RemoveFiles, TypeOK
  <2> QED BY <1>13, <2>1, <2>2, <2>3, <2>4 DEF RemoveFiles
<1>14. CASE \/ LoadRegistry(h, t) \/ ProbePid(h, t) \/ TruncateRegistry(h, t) \/ SaveRegistry(h, t)
            \/ Count(h, t) \/ CountFails(h, t) \/ Leave(h, t) \/ Interrupt(h, t)
  BY <1>14, <1>h
  DEF LoadRegistry, ProbePid, TruncateRegistry, SaveRegistry, Count, CountFails, Leave, Interrupt,
      Apart, StepsApart, RegistrySteps, Patient
<1> QED
  BY <1>1, <1>2, <1>3, <1>4, <1>5, <1>6, <1>7, <1>8, <1>9, <1>10, <1>11, <1>12, <1>13, <1>14
  DEF Step

\* The steps of its daemon, and of the program around it.
LEMMA OwnDaemon ==
    ASSUME CallInv, Apart, NEW h \in Isolated, PrivateOK(h),
           Boot(h) \/ Crash(h) \/ ReusePid(h) \/ Write(h) \/ Grow(h) \/ Visit(h) \/ ClientCrash(h)
    PROVE  PrivateOK(h)'
<1> USE DEF daemons, runfiles, dirs, object, calls, conns
<1> USE DEF PrivateOK, DaemonCared, Cared, DirsCared, NeverCounts, InUse, InTeardown
<1>t. TypeOK  BY DEF CallInv
<1>h. /\ h \in Handles /\ h \in Dirs /\ h \in Locs /\ Dir(h) = h
      /\ Reach(h) \in {None, h} /\ (setup[h] # None => setup[h].sock = h)
  BY <1>t, OwnFiles DEF Dirs, Locs
<1>1. CASE WritePidfile(h)
  <2>1. proc[h] = "boot" /\ proc'[h] = "named" /\ h \in tmpdirs
    BY <1>1, <1>h, <1>t DEF WritePidfile, TypeOK, Live
  <2>2. pidfile'[h] = h  BY <1>1, <2>1, <1>h, <1>t DEF WritePidfile, TypeOK
  <2> QED BY <1>1, <2>1, <2>2 DEF WritePidfile, Live
<1>2. CASE Serve(h)
  <2>1. proc[h] = "named" /\ proc'[h] = "up"  BY <1>2, <1>h, <1>t DEF Serve, TypeOK
  <2>2. sock'[h] = h  BY <1>2, <1>h, <1>t DEF Serve, TypeOK, Live
  <2> QED BY <1>2, <2>1, <2>2 DEF Serve, Live
<1>3. CASE BindFails(h) \/ Crash(h) \/ ReusePid(h)
  <2>1. proc'[h] \notin Live  BY <1>3, <1>h, <1>t DEF BindFails, Crash, ReusePid, TypeOK, Live
  <2>2. CASE BindFails(h)
    <3>1. proc[h] = "named"  BY <2>2 DEF BindFails
    <3> QED BY <2>2, <2>1, <3>1 DEF BindFails
  <2>3. CASE Crash(h)  BY <2>3, <2>1 DEF Crash
  <2>4. CASE ReusePid(h)
    <3>1. proc[h] = "dead"  BY <2>4 DEF ReusePid
    <3> QED BY <2>4, <2>1, <3>1 DEF ReusePid
  <2> QED BY <1>3, <2>2, <2>3, <2>4
<1>4. CASE Write(h)
  <2>1. Reach(h) = h /\ link'[h] = h  BY <1>4, <1>h, <1>t DEF Write, Connect, TypeOK
  <2> QED BY <1>4, <2>1 DEF Write
<1>5. CASE Grow(h) \/ Visit(h)  BY <1>5 DEF Grow, Visit
<1>6. CASE ClientCrash(h)
  <2>1. life'[h] = "crashed" /\ \A u \in Threads : at'[h][u] = "idle"
    BY <1>6, <1>h, <1>t DEF ClientCrash, TypeOK
  <2> QED BY <1>6, <2>1 DEF ClientCrash
<1> QED BY <1>1, <1>2, <1>3, <1>4, <1>5, <1>6 DEF Boot

LEMMA PrivateStep ==
    ASSUME Patient, CallInv, Apart, FreshOK, PrivateInv, [Next]_vars
    PROVE  PrivateInv'
<1> SUFFICES ASSUME NEW h \in Isolated PROVE PrivateOK(h)'  BY DEF PrivateInv
<1>t. TypeOK /\ SignalsSomeone /\ PrivateOK(h)  BY CallsType DEF CallInv, PrivateInv
<1>1. ASSUME NEW g \in Handles, NEW t \in Threads,
             Open(g, t) \/ BeginClose(g, t) \/ Step(g, t) \/ Interrupt(g, t)
      PROVE  PrivateOK(h)'
  <2>1. CASE g = h  BY <1>t, <1>1, <2>1, OwnCalls
  <2>2. CASE g # h
    <3>1. Untouched(h)  BY <1>t, <1>1, <2>2, CallsSpare
    <3> QED BY <1>t, <3>1, UntouchedOK
  <2> QED BY <2>1, <2>2
<1>2. ASSUME NEW g \in Handles,
             Boot(g) \/ Crash(g) \/ ReusePid(g) \/ Write(g) \/ Grow(g) \/ Visit(g) \/ ClientCrash(g)
      PROVE  PrivateOK(h)'
  <2>1. CASE g = h  BY <1>t, <1>2, <2>1, OwnDaemon
  <2>2. CASE g # h
    <3>1. Untouched(h)  BY <1>t, <1>2, <2>2, DaemonsSpare
    <3> QED BY <1>t, <3>1, UntouchedOK
  <2> QED BY <2>1, <2>2
<1>3. CASE UNCHANGED vars
  <2>1. Untouched(h)
    BY <1>3 DEF vars, daemons, runfiles, dirs, object, calls, conns, Untouched
  <2> QED BY <1>t, <2>1, UntouchedOK
<1> QED BY <1>1, <1>2, <1>3 DEF Next

LEMMA PrivateCared == ASSUME Patient PROVE Spec => []PrivateInv
<1>1. CallInv /\ Apart /\ Once /\ PrivateInv /\ [Next]_vars => PrivateInv'
  BY PrivateStep DEF Once
<1> QED BY <1>1, PrivateInit, CallsCorrect, ApartCorrect, OnceCorrect, PTL DEF Spec

\* Whatever instances of whatever processes interleave, and whatever fails, a
\* private instance that has been closed, or has failed to open, leaves neither its
\* daemon nor its temp directories behind -- provided start_timeout is long enough
\* for a daemon to boot and no KeyboardInterrupt hits the constructor.
THEOREM PrivateCorrect == ASSUME Patient PROVE Spec => []PrivateReleased
<1>1. PrivateInv => PrivateReleased
  BY DEF PrivateInv, PrivateOK, DaemonCared, Cared, DirsCared, PrivateReleased, Gone
<1> QED BY <1>1, PrivateCared, PTL
=============================================================================
