------------------------ MODULE ExplicitServer_proofs ------------------------
(***************************************************************************)
(* What start, stop and terminate do to daemons, for any number of servers *)
(* and threads: shapes under every overlap of calls and every fault, and   *)
(* the lifecycle of one daemon at a time where stops and terminates of an  *)
(* object may overlap, but nothing overlaps a start.                       *)
(***************************************************************************)
EXTENDS ExplicitServer, TLAPS

\* A pid that a call has captured was launched.
Captured ==
    \A s \in Servers, t \in Threads : pid[s][t] # None => proc[pid[s][t]] # "free"

IInv == TypeOK /\ Captured

USE DEF Live, Steps, StartSteps, StopSteps, KillSteps

\* The invariant holds before the first call.
LEMMA InitInvariant == Init => IInv
BY ServersAssumption, ModeAssumption DEF Init, IInv, TypeOK, Captured

\* A data directory goes by the name of one of its servers.
LEMMA DirTyped == \A s \in Servers : Dir(s) \in Servers
<1> SUFFICES ASSUME NEW s \in Servers PROVE Dir(s) \in Servers
  OBVIOUS
<1>1. CASE s \in SameDir
  BY <1>1, ServersAssumption DEF Dir
<1>2. CASE s \notin SameDir
  BY <1>2 DEF Dir
<1> QED
  BY <1>1, <1>2

\* A call goes on to one step and leaves the others where they are.
LEMMA GotoTyped ==
    ASSUME TypeOK, NEW s \in Servers, NEW t \in Threads, NEW step \in Steps, Goto(s, t, step)
    PROVE  /\ at' \in [Servers -> [Threads -> Steps]]
           /\ \A r \in Servers, u \in Threads :
                 at'[r][u] = IF r = s /\ u = t THEN step ELSE at[r][u]
BY DEF TypeOK, Goto

\* A process may only be launched, by a server and for a port.
BirthsOnly ==
    /\ proc' \in [Pids -> Live \cup {"free", "killed", "dead", "foreign"}]
    /\ home' \in [Pids -> Servers \cup {None}] /\ tport' \in [Pids -> Ports \cup {None}]
    /\ \A p \in Pids : /\ proc'[p] # "free" => home'[p] # None /\ tport'[p] # None
                       /\ proc[p] # "free" => proc'[p] = proc[p]

\* Processes only die: none is launched or comes back.
DeathsOnly ==
    /\ proc' \in [Pids -> Live \cup {"free", "killed", "dead", "foreign"}]
    /\ \A p \in Pids : /\ proc'[p] # "free" <=> proc[p] # "free"
                       /\ proc'[p] \in Live => proc[p] \in Live
    /\ tcp' \in [Ports -> Pids \cup {None, Outsider}]
    /\ pidfile' \in [Servers -> Pids \cup {None}]

LEMMA Exits ==
    ASSUME TypeOK, NEW p \in Pids \cup {None}, ExitOrderly(p) \/ ExitKilled(p) \/ SendKill(p),
           p # None => proc[p] # "free"
    PROVE  DeathsOnly
<1>1. /\ proc' \in [Pids -> Live \cup {"free", "killed", "dead", "foreign"}]
      /\ \A q \in Pids : q # p => proc'[q] = proc[q]
      /\ p # None => proc'[p] \in {"dead", "killed"}
  BY DEF TypeOK, ExitOrderly, ExitKilled, SendKill
<1>2. tcp' \in [Ports -> Pids \cup {None, Outsider}]
  BY DEF TypeOK, ExitOrderly, ExitKilled, SendKill
<1>3. pidfile' \in [Servers -> Pids \cup {None}]
  BY DEF TypeOK, ExitOrderly, ExitKilled, SendKill
<1> QED
  BY <1>1, <1>2, <1>3, NamesAssumption DEF DeathsOnly

\* Deaths do not disturb the invariant.
LEMMA DeathsKeep ==
    ASSUME IInv, NEW s \in Servers, NEW t \in Threads, NEW step \in Steps, Goto(s, t, step),
           DeathsOnly, UNCHANGED <<home, tport, conf, dir, sockdir, object, pid>>
    PROVE  IInv'
<1>1. TypeOK'
  BY GotoTyped DEF IInv, TypeOK, DeathsOnly, object
<1>2. Captured'
  BY NamesAssumption DEF IInv, TypeOK, Captured, DeathsOnly
<1> QED
  BY <1>1, <1>2 DEF IInv

\* Every step of a call keeps it.
LEMMA CallInvariant ==
    ASSUME IInv, NEW s \in Servers, NEW t \in Threads, Call(s, t) \/ Step(s, t) \/ Exit(s, t)
    PROVE  IInv'
<1> USE ServersAssumption, NamesAssumption, ModeAssumption
<1>0. TypeOK /\ Captured
  BY DEF IInv
<1> USE <1>0
<1>1. CASE Call(s, t)
  <2>1. TypeOK'
    BY <1>1 DEF Call, Goto, TypeOK, daemons, files, object, calls
  <2>2. Captured'
    BY <1>1 DEF Call, Goto, TypeOK, Captured, daemons, files, object, calls
  <2> QED
    BY <2>1, <2>2 DEF IInv
<1>2. CASE CheckRunning(s, t)
  <2>1. TypeOK'
    BY <1>2 DEF CheckRunning, Goto, TypeOK, daemons, files, object, calls
  <2>2. Captured'
    BY <1>2 DEF CheckRunning, Goto, TypeOK, Captured, daemons, files, object, calls
  <2> QED
    BY <2>1, <2>2 DEF IInv
<1>3. CASE ChoosePort(s, t)
  <2>1. TypeOK'
    BY <1>3 DEF ChoosePort, FreePorts, SocketDirectory, Goto, TypeOK, daemons, files, object, calls
  <2>2. Captured'
    BY <1>3 DEF ChoosePort, FreePorts, SocketDirectory, Goto, TypeOK, Captured, daemons, files, object, calls
  <2> QED
    BY <2>1, <2>2 DEF IInv
<1>4. CASE WriteConf(s, t)
  <2>1. PICK step \in Steps : Goto(s, t, step)
    BY <1>4 DEF WriteConf
  <2>2. /\ conf' \in [Servers -> Ports \cup {None}]
        /\ UNCHANGED <<daemons, pidfile, dir, sockdir, object, pid>>
    <3>1. Rendered(s) \in Ports \cup {None}
      BY DEF Rendered, TypeOK
    <3>2. conf' = conf \/ conf' = [conf EXCEPT ![Dir(s)] = Rendered(s)]
      BY <1>4 DEF WriteConf
    <3>3. UNCHANGED <<daemons, pidfile, dir, sockdir, object, pid>>
      BY <1>4 DEF WriteConf
    <3>4. conf' \in [Servers -> Ports \cup {None}]
      BY <3>1, <3>2, Zenon DEF TypeOK
    <3> QED
      BY <3>3, <3>4
  <2>3. TypeOK'
    BY <2>1, <2>2, GotoTyped DEF TypeOK, daemons, object
  <2>4. Captured'
    BY <2>2 DEF Captured, daemons
  <2> QED
    BY <2>3, <2>4 DEF IInv
<1>5. CASE Launch(s, t)
  <2>1. Goto(s, t, "wait") /\ UNCHANGED <<tcp, files, object, pid>>
    BY <1>5 DEF Launch
  <2>2. BirthsOnly
    <3>1. CASE UNCHANGED <<proc, home, tport>>
      BY <3>1 DEF TypeOK, BirthsOnly
    <3>2. ASSUME NEW p \in Pids, proc[p] = "free", ReadsConf(s), proc' = [proc EXCEPT ![p] = "boot"],
                 home' = [home EXCEPT ![p] = s], tport' = [tport EXCEPT ![p] = conf[Dir(s)]]
          PROVE  BirthsOnly
      BY <3>2, DirTyped DEF ReadsConf, TypeOK, BirthsOnly
    <3> QED
      BY <1>5, <3>1, <3>2 DEF Launch
  <2>3. TypeOK'
    BY <2>1, <2>2, GotoTyped DEF TypeOK, files, object, BirthsOnly
  <2>4. Captured'
    BY <2>1, <2>2 DEF Captured, TypeOK, BirthsOnly
  <2> QED
    BY <2>3, <2>4 DEF IInv
<1>17. CASE AwaitLauncher(s, t)
  <2>1. TypeOK'
    BY <1>17 DEF AwaitLauncher, RegisterHook, Goto, TypeOK, daemons, files, calls
  <2>2. Captured'
    BY <1>17 DEF AwaitLauncher, Goto, TypeOK, Captured, daemons, files, calls
  <2> QED
    BY <2>1, <2>2 DEF IInv
<1>6. CASE PingAnswered(s, t)
  <2>1. TypeOK'
    BY <1>6 DEF PingAnswered, Goto, TypeOK, daemons, files, object, calls
  <2>2. Captured'
    BY <1>6 DEF PingAnswered, Goto, TypeOK, Captured, daemons, files, object, calls
  <2> QED
    BY <2>1, <2>2 DEF IInv
<1>7. CASE PingTimeout(s, t)
  <2>1. TypeOK'
    BY <1>7 DEF PingTimeout, Goto, TypeOK, daemons, files, object, calls
  <2>2. Captured'
    BY <1>7 DEF PingTimeout, Goto, TypeOK, Captured, daemons, files, object, calls
  <2> QED
    BY <2>1, <2>2 DEF IInv
<1>8. CASE BeginStop(s, t)
  <2>1. TypeOK'
    BY <1>8, DirTyped DEF BeginStop, PidOf, Exists, Goto, TypeOK, daemons, files, object, calls
  <2>2. Captured'
    BY <1>8, DirTyped DEF BeginStop, PidOf, Exists, Goto, TypeOK, Captured, daemons, files, object, calls
  <2> QED
    BY <2>1, <2>2 DEF IInv
<1>9. CASE Shutdown(s, t)
  <2>1. Goto(s, t, "term") /\ UNCHANGED <<home, tport, conf, dir, sockdir, object, pid>>
    BY <1>9 DEF Shutdown
  <2>2. DeathsOnly
    <3>1. ASSUME NEW p \in Pids, p = Answering(s), ExitOrderly(p) PROVE DeathsOnly
      <4>1. proc[p] # "free"
        BY <3>1 DEF Answering, TypeOK
      <4> QED
        BY <3>1, <4>1, Exits
    <3>2. CASE UNCHANGED <<proc, pidfile>> /\ (tcp' = tcp \/ tcp' = [tcp EXCEPT ![port[s]] = None])
      BY <3>2 DEF DeathsOnly, TypeOK
    <3> QED
      BY <1>9, <3>1, <3>2 DEF Shutdown
  <2> QED
    BY <2>1, <2>2, DeathsKeep DEF IInv
<1>10. CASE BindProcess(s, t)
  <2>1. TypeOK'
    BY <1>10 DEF BindProcess, Exists, Goto, TypeOK, daemons, files, object, calls
  <2>2. Captured'
    BY <1>10 DEF BindProcess, Exists, Goto, TypeOK, Captured, daemons, files, object, calls
  <2> QED
    BY <2>1, <2>2 DEF IInv
<1>11. CASE Signal(s, t)
  <2>1. Goto(s, t, "clean") /\ UNCHANGED <<home, tport, conf, dir, sockdir, object, pid>>
    BY <1>11 DEF Signal
  <2>2. pid[s][t] \in Pids \cup {None} /\ (pid[s][t] # None => proc[pid[s][t]] # "free")
    BY DEF TypeOK, Captured
  <2>3. DeathsOnly
    BY <1>11, <2>2, Exits DEF Signal, Escalate, DeathsOnly, TypeOK
  <2> QED
    BY <2>1, <2>3, DeathsKeep DEF IInv
<1>12. CASE SignalForeign(s, t)
  <2>1. PICK step \in Steps : Goto(s, t, step)
    BY <1>12 DEF SignalForeign
  <2>2. pid[s][t] \in Pids \cup {None} /\ (pid[s][t] # None => proc[pid[s][t]] # "free")
    BY DEF TypeOK, Captured
  <2>3. /\ proc' = [proc EXCEPT ![pid[s][t]] = "dead"]
        /\ UNCHANGED <<home, tport, tcp, files, object, pid>>
    BY <1>12 DEF SignalForeign
  <2>4. DeathsOnly
    BY <2>2, <2>3 DEF DeathsOnly, TypeOK, files
  <2> QED
    BY <2>1, <2>3, <2>4, DeathsKeep DEF IInv, files
<1>13. CASE Clean(s, t)
  <2>1. TypeOK'
    BY <1>13 DEF Clean, Back, Goto, TypeOK, daemons, files, object, calls
  <2>2. Captured'
    BY <1>13 DEF Clean, Back, Goto, TypeOK, Captured, daemons, files, object, calls
  <2> QED
    BY <2>1, <2>2 DEF IInv
<1>14. CASE BeginTerminate(s, t)
  <2>1. TypeOK'
    BY <1>14, DirTyped DEF BeginTerminate, PidOf, Exists, Goto, TypeOK, daemons, files, object, calls
  <2>2. Captured'
    BY <1>14, DirTyped DEF BeginTerminate, PidOf, Exists, Goto, TypeOK, Captured, daemons, files, object, calls
  <2> QED
    BY <2>1, <2>2 DEF IInv
<1>15. CASE Kill(s, t)
  <2>1. Goto(s, t, "cleanKilled") /\ UNCHANGED <<home, tport, conf, dir, sockdir, object, pid>>
    BY <1>15 DEF Kill
  <2>2. pid[s][t] \in Pids \cup {None} /\ (pid[s][t] # None => proc[pid[s][t]] # "free")
    BY DEF TypeOK, Captured
  <2>3. DeathsOnly
    BY <1>15, <2>2, Exits DEF Kill, DeathsOnly, TypeOK
  <2> QED
    BY <2>1, <2>3, DeathsKeep DEF IInv
<1>16. CASE Exit(s, t)
  <2>1. /\ exited' \in [Servers -> BOOLEAN]
        /\ UNCHANGED <<daemons, files, port, hook, pid>>
    BY <1>16 DEF Exit, TypeOK
  <2>2. UNCHANGED at \/ Goto(s, t, "stop")
    BY <1>16 DEF Exit
  <2>3. TypeOK'
    BY <2>1, <2>2, GotoTyped DEF TypeOK, daemons, files
  <2>4. Captured'
    BY <2>1 DEF Captured, daemons
  <2> QED
    BY <2>3, <2>4 DEF IInv
<1> QED
  BY <1>1, <1>2, <1>3, <1>4, <1>5, <1>6, <1>7, <1>8, <1>9, <1>10, <1>11, <1>12, <1>13, <1>14, <1>15, <1>16, <1>17 DEF Step

\* So does every step of a daemon and of the rest of the machine.
LEMMA MachineInvariant ==
    ASSUME IInv, \/ \E p \in Pids : Boot(p) \/ Die(p) \/ Crash(p) \/ ReusePid(p)
                 \/ \E n \in Ports : TakePort(n)
    PROVE  IInv'
<1> USE NamesAssumption
<1>0. TypeOK /\ Captured
  BY DEF IInv
<1>1. ASSUME NEW p \in Pids, Boot(p) \/ Die(p) \/ Crash(p) \/ ReusePid(p) PROVE IInv'
  <2> USE <1>0
  <2>1. CASE WritePidfile(p)
    <3>1. TypeOK'
      BY <2>1 DEF WritePidfile, TypeOK, daemons, files, object, calls
    <3>2. Captured'
      BY <2>1 DEF WritePidfile, TypeOK, Captured, daemons, files, object, calls
      <3> QED
      BY <3>1, <3>2 DEF IInv
  <2>2. CASE Serve(p)
    <3>1. TypeOK'
      BY <2>2 DEF Serve, TypeOK, daemons, files, object, calls
    <3>2. Captured'
      BY <2>2 DEF Serve, TypeOK, Captured, daemons, files, object, calls
      <3> QED
      BY <3>1, <3>2 DEF IInv
  <2>3. CASE BindFails(p)
    <3>1. TypeOK'
      BY <2>3 DEF BindFails, ExitKilled, TypeOK, daemons, files, object, calls
    <3>2. Captured'
      BY <2>3 DEF BindFails, ExitKilled, TypeOK, Captured, daemons, files, object, calls
      <3> QED
      BY <3>1, <3>2 DEF IInv
  <2>4. CASE Crash(p)
    <3>1. TypeOK'
      BY <2>4 DEF Crash, ExitKilled, TypeOK, daemons, files, object, calls
    <3>2. Captured'
      BY <2>4 DEF Crash, ExitKilled, TypeOK, Captured, daemons, files, object, calls
      <3> QED
      BY <3>1, <3>2 DEF IInv
  <2>5. CASE ReusePid(p)
    <3>1. TypeOK'
      BY <2>5 DEF ReusePid, TypeOK, daemons, files, object, calls
    <3>2. Captured'
      BY <2>5 DEF ReusePid, TypeOK, Captured, daemons, files, object, calls
      <3> QED
      BY <3>1, <3>2 DEF IInv
  <2>6. CASE Die(p)
    <3>1. TypeOK'
      BY <2>6 DEF Die, ExitKilled, TypeOK, daemons, files, object, calls
    <3>2. Captured'
      BY <2>6 DEF Die, ExitKilled, TypeOK, Captured, daemons, files, object, calls
    <3> QED
      BY <3>1, <3>2 DEF IInv
  <2> QED
    BY <1>1, <2>1, <2>2, <2>3, <2>4, <2>5, <2>6 DEF Boot
<1>2. ASSUME NEW n \in Ports, TakePort(n) PROVE IInv'
  BY <1>0, <1>2 DEF TakePort, IInv, TypeOK, Captured, files, object, calls
<1> QED
  BY <1>1, <1>2

\* Every step keeps it.
LEMMA NextInvariant == IInv /\ [Next]_vars => IInv'
<1> SUFFICES ASSUME IInv, [Next]_vars PROVE IInv'
  OBVIOUS
<1>1. CASE Next
  BY <1>1, CallInvariant, MachineInvariant DEF Next
<1>2. CASE UNCHANGED vars
  BY <1>2 DEF vars, daemons, files, object, calls, IInv, TypeOK, Captured
<1> QED
  BY <1>1, <1>2

\* The invariant of all calls.
THEOREM Calls == Spec => []IInv
BY InitInvariant, NextInvariant, PTL DEF Spec

\* Every variable keeps its shape, whatever the threads interleave.
THEOREM TypeCorrect == Spec => []TypeOK
<1>1. IInv => TypeOK
  BY DEF IInv
<1> QED
  BY <1>1, Calls, PTL

-----------------------------------------------------------------------------
(* Starts that nothing overlaps: the lifecycle of one daemon at a time.    *)

\* What the theorems of the next part ask for: a start is made alone, and stops
\* and terminates overlap on one object only; no two servers are given one data
\* directory, the config leaves port and pidfile alone, a server that is given
\* its port is the only one, and neither another program nor a slow machine gets
\* in between.  TLC refutes some of them if any of these is dropped.
Orderly ==
    /\ Overlap # "any"
    /\ \A r, s \in SameDir : r = s
    /\ PortInConfig = {} /\ PidInConfig = {}
    /\ \A s \in Fixed : Servers = {s}
    /\ "port_taken" \notin Faults /\ "slow_start" \notin Faults

\* No other process ever gets the pid of a dead daemon.
FreshPids == "pid_reuse" \notin Faults

\* Calls overlap on one server, and a start is the only call.
Alone ==
    \A r, s \in Servers, t, u \in Threads :
        at[r][t] # "idle" /\ at[s][u] # "idle" => r = s /\ (at[r][t] \in StartSteps => t = u)

Waits(s) == \E t \in Threads : at[s][t] \in {"wait", "ping"}

\* A daemon boots during a start of its server; once it is up, its server finds
\* it by its pidfile and by its port, and so does the next call.  A killed one
\* holds its port, which is that of its server while the pidfile names it.
DaemonInv ==
    \A p \in Pids :
        /\ proc[p] \in {"boot", "named"} => Waits(home[p])
        /\ proc[p] = "boot" => dir[home[p]]
        /\ proc[p] \in {"named", "up"} => pidfile[home[p]] = p
        /\ proc[p] \in Live => tport[p] = port[home[p]]
        /\ proc[p] \in {"up", "killed"} => tcp[tport[p]] = p
        /\ proc[p] = "killed" /\ pidfile[home[p]] = p => tport[p] = port[home[p]]

\* Only daemons of ours listen, each on the port that it was launched for.
ListenInv ==
    \A n \in Ports :
        tcp[n] # None => tcp[n] \in Pids /\ proc[tcp[n]] \in {"up", "killed"} /\ tport[tcp[n]] = n

\* A pidfile, stale or not, names a daemon of its own server.
PidfileInv ==
    \A s \in Servers :
        pidfile[s] # None => proc[pidfile[s]] # "free" /\ home[pidfile[s]] = s

\* A port is free, or about to be.
Frees(n) == tcp[n] = None \/ proc[tcp[n]] = "killed"

\* What a call may count on at each of its steps.
CallOk(s, t) ==
    /\ at[s][t] \in {"port", "conf", "launch"} => DaemonsOf(s) = {}
    /\ at[s][t] \in {"clean", "cleanKilled", "signalForeign", "killForeign"} => DaemonsOf(s) = {}
    /\ at[s][t] = "port" => pidfile[s] = None \/ proc[pidfile[s]] # "killed"
    /\ at[s][t] \in {"conf", "launch", "wait", "ping"} => port[s] # None
    /\ at[s][t] \in {"conf", "launch"} => Frees(port[s])
    /\ at[s][t] = "launch" => dir[s] /\ conf[s] = port[s]
    /\ at[s][t] \in {"wait", "ping"} => Frees(port[s]) \/ tcp[port[s]] \in DaemonsOf(s)
    /\ at[s][t] \in {"shutdown", "term", "signal", "kill"} => DaemonsOf(s) \subseteq {pid[s][t]}
    /\ at[s][t] \in {"shutdown", "term", "signal", "signalForeign", "kill", "killForeign"} =>
          pid[s][t] # None /\ home[pid[s][t]] = s
    /\ at[s][t] \in {"signalForeign", "killForeign"} => proc[pid[s][t]] \in {"dead", "foreign"}
CallInv == \A s \in Servers, t \in Threads : CallOk(s, t)

SerialInv == Alone /\ OneDaemon /\ DaemonInv /\ ListenInv /\ PidfileInv /\ CallInv

\* Then every server has its data directory for itself.
LEMMA OwnDirectory == ASSUME Orderly PROVE \A s \in Servers : Dir(s) = s
BY DEF Orderly, Dir

\* A start that is under way is the only call...
LEMMA OnlyStart ==
    ASSUME Alone, NEW s \in Servers, NEW t \in Threads, at[s][t] \in StartSteps
    PROVE  \A r \in Servers, u \in Threads : at[r][u] # "idle" => r = s /\ u = t
BY DEF Alone

\* ...so there is none beside another call.
LEMMA NoStart ==
    ASSUME Alone, NEW s \in Servers, NEW t \in Threads, at[s][t] \notin StartSteps \cup {"idle"}
    PROVE  \A r \in Servers, u \in Threads : at[r][u] \notin StartSteps
<1> SUFFICES ASSUME NEW r \in Servers, NEW u \in Threads, at[r][u] \in StartSteps PROVE FALSE
  OBVIOUS
<1>1. r = s /\ u = t
  BY DEF Alone
<1> QED
  BY <1>1

\* A call that begins, or goes on, does not get beside a start.
LEMMA StillAlone ==
    ASSUME Overlap # "any", TypeOK, Alone, NEW s \in Servers, NEW t \in Threads, NEW step \in Steps,
           Goto(s, t, step),
           \/ at[s][t] # "idle" /\ (step \in StartSteps => at[s][t] \in StartSteps)
           \/ step \in {"check", "stop", "terminate"} /\ MayBegin(s, step)
    PROVE  /\ at'[s][t] = step
           /\ Alone'
           /\ \A r \in Servers, u \in Threads : at[r][u] \in StartSteps => r = s /\ u = t
<1>1. \A r \in Servers, u \in Threads : at'[r][u] = IF r = s /\ u = t THEN step ELSE at[r][u]
  BY GotoTyped
<1>2. CASE at[s][t] # "idle" /\ (step \in StartSteps => at[s][t] \in StartSteps)
  BY <1>1, <1>2 DEF Alone
<1>3. CASE step \in {"check", "stop", "terminate"} /\ MayBegin(s, step)
  <2>1. CASE \A r \in Servers : Idle(r)
    BY <1>1, <2>1 DEF Alone, Idle
  <2>2. CASE /\ step # "check" /\ \A r \in Servers \ {s} : Idle(r)
             /\ \A u \in Threads : at[s][u] \notin StartSteps
    BY <1>1, <1>3, <2>2 DEF Alone, Idle
  <2> QED
    BY <1>3, <2>1, <2>2 DEF MayBegin
<1> QED
  BY <1>2, <1>3

\* Where no start waits, every daemon that lives is up.
LEMMA Settled ==
    ASSUME TypeOK, DaemonInv, \A r \in Servers, u \in Threads : at[r][u] \notin {"wait", "ping"}
    PROVE  \A p \in Pids : proc[p] \notin {"boot", "named"}
BY NamesAssumption DEF TypeOK, DaemonInv, Waits

\* A live daemon has a server and a port, and so has a killed one.
LEMMA Housed ==
    TypeOK => \A p \in Pids : proc[p] \in Live \cup {"killed"} => home[p] \in Servers /\ tport[p] \in Ports
BY DEF TypeOK

\* A server that finds no live process by its pidfile has no daemon, and the
\* one that it finds is its only daemon, if no start waits.
LEMMA FoundByPidfile ==
    ASSUME Orderly, TypeOK, SerialInv, NEW s \in Servers,
           \A r \in Servers, u \in Threads : at[r][u] \notin {"wait", "ping"}
    PROVE  /\ PidOf(s) = None => DaemonsOf(s) = {}
           /\ PidOf(s) # None => /\ PidOf(s) \in Pids /\ home[PidOf(s)] = s
                                 /\ PidOf(s) = pidfile[s]
                                 /\ proc[PidOf(s)] \in {"up", "killed", "foreign"}
                                 /\ DaemonsOf(s) \subseteq {PidOf(s)}
           /\ DaemonsOf(s) # {} => port[s] # None
<1> USE NamesAssumption
<1>1. PidOf(s) = IF Exists(pidfile[s]) THEN pidfile[s] ELSE None
  BY OwnDirectory DEF PidOf
<1>2. \A p \in DaemonsOf(s) : p \in Pids /\ proc[p] = "up" /\ pidfile[s] = p /\ port[s] = tport[p] /\ tport[p] \in Ports
  BY Settled, Housed DEF SerialInv, DaemonInv, DaemonsOf
<1>3. pidfile[s] \in Pids \cup {None}
  BY DEF TypeOK
<1>4. PidOf(s) # None => /\ PidOf(s) = pidfile[s] /\ pidfile[s] \in Pids /\ home[pidfile[s]] = s
                         /\ proc[pidfile[s]] \in Live \cup {"killed", "foreign"}
  BY <1>1, <1>3 DEF Exists, SerialInv, PidfileInv
<1>5. PidOf(s) # None => proc[pidfile[s]] \in {"up", "killed", "foreign"}
  BY <1>4, Settled DEF SerialInv
<1>6. \A p \in DaemonsOf(s) : PidOf(s) = p
  BY <1>1, <1>2 DEF Exists
<1> QED
  BY <1>2, <1>4, <1>5, <1>6

\* It holds before the first call.
LEMMA InitSerial == Init => SerialInv
<1> SUFFICES ASSUME Init PROVE SerialInv
  OBVIOUS
<1>1. \A p \in Pids : proc[p] = "free"
  BY DEF Init
<1>2. Alone
  BY DEF Init, Alone
<1>3. OneDaemon /\ DaemonInv
  BY <1>1 DEF OneDaemon, DaemonsOf, DaemonInv
<1>4. ListenInv /\ PidfileInv
  BY DEF Init, ListenInv, PidfileInv
<1>5. CallInv
  BY DEF Init, CallInv, CallOk
<1> QED
  BY <1>2, <1>3, <1>4, <1>5 DEF SerialInv

\* A step of a call that leaves daemons, pidfiles and directories alone.
LEMMA CallMoves ==
    ASSUME TypeOK, SerialInv, Alone', NEW s \in Servers, NEW t \in Threads, NEW step \in Steps,
           \A r \in Servers, u \in Threads : at[r][u] \in StartSteps => r = s /\ u = t,
           Goto(s, t, step), UNCHANGED <<daemons, pidfile, dir>>,
           \A r \in Servers, u \in Threads : pid'[r][u] = pid[r][u] \/ (r = s /\ u = t),
           \A r \in Servers : \/ port'[r] = port[r]
                              \/ /\ r = s /\ DaemonsOf(s) = {}
                                 /\ pidfile[s] = None \/ proc[pidfile[s]] # "killed",
           at[s][t] \in {"wait", "ping"} /\ step \notin {"wait", "ping"} =>
               \A p \in Pids : proc[p] \in {"boot", "named"} => home[p] # s,
           CallOk(s, t)'
    PROVE  SerialInv'
<1> USE NamesAssumption
<1>1. \A r \in Servers, u \in Threads : at'[r][u] = IF r = s /\ u = t THEN step ELSE at[r][u]
  BY GotoTyped
<1>2. \A r \in Servers : DaemonsOf(r)' = DaemonsOf(r)
  BY DEF DaemonsOf, daemons
<1>3. OneDaemon'
  BY <1>2 DEF SerialInv, OneDaemon, DaemonsOf, daemons
<1>4. DaemonInv'
  <2> SUFFICES ASSUME NEW p \in Pids
               PROVE  /\ proc[p] \in {"boot", "named"} => Waits(home[p])'
                      /\ proc[p] \in Live => tport[p] = port'[home[p]]
                      /\ proc[p] = "killed" /\ pidfile[home[p]] = p => tport[p] = port'[home[p]]
    BY DEF SerialInv, DaemonInv, Waits, daemons
  <2>1. CASE proc[p] \in {"boot", "named"}
    <3>1. PICK u \in Threads : at[home[p]][u] \in {"wait", "ping"}
      BY <2>1 DEF SerialInv, DaemonInv, Waits
    <3>2. home[p] = s /\ u = t /\ step \in {"wait", "ping"}
      BY <2>1, <3>1, Housed
    <3>3. Waits(home[p])'
      BY <1>1, <3>2 DEF Waits, daemons
    <3>4. tport[p] = port[s] /\ p \in DaemonsOf(s)
      BY <2>1, <3>2 DEF SerialInv, DaemonInv, DaemonsOf
    <3> QED
      BY <2>1, <3>2, <3>3, <3>4
  <2>2. CASE proc[p] = "up"
    BY <2>2, Housed DEF SerialInv, DaemonInv, DaemonsOf
  <2>3. CASE proc[p] = "killed" /\ pidfile[home[p]] = p
    BY <2>3, Housed DEF SerialInv, DaemonInv
  <2> QED
    BY <2>1, <2>2, <2>3
<1>5. ListenInv' /\ PidfileInv'
  BY DEF SerialInv, ListenInv, PidfileInv, daemons
<1>6. CallInv'
  <2> SUFFICES ASSUME NEW r \in Servers, NEW u \in Threads, ~(r = s /\ u = t) PROVE CallOk(r, u)'
    BY DEF CallInv
  <2>1. CallOk(r, u) /\ at'[r][u] = at[r][u] /\ at[r][u] \notin StartSteps /\ pid'[r][u] = pid[r][u]
    BY <1>1 DEF SerialInv, CallInv
  <2> QED
    BY <1>2, <2>1 DEF CallOk, daemons
<1> QED
  BY <1>3, <1>4, <1>5, <1>6 DEF SerialInv

\* A daemon ends, is sent SIGKILL, or is gone at last.
Ends(p) ==
    \/ proc[p] \in Live /\ (ExitOrderly(p) \/ ExitKilled(p))
    \/ proc[p] = "up" /\ SendKill(p)
    \/ proc[p] = "killed" /\ ExitKilled(p)

LEMMA DeathMoves ==
    ASSUME Orderly, TypeOK, SerialInv, NEW p \in Pids, Ends(p),
           UNCHANGED <<home, tport, dir, port>>, \A r \in Servers : Waits(r) => Waits(r)'
    PROVE  /\ \A r \in Servers : DaemonsOf(r)' = DaemonsOf(r) \ {p}
           /\ OneDaemon' /\ DaemonInv' /\ ListenInv' /\ PidfileInv'
<1> USE NamesAssumption
<1>1. /\ \A q \in Pids : q # p => proc'[q] = proc[q]
      /\ proc'[p] \in {"dead", "killed"}
      /\ proc'[p] = "killed" => proc[p] = "up" /\ UNCHANGED <<tcp, pidfile>>
  BY DEF Ends, ExitOrderly, ExitKilled, SendKill, TypeOK
<1>2. /\ \A n \in Ports : tcp'[n] = IF tcp[n] = p /\ proc'[p] = "dead" THEN None ELSE tcp[n]
  BY DEF Ends, ExitOrderly, ExitKilled, SendKill, TypeOK
<1>3. home[p] \in Servers
  BY Housed DEF Ends
<1>4. \A r \in Servers : \/ pidfile'[r] = pidfile[r]
                         \/ Dir(home[p]) = r /\ pidfile'[r] = None /\ proc[p] \in Live
  BY DEF Ends, ExitOrderly, ExitKilled, SendKill, TypeOK
<1>5. \A r \in Servers : DaemonsOf(r)' = DaemonsOf(r) \ {p}
  BY <1>1 DEF DaemonsOf
<1>6. OneDaemon'
  BY <1>5 DEF SerialInv, OneDaemon
<1>7. DaemonInv'
  <2>1. ASSUME NEW q \in Pids, q # p, proc[q] \in Live
        PROVE  /\ proc[q] \in {"boot", "named"} => Waits(home[q])'
               /\ proc[q] \in {"named", "up"} => pidfile'[home[q]] = q
               /\ proc[q] = "up" => tcp'[tport[q]] = q
    <3>1. home[q] \in Servers /\ tport[q] \in Ports
      BY <2>1, Housed
    <3>2. proc[p] \in Live => home[q] # home[p]
      BY <1>3, <2>1, <3>1 DEF SerialInv, OneDaemon, DaemonsOf
    <3>3. proc[q] \in {"boot", "named"} => Waits(home[q])'
      BY <3>1 DEF SerialInv, DaemonInv, Waits
    <3>4. proc[q] \in {"named", "up"} => pidfile'[home[q]] = q
      BY <1>3, <1>4, <3>1, <3>2, OwnDirectory DEF SerialInv, DaemonInv
    <3>5. proc[q] = "up" => tcp'[tport[q]] = q
      BY <1>2, <2>1, <3>1 DEF SerialInv, DaemonInv
    <3> QED
      BY <3>3, <3>4, <3>5
  <2>2. ASSUME NEW q \in Pids, q # p, proc[q] = "killed"
        PROVE  tcp'[tport[q]] = q /\ (pidfile'[home[q]] = q => tport[q] = port[home[q]])
    <3>1. home[q] \in Servers /\ tport[q] \in Ports
      BY <2>2, Housed
    <3> QED
      BY <1>2, <1>4, <2>2, <3>1 DEF SerialInv, DaemonInv
  <2>3. proc'[p] = "killed" => tcp'[tport[p]] = p /\ (pidfile'[home[p]] = p => tport[p] = port[home[p]])
    BY <1>1 DEF SerialInv, DaemonInv
  <2> QED
    BY <1>1, <2>1, <2>2, <2>3 DEF SerialInv, DaemonInv, Waits
<1>8. ListenInv'
  BY <1>1, <1>2 DEF SerialInv, ListenInv, TypeOK
<1>9. PidfileInv'
  <2> SUFFICES ASSUME NEW r \in Servers, pidfile'[r] # None
               PROVE  proc'[pidfile'[r]] # "free" /\ home[pidfile'[r]] = r
    BY DEF PidfileInv
  <2>1. pidfile'[r] = pidfile[r] /\ pidfile[r] \in Pids
    BY <1>4 DEF TypeOK
  <2> QED
    BY <1>1, <2>1 DEF SerialInv, PidfileInv
<1> QED
  BY <1>5, <1>6, <1>7, <1>8, <1>9

\* It is no matter to calls that do not move.
LEMMA DeathSpares ==
    ASSUME Orderly, TypeOK, SerialInv, NEW p \in Pids, Ends(p), UNCHANGED <<home, conf, dir, port>>,
           NEW r \in Servers, NEW u \in Threads, at'[r][u] = at[r][u], pid'[r][u] = pid[r][u]
    PROVE  CallOk(r, u)'
<1> USE NamesAssumption
<1>1. /\ \A q \in Pids : q # p => proc'[q] = proc[q]
      /\ proc'[p] \in {"dead", "killed"}
      /\ proc'[p] = "killed" => proc[p] = "up" /\ UNCHANGED <<tcp, pidfile>>
  BY DEF Ends, ExitOrderly, ExitKilled, SendKill, TypeOK
<1>2. /\ \A n \in Ports : tcp'[n] = IF tcp[n] = p /\ proc'[p] = "dead" THEN None ELSE tcp[n]
  BY DEF Ends, ExitOrderly, ExitKilled, SendKill, TypeOK
<1>3. pidfile'[r] = pidfile[r] \/ pidfile'[r] = None
  BY DEF Ends, ExitOrderly, ExitKilled, SendKill, TypeOK
<1>4. DaemonsOf(r)' = DaemonsOf(r) \ {p}
  BY <1>1 DEF DaemonsOf
<1>5. CallOk(r, u) /\ port[r] \in Ports \cup {None} /\ pidfile[r] \in Pids \cup {None}
      /\ pid[r][u] \in Pids \cup {None} /\ proc[p] \in Live \cup {"killed"}
  BY DEF SerialInv, CallInv, TypeOK, Ends
<1>6. \A n \in Ports : Frees(n) => Frees(n)'
  BY <1>1, <1>2 DEF Frees, TypeOK, SerialInv, ListenInv
<1>7. \A n \in Ports : tcp[n] = p => Frees(n)'
  BY <1>1, <1>2 DEF Frees
<1>8. at[r][u] = "port" => pidfile'[r] = None \/ proc'[pidfile'[r]] # "killed"
  <2> SUFFICES ASSUME at[r][u] = "port", pidfile'[r] # None, proc'[pidfile'[r]] = "killed" PROVE FALSE
    OBVIOUS
  <2>1. pidfile[r] \in Pids /\ pidfile'[r] = pidfile[r] /\ home[pidfile[r]] = r
    BY <1>3, <1>5 DEF SerialInv, PidfileInv
  <2>2. proc[pidfile[r]] = "up"
    BY <1>1, <1>5, <2>1 DEF CallOk
  <2> QED
    BY <1>5, <2>1, <2>2 DEF CallOk, DaemonsOf
<1>9. at[r][u] \in {"wait", "ping"} => Frees(port[r])' \/ tcp'[port[r]] \in DaemonsOf(r)'
  BY <1>2, <1>4, <1>5, <1>6, <1>7 DEF CallOk
<1>10. at[r][u] \in {"conf", "launch"} => Frees(port[r])'
  BY <1>5, <1>6 DEF CallOk
<1>11. at[r][u] \in {"signalForeign", "killForeign"} => proc'[pid[r][u]] \in {"dead", "foreign"}
  BY <1>1, <1>5 DEF CallOk
<1> QED
  BY <1>4, <1>5, <1>8, <1>9, <1>10, <1>11 DEF CallOk, Frees

\* A call that ends its daemon.
LEMMA CallEnds ==
    ASSUME Orderly, TypeOK, SerialInv, NEW s \in Servers, NEW t \in Threads, NEW step \in Steps,
           at[s][t] \in {"shutdown", "signal", "kill"}, Goto(s, t, step),
           step \in {"term", "clean", "cleanKilled"},
           NEW p \in Pids, Ends(p), UNCHANGED <<home, tport, conf, dir, port, pid>>,
           step # "term" => p = pid[s][t]
    PROVE  SerialInv'
<1>1. /\ at'[s][t] = step /\ Alone'
      /\ \A r \in Servers, u \in Threads : at[r][u] \notin StartSteps
  BY StillAlone, NoStart DEF SerialInv, Orderly
<1>2. /\ \A r \in Servers : DaemonsOf(r)' = DaemonsOf(r) \ {p}
      /\ OneDaemon' /\ DaemonInv' /\ ListenInv' /\ PidfileInv'
  BY <1>1, DeathMoves DEF Waits
<1>3. CallOk(s, t)
  BY DEF SerialInv, CallInv
<1>4. CallOk(s, t)'
  BY <1>1, <1>2, <1>3 DEF CallOk
<1>5. CallInv'
  <2> SUFFICES ASSUME NEW r \in Servers, NEW u \in Threads, ~(r = s /\ u = t) PROVE CallOk(r, u)'
    BY <1>4 DEF CallInv
  <2>1. at'[r][u] = at[r][u]
    BY GotoTyped
  <2> QED
    BY <2>1, DeathSpares
<1> QED
  BY <1>1, <1>2, <1>5 DEF SerialInv

\* Every step of a call keeps it: to begin, and what start does.
LEMMA StartSerial ==
    ASSUME Orderly, TypeOK, SerialInv, NEW s \in Servers, NEW t \in Threads,
           \/ Call(s, t) \/ CheckRunning(s, t) \/ ChoosePort(s, t) \/ WriteConf(s, t)
           \/ AwaitLauncher(s, t) \/ PingAnswered(s, t) \/ PingTimeout(s, t) \/ Exit(s, t)
    PROVE  SerialInv'
<1> USE ServersAssumption, NamesAssumption, ModeAssumption
<1>0. CallOk(s, t) /\ Alone /\ Overlap # "any"
  BY DEF SerialInv, CallInv, Orderly
<1>a. at[s][t] \in StartSteps => \A r \in Servers, u \in Threads : at[r][u] \in StartSteps => r = s /\ u = t
  BY <1>0, OnlyStart
<1>1. CASE Call(s, t)
  <2>1. PICK step \in {"check", "stop", "terminate"} : MayBegin(s, step) /\ Goto(s, t, step)
    BY <1>1 DEF Call
  <2>2. /\ at[s][t] = "idle"
        /\ UNCHANGED <<daemons, files, object, pid>>
    BY <1>1 DEF Call
  <2>3. /\ at'[s][t] = step /\ Alone'
        /\ \A r \in Servers, u \in Threads : at[r][u] \in StartSteps => r = s /\ u = t
    BY <1>0, <2>1, StillAlone
  <2>4. CallOk(s, t)'
    BY <2>3 DEF CallOk
  <2> QED
    BY <2>1, <2>2, <2>3, <2>4, CallMoves DEF files, object
<1>2. CASE CheckRunning(s, t)
  <2>1. /\ at[s][t] = "check" /\ UNCHANGED <<daemons, files, object, pid>>
        /\ Goto(s, t, IF AlreadyRunning(s) THEN "idle" ELSE "port")
    BY <1>2 DEF CheckRunning
  <2>2. \A r \in Servers, u \in Threads : at[r][u] \notin {"wait", "ping"}
    BY <1>0, <2>1, OnlyStart
  <2>3. ~AlreadyRunning(s) => DaemonsOf(s) = {} /\ (pidfile[s] = None \/ proc[pidfile[s]] # "killed")
    <3>1. ~AlreadyRunning(s) => DaemonsOf(s) = {}
      BY <2>2, FoundByPidfile DEF AlreadyRunning, IsRunning
    <3>2. ASSUME ~AlreadyRunning(s), pidfile[s] # None, proc[pidfile[s]] = "killed" PROVE FALSE
      <4>1. pidfile[s] \in Pids /\ home[pidfile[s]] = s /\ tport[pidfile[s]] = port[s] /\ tport[pidfile[s]] \in Ports
        BY <3>2, Housed DEF SerialInv, PidfileInv, DaemonInv, TypeOK
      <4>2. PidOf(s) # None
        BY <3>2, <4>1, OwnDirectory DEF PidOf, Exists
      <4> QED
        BY <3>2, <4>1, <4>2 DEF AlreadyRunning, IsRunning
    <3> QED
      BY <3>1, <3>2
  <2>4. PICK step \in {"idle", "port"} :
            /\ Goto(s, t, step)
            /\ step = "port" => DaemonsOf(s) = {} /\ (pidfile[s] = None \/ proc[pidfile[s]] # "killed")
    BY <2>1, <2>3
  <2>5. at'[s][t] = step /\ Alone'
    BY <1>0, <2>1, <2>4, StillAlone
  <2>6. CallOk(s, t)'
    BY <2>1, <2>4, <2>5 DEF CallOk, DaemonsOf, daemons, files
  <2> QED
    BY <1>a, <2>1, <2>4, <2>5, <2>6, CallMoves DEF files, object
<1>3. CASE ChoosePort(s, t)
  <2>1. /\ at[s][t] = "port" /\ Goto(s, t, "conf")
        /\ UNCHANGED <<daemons, pidfile, conf, dir, hook, exited, pid>>
    BY <1>3 DEF ChoosePort
  <2>2. PICK n \in Ports : /\ port' = [port EXCEPT ![s] = n]
                           /\ n \in FreePorts \/ s \in Fixed
    BY <1>3 DEF ChoosePort, FreePorts
  <2>3. DaemonsOf(s) = {} /\ (pidfile[s] = None \/ proc[pidfile[s]] # "killed")
    BY <1>0, <2>1 DEF CallOk
  <2>4. Frees(n)
    <3>1. CASE n \in FreePorts
      BY <3>1 DEF FreePorts, Frees
    <3>2. CASE s \in Fixed
      <4>1. Servers = {s}
        BY <3>2 DEF Orderly
      <4>2. tcp[n] # None /\ proc[tcp[n]] = "up" => tcp[n] \in DaemonsOf(s)
        BY <4>1, Housed DEF SerialInv, ListenInv, DaemonsOf
      <4> QED
        BY <2>3, <4>2 DEF SerialInv, ListenInv, Frees
    <3> QED
      BY <2>2, <3>1, <3>2
  <2>5. at'[s][t] = "conf" /\ port'[s] = n /\ Alone'
    BY <1>0, <2>1, <2>2, StillAlone DEF TypeOK
  <2>6. CallOk(s, t)'
    BY <2>1, <2>3, <2>4, <2>5 DEF CallOk, DaemonsOf, Frees, daemons
  <2>7. \A r \in Servers : port'[r] = port[r] \/ r = s
    BY <2>2 DEF TypeOK
  <2> QED
    BY <1>a, <2>1, <2>3, <2>5, <2>6, <2>7, CallMoves
<1>4. CASE WriteConf(s, t)
  <2>1. at[s][t] = "conf" /\ UNCHANGED <<daemons, pidfile, dir, sockdir, object, pid>>
    BY <1>4 DEF WriteConf
  <2>2. Rendered(s) = port[s]
    BY DEF Rendered, Orderly
  <2>3. PICK step \in {"idle", "launch"} :
            Goto(s, t, step) /\ (step = "launch" => dir[s] /\ conf'[s] = port[s])
    BY <1>4, <2>2, OwnDirectory DEF WriteConf, TypeOK
  <2>4. at'[s][t] = step /\ Alone'
    BY <1>0, <2>1, <2>3, StillAlone
  <2>5. CallOk(s, t)'
    BY <1>0, <2>1, <2>3, <2>4 DEF CallOk, DaemonsOf, Frees, daemons, object
  <2> QED
    BY <1>a, <2>1, <2>3, <2>4, <2>5, CallMoves DEF object
<1>8. CASE AwaitLauncher(s, t)
  <2>1. /\ at[s][t] = "wait" /\ Goto(s, t, "ping")
        /\ UNCHANGED <<daemons, files, port, exited, pid>>
    BY <1>8 DEF AwaitLauncher
  <2>2. at'[s][t] = "ping" /\ Alone'
    BY <1>0, <2>1, StillAlone
  <2>3. CallOk(s, t)'
    BY <1>0, <2>1, <2>2 DEF CallOk, DaemonsOf, Frees, daemons
  <2> QED
    BY <1>a, <2>1, <2>2, <2>3, CallMoves DEF files
<1>5. CASE PingAnswered(s, t)
  <2>1. /\ at[s][t] = "ping" /\ Goto(s, t, "idle") /\ Answering(s) # None
        /\ UNCHANGED <<daemons, files, object, pid>>
    BY <1>5 DEF PingAnswered
  <2>2. tcp[port[s]] # None /\ port[s] \in Ports
    BY <2>1 DEF Answering, TypeOK
  <2>3. tcp[port[s]] \in DaemonsOf(s) /\ proc[tcp[port[s]]] = "up"
    BY <1>0, <2>1, <2>2 DEF CallOk, SerialInv, ListenInv, Answering, Frees
  <2>4. \A p \in Pids : proc[p] \in {"boot", "named"} => home[p] # s
    BY <2>3 DEF SerialInv, OneDaemon, DaemonsOf
  <2>5. at'[s][t] = "idle" /\ Alone'
    BY <1>0, <2>1, StillAlone
  <2>6. CallOk(s, t)'
    BY <2>5 DEF CallOk
  <2> QED
    BY <1>a, <2>1, <2>4, <2>5, <2>6, CallMoves DEF files, object
<1>6. CASE PingTimeout(s, t)
  <2>1. /\ at[s][t] = "ping" /\ Goto(s, t, "idle")
        /\ UNCHANGED <<daemons, files, object, pid>>
        /\ \A p \in Pids : proc[p] \in {"boot", "named"} => home[p] # s
    BY <1>6 DEF PingTimeout, Orderly
  <2>2. at'[s][t] = "idle" /\ Alone'
    BY <1>0, <2>1, StillAlone
  <2>3. CallOk(s, t)'
    BY <2>2 DEF CallOk
  <2> QED
    BY <1>a, <2>1, <2>2, <2>3, CallMoves DEF files, object
<1>7. CASE Exit(s, t)
  <2>1. /\ MayBegin(s, "stop")
        /\ UNCHANGED <<daemons, files, port, hook, pid>>
        /\ Goto(s, t, "stop") \/ UNCHANGED at
    BY <1>7 DEF Exit
  <2>2. CASE UNCHANGED at
    BY <2>1, <2>2 DEF SerialInv, Alone, OneDaemon, DaemonsOf, DaemonInv, Waits, ListenInv, PidfileInv,
                      CallInv, CallOk, Frees, daemons, files
  <2>3. CASE Goto(s, t, "stop")
    <3>1. /\ at'[s][t] = "stop" /\ Alone'
          /\ \A r \in Servers, u \in Threads : at[r][u] \in StartSteps => r = s /\ u = t
      BY <1>0, <2>1, <2>3, StillAlone
    <3>2. CallOk(s, t)'
      BY <3>1 DEF CallOk
    <3>3. at[s][t] \notin {"wait", "ping"}
      BY <1>7 DEF Exit, Idle
    <3> QED
      BY <2>1, <2>3, <3>1, <3>2, <3>3, CallMoves DEF files
  <2> QED
    BY <2>1, <2>2, <2>3
<1> QED
  BY <1>1, <1>2, <1>3, <1>4, <1>5, <1>6, <1>7, <1>8

\* A launch is the only thing that brings a daemon to life.
LEMMA LaunchSerial ==
    ASSUME Orderly, TypeOK, SerialInv, NEW s \in Servers, NEW t \in Threads, Launch(s, t)
    PROVE  SerialInv'
<1> USE NamesAssumption
<1>1. /\ at[s][t] = "launch" /\ Goto(s, t, "wait")
      /\ UNCHANGED <<tcp, files, object, pid>>
  BY DEF Launch
<1>2. /\ DaemonsOf(s) = {} /\ port[s] # None /\ Frees(port[s])
      /\ dir[s] /\ conf[s] = port[s]
  BY <1>1 DEF SerialInv, CallInv, CallOk
<1>3. /\ at'[s][t] = "wait" /\ Alone'
      /\ \A r \in Servers, u \in Threads : at[r][u] # "idle" => r = s /\ u = t
      /\ \A r \in Servers, u \in Threads : at'[r][u] # "idle" => r = s /\ u = t
  BY <1>1, StillAlone, OnlyStart, GotoTyped DEF SerialInv, Orderly
<1>4. CASE UNCHANGED <<proc, home, tport>>
  <2>1. CallOk(s, t)'
    BY <1>1, <1>2, <1>3, <1>4 DEF CallOk, DaemonsOf, Frees, object
  <2> QED
    BY <1>1, <1>3, <1>4, <2>1, CallMoves DEF files, daemons, object
<1>5. ASSUME NEW p \in Pids, proc[p] = "free", proc' = [proc EXCEPT ![p] = "boot"],
             home' = [home EXCEPT ![p] = s], tport' = [tport EXCEPT ![p] = conf[Dir(s)]]
      PROVE  SerialInv'
  <2>1. /\ proc'[p] = "boot" /\ home'[p] = s /\ tport'[p] = port[s]
        /\ \A q \in Pids : q # p => proc'[q] = proc[q] /\ home'[q] = home[q] /\ tport'[q] = tport[q]
    BY <1>2, <1>5, OwnDirectory DEF TypeOK
  <2>2. \A r \in Servers : DaemonsOf(r)' = IF r = s THEN {p} ELSE DaemonsOf(r)
    BY <1>2, <1>5, <2>1 DEF DaemonsOf
  <2>3. OneDaemon'
    BY <2>2 DEF SerialInv, OneDaemon
  <2>4. \A q \in Pids : proc[q] \notin {"boot", "named"}
    BY <1>1, <1>3, Settled DEF SerialInv
  <2>5. DaemonInv'
    <3> SUFFICES ASSUME NEW q \in Pids
                 PROVE  /\ proc'[q] \in {"boot", "named"} => Waits(home[q])'
                        /\ proc'[q] = "boot" => dir[home'[q]]
                        /\ proc'[q] \in {"named", "up"} => pidfile[home'[q]] = q
                        /\ proc'[q] \in Live => tport'[q] = port[home'[q]]
                        /\ proc'[q] \in {"up", "killed"} => tcp[tport'[q]] = q
                        /\ proc'[q] = "killed" /\ pidfile[home'[q]] = q => tport'[q] = port[home'[q]]
      BY <1>1 DEF DaemonInv, files, object
    <3>1. CASE q = p
      <4>1. Waits(home[q])'
        BY <1>3, <2>1, <3>1 DEF Waits
      <4> QED
        BY <1>2, <2>1, <3>1, <4>1
    <3>2. CASE q # p
      BY <2>1, <2>4, <3>2 DEF SerialInv, DaemonInv
    <3> QED
      BY <3>1, <3>2
  <2>6. ListenInv'
    BY <1>1, <1>5, <2>1 DEF SerialInv, ListenInv
  <2>7. PidfileInv'
    BY <1>1, <1>5, <2>1 DEF SerialInv, PidfileInv, files, TypeOK
  <2>8. CallOk(s, t)'
    <3>1. port[s] \in Ports
      BY <1>2 DEF TypeOK
    <3>2. tcp[port[s]] = None \/ proc[tcp[port[s]]] = "killed"
      BY <1>2 DEF Frees
    <3>3. tcp[port[s]] # None => tcp[port[s]] \in Pids
      BY <3>1 DEF SerialInv, ListenInv
    <3>4. tcp[port[s]] = None \/ proc'[tcp[port[s]]] = "killed"
      BY <1>5, <2>1, <3>2, <3>3
    <3>5. Frees(port[s])'
      BY <1>1, <3>4 DEF Frees, object
    <3>6. port'[s] # None
      BY <1>1, <1>2 DEF object
    <3> QED
      BY <1>3, <3>5, <3>6 DEF CallOk
  <2>9. CallInv'
    BY <1>3, <2>8 DEF CallInv, CallOk
  <2> QED
    BY <1>3, <2>3, <2>5, <2>6, <2>7, <2>9 DEF SerialInv
<1> QED
  BY <1>4, <1>5 DEF Launch

\* Steps that look, wait and remove files.
LEMMA StopSerial ==
    ASSUME Orderly, TypeOK, SerialInv, NEW s \in Servers, NEW t \in Threads,
           \/ BeginStop(s, t) \/ BeginTerminate(s, t) \/ BindProcess(s, t)
           \/ SignalForeign(s, t) \/ Clean(s, t)
    PROVE  SerialInv'
<1> USE NamesAssumption
<1>0. CallOk(s, t) /\ Alone /\ Overlap # "any"
  BY DEF SerialInv, CallInv, Orderly
<1>a. at[s][t] \in (StopSteps \cup KillSteps) \ {"idle"}
  BY DEF BeginStop, BeginTerminate, BindProcess, SignalForeign, Clean
<1>b. \A r \in Servers, u \in Threads : at[r][u] \notin StartSteps
  BY <1>0, <1>a, NoStart
<1>1. CASE BeginStop(s, t) \/ BeginTerminate(s, t)
  <2>1. /\ at[s][t] \in {"stop", "terminate"} /\ UNCHANGED <<daemons, files, object>>
        /\ pid' = [pid EXCEPT ![s][t] = PidOf(s)]
    BY <1>1 DEF BeginStop, BeginTerminate
  <2>2. /\ PidOf(s) = None => DaemonsOf(s) = {}
        /\ PidOf(s) # None => /\ PidOf(s) \in Pids /\ home[PidOf(s)] = s
                              /\ DaemonsOf(s) \subseteq {PidOf(s)}
    BY <1>b, FoundByPidfile
  <2>3. PICK step \in {"clean", "shutdown", "cleanKilled", "killForeign", "kill"} :
            /\ Goto(s, t, step)
            /\ step \in {"clean", "cleanKilled"} <=> PidOf(s) = None
            /\ step = "killForeign" => proc[PidOf(s)] = "foreign"
    BY <1>1 DEF BeginStop, BeginTerminate
  <2>4. at'[s][t] = step /\ pid'[s][t] = PidOf(s) /\ Alone'
    BY <1>0, <1>a, <2>1, <2>3, StillAlone DEF TypeOK
  <2>5. \A r \in Servers, u \in Threads : pid'[r][u] = pid[r][u] \/ (r = s /\ u = t)
    BY <2>1 DEF TypeOK
  <2>6. CallOk(s, t)'
    BY <2>1, <2>2, <2>3, <2>4 DEF CallOk, DaemonsOf, daemons
  <2> QED
    BY <1>b, <2>1, <2>3, <2>4, <2>5, <2>6, CallMoves DEF files, object
<1>2. CASE BindProcess(s, t)
  <2>1. at[s][t] = "term" /\ UNCHANGED <<daemons, files, object, pid>>
    BY <1>2 DEF BindProcess
  <2>2. PICK step \in {"clean", "signalForeign", "signal"} :
            /\ Goto(s, t, step) /\ (step # "signal" => proc[pid[s][t]] \notin Live)
            /\ step = "signalForeign" => proc[pid[s][t]] = "foreign"
    <3>1. pid[s][t] # None
      BY <1>0, <2>1 DEF CallOk
    <3> QED
      BY <1>2, <3>1 DEF BindProcess, Exists
  <2>3. at'[s][t] = step /\ Alone'
    BY <1>0, <1>a, <2>2, StillAlone
  <2>4. CallOk(s, t)'
    BY <1>0, <2>1, <2>2, <2>3 DEF CallOk, DaemonsOf, daemons
  <2> QED
    BY <1>b, <2>1, <2>2, <2>3, <2>4, CallMoves DEF files, object
<1>3. CASE SignalForeign(s, t)
  <2>1. /\ at[s][t] \in {"signalForeign", "killForeign"}
        /\ proc' = [proc EXCEPT ![pid[s][t]] = "dead"]
        /\ UNCHANGED <<home, tport, tcp, files, object, pid>>
    BY <1>3 DEF SignalForeign
  <2>2. PICK step \in {"clean", "cleanKilled"} : Goto(s, t, step)
    BY <1>3 DEF SignalForeign
  <2>3. /\ DaemonsOf(s) = {} /\ pid[s][t] \in Pids /\ home[pid[s][t]] = s
        /\ proc[pid[s][t]] \in {"dead", "foreign"}
    BY <1>0, <2>1 DEF CallOk, TypeOK
  <2>4. \A q \in Pids : IF q = pid[s][t] THEN proc'[q] = "dead" ELSE proc'[q] = proc[q]
    BY <2>1, <2>3 DEF TypeOK
  <2>5. at'[s][t] = step /\ Alone'
    BY <1>0, <1>a, <2>2, StillAlone
  <2>6. \A r \in Servers : DaemonsOf(r)' = DaemonsOf(r)
    BY <2>1, <2>3, <2>4 DEF DaemonsOf
  <2>7. OneDaemon'
    BY <2>6 DEF SerialInv, OneDaemon
  <2>8. \A q \in Pids : proc[q] \notin {"boot", "named"}
    BY <1>b, Settled DEF SerialInv
  <2>9. DaemonInv'
    BY <2>1, <2>3, <2>4, <2>8 DEF SerialInv, DaemonInv, files, object
  <2>10. ListenInv' /\ PidfileInv'
    BY <2>1, <2>3, <2>4 DEF SerialInv, ListenInv, PidfileInv, files, TypeOK
  <2>11. CallInv'
    <3> SUFFICES ASSUME NEW r \in Servers, NEW u \in Threads PROVE CallOk(r, u)'
      BY DEF CallInv
    <3>1. CASE r = s /\ u = t
      BY <2>2, <2>3, <2>5, <2>6, <3>1 DEF CallOk
    <3>2. CASE ~(r = s /\ u = t)
      <4>1. /\ CallOk(r, u) /\ at'[r][u] = at[r][u] /\ at[r][u] \notin StartSteps
            /\ pid[r][u] \in Pids \cup {None}
        BY <1>b, <2>2, <3>2, GotoTyped DEF SerialInv, CallInv, TypeOK
      <4> QED
        BY <2>1, <2>4, <2>6, <4>1 DEF CallOk
    <3> QED
      BY <3>1, <3>2
  <2> QED
    BY <2>5, <2>7, <2>9, <2>10, <2>11 DEF SerialInv
<1>4. CASE Clean(s, t)
  <2>1. /\ at[s][t] \in {"clean", "cleanKilled"} /\ Goto(s, t, "idle")
        /\ pidfile' = [pidfile EXCEPT ![Dir(s)] = None]
        /\ dir' = [dir EXCEPT ![s] = @ /\ s \notin OwnsDir \ Persist]
        /\ port' = [port EXCEPT ![s] = None]
        /\ pid' = [pid EXCEPT ![s][t] = None]
        /\ UNCHANGED daemons
    BY <1>4 DEF Clean, Back
  <2>2. DaemonsOf(s) = {}
    BY <1>0, <2>1 DEF CallOk
  <2>3. at'[s][t] = "idle" /\ Alone'
    BY <1>0, <1>a, <2>1, StillAlone
  <2>4. \A r \in Servers : r # s => pidfile'[r] = pidfile[r] /\ port'[r] = port[r]
    BY <2>1, OwnDirectory DEF TypeOK
  <2>5. pidfile'[s] = None
    BY <2>1, OwnDirectory DEF TypeOK
  <2>6. \A q \in Pids : proc[q] \notin {"boot", "named"} /\ (proc[q] \in Live => home[q] # s)
    BY <1>b, <2>2, Settled DEF SerialInv, DaemonsOf
  <2>7. OneDaemon'
    BY <2>1 DEF SerialInv, OneDaemon, DaemonsOf, daemons
  <2>8. DaemonInv'
    <3>1. ASSUME NEW q \in Pids, proc[q] = "up"
          PROVE  /\ pidfile'[home[q]] = q /\ tport[q] = port'[home[q]]
                 /\ tcp[tport[q]] = q
      <4>1. home[q] \in Servers /\ home[q] # s
        BY <2>6, <3>1, Housed
      <4> QED
        BY <2>4, <3>1, <4>1 DEF SerialInv, DaemonInv
    <3>2. ASSUME NEW q \in Pids, proc[q] = "killed"
          PROVE  tcp[tport[q]] = q /\ (pidfile'[home[q]] = q => tport[q] = port'[home[q]])
      <4>1. home[q] \in Servers
        BY <3>2, Housed
      <4> QED
        BY <2>4, <2>5, <3>2, <4>1 DEF SerialInv, DaemonInv
    <3> QED
      BY <2>1, <2>6, <3>1, <3>2 DEF DaemonInv, daemons
  <2>9. ListenInv'
    BY <2>1 DEF SerialInv, ListenInv, daemons
  <2>10. PidfileInv'
    BY <2>1, <2>4, <2>5 DEF SerialInv, PidfileInv, daemons
  <2>11. CallInv'
    <3> SUFFICES ASSUME NEW r \in Servers, NEW u \in Threads, ~(r = s /\ u = t) PROVE CallOk(r, u)'
      BY <2>3 DEF CallInv, CallOk
    <3>1. /\ CallOk(r, u) /\ at'[r][u] = at[r][u] /\ at[r][u] \notin StartSteps
          /\ pid'[r][u] = pid[r][u] /\ DaemonsOf(r)' = DaemonsOf(r)
      BY <1>b, <2>1, GotoTyped DEF SerialInv, CallInv, TypeOK, DaemonsOf, daemons
    <3> QED
      BY <2>1, <3>1 DEF CallOk, daemons
  <2> QED
    BY <2>3, <2>7, <2>8, <2>9, <2>10, <2>11 DEF SerialInv
<1> QED
  BY <1>1, <1>2, <1>3, <1>4

\* Steps that end a daemon, or find it ended.
LEMMA EndSerial ==
    ASSUME Orderly, TypeOK, SerialInv, NEW s \in Servers, NEW t \in Threads,
           Shutdown(s, t) \/ Signal(s, t) \/ Kill(s, t)
    PROVE  SerialInv'
<1> USE NamesAssumption
<1>0. CallOk(s, t) /\ Alone /\ Overlap # "any" /\ Answering(s) # Outsider
  BY DEF SerialInv, CallInv, Answering, ListenInv, TypeOK, Orderly
<1>a. at[s][t] \in {"shutdown", "signal", "kill"}
  BY DEF Shutdown, Signal, Kill
<1>b. \A r \in Servers, u \in Threads : at[r][u] \notin StartSteps
  BY <1>0, <1>a, NoStart
<1>c. \A p \in Pids : proc[p] \notin {"boot", "named"}
  BY <1>b, Settled DEF SerialInv
<1>1. CASE Shutdown(s, t)
  <2>1. /\ at[s][t] = "shutdown" /\ Goto(s, t, "term")
        /\ UNCHANGED <<home, tport, conf, dir, sockdir, object, pid>>
    BY <1>1 DEF Shutdown
  <2>2. CASE UNCHANGED <<proc, tcp, pidfile>>
    <3>1. at'[s][t] = "term" /\ Alone'
      BY <1>0, <2>1, StillAlone
    <3>2. CallOk(s, t)'
      BY <1>0, <2>1, <2>2, <3>1 DEF CallOk, DaemonsOf
    <3> QED
      BY <1>b, <2>1, <2>2, <3>1, <3>2, CallMoves DEF daemons, object
  <2>3. ASSUME NEW p \in Pids, p = Answering(s), ExitOrderly(p) PROVE SerialInv'
    <3>1. Ends(p)
      BY <2>3 DEF Answering, Ends
    <3> QED
      BY <2>1, <3>1, CallEnds DEF object
  <2> QED
    BY <1>0, <1>1, <2>2, <2>3 DEF Shutdown
<1>2. ASSUME NEW step \in {"clean", "cleanKilled"}, Goto(s, t, step),
             at[s][t] \in {"signal", "kill"}, proc[pid[s][t]] \notin Live,
             UNCHANGED <<proc, tcp, pidfile>>,
             UNCHANGED <<home, tport, conf, dir, sockdir, object, pid>>
      PROVE  SerialInv'
  <2>1. at'[s][t] = step /\ Alone'
    BY <1>0, <1>2, StillAlone
  <2>2. CallOk(s, t)'
    BY <1>0, <1>2, <2>1 DEF CallOk, DaemonsOf
  <2> QED
    BY <1>b, <1>2, <2>1, <2>2, CallMoves DEF daemons, object
<1>3. at[s][t] \in {"signal", "kill"} => pid[s][t] \in Pids
  BY <1>0 DEF CallOk, TypeOK
<1>4. CASE Signal(s, t)
  <2>1. /\ at[s][t] = "signal" /\ Goto(s, t, "clean") /\ Escalate(pid[s][t])
        /\ UNCHANGED <<home, tport, conf, dir, sockdir, object, pid>>
    BY <1>4 DEF Signal
  <2>2. CASE proc[pid[s][t]] \notin Live
    BY <1>2, <2>1, <2>2 DEF Escalate
  <2>3. CASE proc[pid[s][t]] \in Live
    <3>1. proc[pid[s][t]] = "up"
      BY <1>3, <1>c, <2>1, <2>3
    <3>2. Ends(pid[s][t])
      BY <2>1, <3>1 DEF Escalate, Ends
    <3> QED
      BY <1>3, <2>1, <3>2, CallEnds DEF object
  <2> QED
    BY <2>2, <2>3
<1>5. CASE Kill(s, t)
  <2>1. /\ at[s][t] = "kill" /\ Goto(s, t, "cleanKilled")
        /\ UNCHANGED <<home, tport, conf, dir, sockdir, object, pid>>
    BY <1>5 DEF Kill
  <2>2. CASE proc[pid[s][t]] \notin Live
    BY <1>2, <1>5, <2>1, <2>2 DEF Kill
  <2>3. CASE proc[pid[s][t]] \in Live
    <3>1. proc[pid[s][t]] = "up"
      BY <1>3, <1>c, <2>1, <2>3
    <3>2. Ends(pid[s][t])
      BY <1>5, <3>1 DEF Kill, Ends
    <3> QED
      BY <1>3, <2>1, <3>2, CallEnds DEF object
  <2> QED
    BY <2>2, <2>3
<1> QED
  BY <1>1, <1>4, <1>5

\* Daemons and the rest of the machine keep it.
LEMMA MachineSerial ==
    ASSUME Orderly, TypeOK, SerialInv,
           \/ \E p \in Pids : Boot(p) \/ Die(p) \/ Crash(p) \/ ReusePid(p)
           \/ \E n \in Ports : TakePort(n)
    PROVE  SerialInv'
<1> USE NamesAssumption
<1>1. CallInv /\ Alone
  BY DEF SerialInv
<1>a. ASSUME NEW p \in Pids, proc[p] \in {"boot", "named"}
      PROVE  /\ home[p] \in Servers /\ tport[p] \in Ports /\ tport[p] = port[home[p]]
             /\ p \in DaemonsOf(home[p])
             /\ \A r \in Servers, u \in Threads :
                   at[r][u] # "idle" => r = home[p] /\ at[r][u] \in {"wait", "ping"}
  <2>1. home[p] \in Servers /\ tport[p] \in Ports /\ tport[p] = port[home[p]]
    BY <1>a, Housed DEF SerialInv, DaemonInv
  <2>2. PICK t \in Threads : at[home[p]][t] \in {"wait", "ping"}
    BY <1>a DEF SerialInv, DaemonInv, Waits
  <2>3. \A r \in Servers, u \in Threads : at[r][u] # "idle" => r = home[p] /\ u = t
    BY <1>1, <2>1, <2>2, OnlyStart
  <2> QED
    BY <1>a, <2>1, <2>2, <2>3 DEF DaemonsOf
<1>2. ASSUME NEW p \in Pids, WritePidfile(p) PROVE SerialInv'
  <2>1. /\ proc[p] = "boot" /\ home[p] \in Servers /\ dir[home[p]] /\ tport[p] = port[home[p]]
        /\ Waits(home[p])
    BY <1>2, Housed DEF WritePidfile, SerialInv, DaemonInv
  <2>2. /\ proc' = [proc EXCEPT ![p] = "named"]
        /\ pidfile' = [pidfile EXCEPT ![home[p]] = p]
        /\ UNCHANGED <<home, tport, tcp, conf, dir, sockdir, object, calls>>
    BY <1>2, <2>1, OwnDirectory DEF WritePidfile, Orderly
  <2>3. \A q \in Pids : proc'[q] = IF q = p THEN "named" ELSE proc[q]
    BY <2>2 DEF TypeOK
  <2>4. \A r \in Servers : pidfile'[r] = IF r = home[p] THEN p ELSE pidfile[r]
    BY <2>2 DEF TypeOK
  <2>5. \A r \in Servers : DaemonsOf(r)' = DaemonsOf(r)
    BY <2>1, <2>2, <2>3 DEF DaemonsOf
  <2>6. OneDaemon' /\ Alone'
    BY <2>2, <2>5 DEF SerialInv, OneDaemon, Alone, calls
  <2>7. DaemonInv'
    <3> SUFFICES ASSUME NEW q \in Pids, proc'[q] \in Live \cup {"killed"}
                 PROVE  /\ proc'[q] \in {"boot", "named"} => Waits(home[q])
                        /\ proc'[q] = "boot" => dir[home[q]]
                        /\ proc'[q] \in {"named", "up"} => pidfile'[home[q]] = q
                        /\ proc'[q] \in Live => tport[q] = port[home[q]]
                        /\ proc'[q] \in {"up", "killed"} => tcp[tport[q]] = q
                        /\ proc'[q] = "killed" /\ pidfile'[home[q]] = q => tport[q] = port[home[q]]
      BY <2>2 DEF DaemonInv, Waits, calls, object
    <3>1. CASE q = p
      BY <2>1, <2>3, <2>4, <3>1
    <3>2. CASE q # p
      <4>1. proc'[q] = proc[q] /\ home[q] \in Servers
        BY <2>3, <3>2, Housed
      <4>2. proc[q] \in Live => home[q] # home[p]
        BY <2>1, <3>2, <4>1 DEF SerialInv, OneDaemon, DaemonsOf
      <4> QED
        BY <2>4, <3>2, <4>1, <4>2 DEF SerialInv, DaemonInv
    <3> QED
      BY <3>1, <3>2
  <2>8. ListenInv'
    BY <2>1, <2>2, <2>3 DEF SerialInv, ListenInv, TypeOK
  <2>9. PidfileInv'
    BY <2>1, <2>2, <2>3, <2>4 DEF SerialInv, PidfileInv, TypeOK
  <2>10. CallInv'
    <3> SUFFICES ASSUME NEW r \in Servers, NEW u \in Threads PROVE CallOk(r, u)'
      BY DEF CallInv
    <3>1. at'[r][u] = at[r][u] /\ at[r][u] \in {"idle", "wait", "ping"}
      BY <1>a, <2>1, <2>2 DEF calls
    <3>2. CallOk(r, u) /\ port[r] \in Ports \cup {None}
      BY <1>1 DEF CallInv, TypeOK
    <3>3. at[r][u] \in {"wait", "ping"} /\ Frees(port[r]) => Frees(port[r])'
      BY <2>1, <2>2, <2>3, <3>2 DEF Frees, CallOk, SerialInv, ListenInv, object
    <3>4. at[r][u] \in {"wait", "ping"} =>
              port'[r] # None /\ (Frees(port[r])' \/ tcp'[port'[r]] \in DaemonsOf(r)')
      BY <2>2, <2>5, <3>2, <3>3 DEF CallOk, object
    <3> QED
      BY <2>2, <3>1, <3>4 DEF CallOk, object
  <2> QED
    BY <2>6, <2>7, <2>8, <2>9, <2>10 DEF SerialInv
<1>3. ASSUME NEW p \in Pids, Serve(p) PROVE SerialInv'
  <2>1. /\ proc[p] = "named" /\ home[p] \in Servers /\ tport[p] = port[home[p]]
        /\ tport[p] \in Ports /\ pidfile[home[p]] = p /\ Waits(home[p])
    BY <1>3, Housed DEF Serve, SerialInv, DaemonInv
  <2>2. /\ proc' = [proc EXCEPT ![p] = "up"] /\ tcp' = [tcp EXCEPT ![tport[p]] = p]
        /\ tcp[tport[p]] = None
        /\ UNCHANGED <<home, tport, files, object, calls>>
    BY <1>3 DEF Serve, CanBind
  <2>3. \A q \in Pids : proc'[q] = IF q = p THEN "up" ELSE proc[q]
    BY <2>2 DEF TypeOK
  <2>4. \A n \in Ports : tcp'[n] = IF n = tport[p] THEN p ELSE tcp[n]
    BY <2>2 DEF TypeOK
  <2>5. \A r \in Servers : DaemonsOf(r)' = DaemonsOf(r)
    BY <2>1, <2>2, <2>3 DEF DaemonsOf
  <2>6. OneDaemon' /\ Alone'
    BY <2>2, <2>5 DEF SerialInv, OneDaemon, Alone, calls
  <2>7. DaemonInv'
    <3> SUFFICES ASSUME NEW q \in Pids, proc'[q] \in Live \cup {"killed"}
                 PROVE  /\ proc'[q] \in {"boot", "named"} => Waits(home[q])
                        /\ proc'[q] = "boot" => dir[home[q]]
                        /\ proc'[q] \in {"named", "up"} => pidfile[home[q]] = q
                        /\ proc'[q] \in Live => tport[q] = port[home[q]]
                        /\ proc'[q] \in {"up", "killed"} => tcp'[tport[q]] = q
                        /\ proc'[q] = "killed" /\ pidfile[home[q]] = q => tport[q] = port[home[q]]
      BY <2>2 DEF DaemonInv, Waits, calls, object, files
    <3>1. CASE q = p
      BY <2>1, <2>3, <2>4, <3>1
    <3>2. CASE q # p
      <4>1. proc'[q] = proc[q] /\ tport[q] \in Ports
        BY <2>3, <3>2, Housed
      <4>2. proc[q] \in {"up", "killed"} => tport[q] # tport[p]
        BY <2>2 DEF SerialInv, DaemonInv
      <4> QED
        BY <2>4, <3>2, <4>1, <4>2 DEF SerialInv, DaemonInv
    <3> QED
      BY <3>1, <3>2
  <2>8. ListenInv' /\ PidfileInv'
    BY <2>1, <2>2, <2>3, <2>4 DEF SerialInv, ListenInv, PidfileInv, TypeOK, files
  <2>9. CallInv'
    <3> SUFFICES ASSUME NEW r \in Servers, NEW u \in Threads PROVE CallOk(r, u)'
      BY DEF CallInv
    <3>1. p \in DaemonsOf(home[p])
      BY <2>1 DEF DaemonsOf
    <3>2. CASE at[r][u] \in {"wait", "ping"}
      <4>1. r = home[p]
        BY <1>a, <2>1, <3>2
      <4>2. tcp'[port[r]] = p
        BY <2>1, <2>4, <4>1
      <4> QED
        BY <1>1, <2>2, <2>5, <3>1, <3>2, <4>1, <4>2 DEF CallInv, CallOk, calls, object
    <3>3. CASE at[r][u] \notin {"wait", "ping"}
      <4>1. at[r][u] = "idle"
        BY <1>a, <2>1, <3>3
      <4> QED
        BY <2>2, <4>1 DEF CallOk, calls
    <3> QED
      BY <3>2, <3>3
  <2> QED
    BY <2>6, <2>7, <2>8, <2>9 DEF SerialInv
<1>4. ASSUME NEW p \in Pids, BindFails(p) \/ Crash(p) \/ Die(p) PROVE SerialInv'
  <2>1. /\ Ends(p) /\ UNCHANGED <<home, tport, conf, dir, sockdir, object, calls>>
    BY <1>4 DEF BindFails, Crash, Die, Ends
  <2>2. Alone'
    BY <2>1 DEF SerialInv, Alone, calls
  <2>3. OneDaemon' /\ DaemonInv' /\ ListenInv' /\ PidfileInv'
    BY <2>1, DeathMoves DEF calls, object, Waits
  <2>4. CallInv'
    BY <2>1, DeathSpares DEF CallInv, calls, object
  <2> QED
    BY <2>2, <2>3, <2>4 DEF SerialInv
<1>5. ASSUME NEW p \in Pids, ReusePid(p) PROVE SerialInv'
  <2>1. /\ proc[p] = "dead" /\ proc' = [proc EXCEPT ![p] = "foreign"]
        /\ UNCHANGED <<home, tport, tcp, files, object, calls>>
    BY <1>5 DEF ReusePid
  <2>2. \A q \in Pids : proc'[q] = IF q = p THEN "foreign" ELSE proc[q]
    BY <2>1 DEF TypeOK
  <2>3. \A r \in Servers : DaemonsOf(r)' = DaemonsOf(r)
    BY <2>1, <2>2 DEF DaemonsOf
  <2>4. OneDaemon' /\ Alone'
    BY <2>1, <2>3 DEF SerialInv, OneDaemon, Alone, calls
  <2>5. DaemonInv'
    BY <2>1, <2>2 DEF SerialInv, DaemonInv, Waits, calls, object, files
  <2>6. ListenInv' /\ PidfileInv'
    BY <2>1, <2>2 DEF SerialInv, ListenInv, PidfileInv, TypeOK, files
  <2>7. CallInv'
    <3> SUFFICES ASSUME NEW r \in Servers, NEW u \in Threads PROVE CallOk(r, u)'
      BY DEF CallInv
    <3>1. /\ CallOk(r, u) /\ port[r] \in Ports \cup {None} /\ pidfile[r] \in Pids \cup {None}
          /\ pid[r][u] \in Pids \cup {None} /\ \A n \in Ports : Frees(n) <=> Frees(n)'
      BY <1>1, <2>1, <2>2 DEF CallInv, TypeOK, Frees, SerialInv, ListenInv
    <3>2. port'[r] # None => (Frees(port[r]) <=> Frees(port[r])')
      <4>1. port'[r] = port[r]
        BY <2>1 DEF object
      <4>2. Frees(port[r])' <=> (tcp[port[r]] = None \/ proc'[tcp[port[r]]] = "killed")
        BY <2>1 DEF Frees, object
      <4>3. port[r] # None => (tcp[port[r]] # None => tcp[port[r]] \in Pids)
        BY <3>1 DEF SerialInv, ListenInv
      <4> QED
        BY <2>1, <2>2, <4>1, <4>2, <4>3 DEF Frees
    <3> QED
      BY <2>1, <2>2, <2>3, <3>1, <3>2 DEF CallOk, calls, object, files
  <2> QED
    BY <2>4, <2>5, <2>6, <2>7 DEF SerialInv
<1>6. \A n \in Ports : ~TakePort(n)
  BY DEF TakePort, Orderly
<1> QED
  BY <1>2, <1>3, <1>4, <1>5, <1>6 DEF Boot

\* Every step keeps it.
LEMMA NextSerial ==
    ASSUME Orderly, TypeOK, SerialInv, [Next]_vars
    PROVE  SerialInv'
<1>1. CASE UNCHANGED vars
  BY <1>1 DEF vars, daemons, files, object, calls, SerialInv, Alone, OneDaemon, DaemonsOf,
              DaemonInv, Waits, ListenInv, PidfileInv, CallInv, CallOk, Frees
<1>2. ASSUME NEW s \in Servers, NEW t \in Threads, Call(s, t) \/ Step(s, t) \/ Exit(s, t)
      PROVE  SerialInv'
  BY <1>2, StartSerial, LaunchSerial, StopSerial, EndSerial DEF Step
<1> QED
  BY <1>1, <1>2, MachineSerial DEF Next

\* The invariant of starts that nothing overlaps.
THEOREM SerialCalls == ASSUME Orderly PROVE Spec => []SerialInv
<1>1. TypeOK /\ SerialInv /\ [Next]_vars => SerialInv'
  BY NextSerial
<1> QED
  BY <1>1, InitSerial, TypeCorrect, PTL DEF Spec

\* start is idempotent while the server runs, and starts after a crash, a stop,
\* a failed SHUTDOWN, a slow SIGKILL or a failed start: one object never has two
\* daemons.
THEOREM OneAtATime == ASSUME Orderly PROVE Spec => []OneDaemon
<1>1. SerialInv => OneDaemon
  BY DEF SerialInv
<1> QED
  BY <1>1, SerialCalls, PTL

\* When every stop and terminate of a server has returned, and the last of them
\* has left it without a port, no daemon of it is left, whichever of them ended
\* it and whichever signal did.
THEOREM NothingLeft == ASSUME Orderly PROVE Spec => []StopReleases
<1>1. TypeOK /\ SerialInv => StopReleases
  <2> SUFFICES ASSUME TypeOK, SerialInv, NEW s \in Servers, Stopped(s), NEW p \in DaemonsOf(s)
               PROVE  FALSE
    BY DEF StopReleases
  <2>1. tport[p] \in Ports /\ tport[p] = port[s]
    BY Housed DEF SerialInv, DaemonInv, DaemonsOf
  <2> QED
    BY <2>1, NamesAssumption DEF Stopped
<1> QED
  BY <1>1, SerialCalls, TypeCorrect, PTL

\* start returns a ready server only when its own daemon is the one that
\* answers, though another may still hold the port when it is launched.
THEOREM AnsweredByOurs == ASSUME Orderly PROVE Spec => ReadyIsOurs
<1> DEFINE Ours(s, t) == at[s][t] = "ping" /\ Answering(s) # None
                            => Answering(s) \in DaemonsOf(s) /\ IsRunning(s)
<1>1. TypeOK /\ SerialInv => \A s \in Servers, t \in Threads : Ours(s, t)
  <2> SUFFICES ASSUME TypeOK, SerialInv, NEW s \in Servers, NEW t \in Threads,
                      at[s][t] = "ping", Answering(s) # None
               PROVE  Answering(s) \in DaemonsOf(s) /\ IsRunning(s)
    OBVIOUS
  <2>1. port[s] \in Ports /\ port[s] # None /\ Answering(s) = tcp[port[s]] /\ tcp[port[s]] # None
    BY DEF Answering, TypeOK
  <2>2. tcp[port[s]] \in DaemonsOf(s) /\ proc[tcp[port[s]]] = "up"
    BY <2>1 DEF SerialInv, CallInv, CallOk, ListenInv, Answering, Frees
  <2>3. pidfile[s] = tcp[port[s]] /\ tcp[port[s]] \in Pids
    BY <2>2 DEF SerialInv, DaemonInv, DaemonsOf
  <2>4. IsRunning(s)
    BY <2>1, <2>2, <2>3, OwnDirectory, NamesAssumption DEF IsRunning, PidOf, Exists
  <2> QED
    BY <2>1, <2>2, <2>4
<1>2. TypeOK /\ SerialInv =>
          [\A s \in Servers, t \in Threads :
              at[s][t] = "ping" /\ at'[s][t] = "idle" /\ Answering(s) # None
                 => Answering(s) \in DaemonsOf(s) /\ IsRunning(s)]_vars
  BY <1>1
<1> QED
  BY <1>2, SerialCalls, TypeCorrect, PTL DEF ReadyIsOurs

\* Without a reused pid, a SHUTDOWN goes to the daemon that was captured, or to
\* nobody.
SparedInv ==
    /\ \A p \in Pids : proc[p] # "foreign"
    /\ \A s \in Servers, t \in Threads :
          at[s][t] = "shutdown" => port[s] = None \/ tcp[port[s]] \in {None, pid[s][t]}

\* A step of a call moves that call, and only a start goes on with a start.
LEMMA StepGoes ==
    ASSUME NEW s \in Servers, NEW t \in Threads, Step(s, t)
    PROVE  /\ at[s][t] # "idle"
           /\ \E step \in Steps : Goto(s, t, step) /\ (step \in StartSteps => at[s][t] \in StartSteps)
BY DEF Step, CheckRunning, ChoosePort, WriteConf, Launch, AwaitLauncher, PingAnswered, PingTimeout,
       BeginStop, Shutdown, BindProcess, Signal, SignalForeign, Clean, Back, BeginTerminate, Kill

\* Every step keeps it.
LEMMA NextSpared ==
    ASSUME Orderly, FreshPids, TypeOK, SerialInv, SparedInv, [Next]_vars
    PROVE  SparedInv'
<1> USE NamesAssumption
<1>a. Alone /\ Overlap # "any"
  BY DEF SerialInv, Orderly
<1>1. CASE UNCHANGED vars
  BY <1>1 DEF vars, daemons, files, object, calls, SparedInv
<1>2. ASSUME NEW s \in Servers, NEW t \in Threads, Step(s, t), ~BeginStop(s, t)
      PROVE  SparedInv'
  <2>1. PICK step \in Steps \ {"shutdown"} : Goto(s, t, step)
    BY <1>2 DEF Step, CheckRunning, ChoosePort, WriteConf, Launch, AwaitLauncher, PingAnswered,
                PingTimeout, Shutdown, BindProcess, Signal, SignalForeign, Clean, Back,
                BeginTerminate, Kill
  <2>2. \A p \in Pids : proc'[p] # "foreign"
    BY <1>2 DEF SparedInv, TypeOK, Step, CheckRunning, ChoosePort, WriteConf, Launch, AwaitLauncher,
                PingAnswered, PingTimeout, Shutdown, BindProcess, Signal, Escalate, SignalForeign,
                Clean, BeginTerminate, Kill, ExitOrderly, ExitKilled, SendKill, daemons
  <2>3. ASSUME NEW r \in Servers, NEW u \in Threads, at'[r][u] = "shutdown"
        PROVE  port'[r] = None \/ tcp'[port'[r]] \in {None, pid'[r][u]}
    <3>1. at[r][u] = "shutdown" /\ ~(r = s /\ u = t)
      BY <2>1, <2>3, GotoTyped
    <3>2. at[s][t] \notin StartSteps
      BY <1>a, <3>1, NoStart
    <3>3. pid'[r][u] = pid[r][u]
      BY <1>2, <3>1 DEF TypeOK, Step, CheckRunning, ChoosePort, WriteConf, Launch, AwaitLauncher,
                PingAnswered, PingTimeout, Shutdown, BindProcess, Signal, SignalForeign,
                Clean, Back, BeginTerminate, Kill
    <3>4. port'[r] \in {port[r], None}
      BY <1>2, <3>2 DEF TypeOK, Step, CheckRunning, ChoosePort, WriteConf, Launch, AwaitLauncher,
                PingAnswered, PingTimeout, Shutdown, BindProcess, Signal, SignalForeign,
                Clean, BeginTerminate, Kill, object
    <3>5. \A n \in Ports : tcp'[n] \in {tcp[n], None}
      BY <1>2, <3>2 DEF TypeOK, Step, CheckRunning, ChoosePort, WriteConf, Launch, AwaitLauncher,
                PingAnswered, PingTimeout, Shutdown, BindProcess, Signal, Escalate, SignalForeign,
                Clean, BeginTerminate, Kill, ExitOrderly, ExitKilled, SendKill, daemons
    <3>6. port[r] \in Ports \cup {None} /\ (port[r] = None \/ tcp[port[r]] \in {None, pid[r][u]})
      BY <3>1 DEF SparedInv, TypeOK
    <3> QED
      BY <3>3, <3>4, <3>5, <3>6
  <2> QED
    BY <2>2, <2>3 DEF SparedInv
<1>3. ASSUME NEW s \in Servers, NEW t \in Threads, BeginStop(s, t)
      PROVE  SparedInv'
  <2>1. /\ at[s][t] = "stop" /\ UNCHANGED <<daemons, files, object>>
        /\ pid' = [pid EXCEPT ![s][t] = PidOf(s)]
    BY <1>3 DEF BeginStop
  <2>2. PICK step \in {"clean", "shutdown"} :
            Goto(s, t, step) /\ (step = "shutdown" => PidOf(s) # None)
    BY <1>3 DEF BeginStop
  <2>3. \A r \in Servers, u \in Threads : at[r][u] \notin {"wait", "ping"}
    BY <1>a, <2>1, NoStart
  <2>4. ASSUME PidOf(s) # None PROVE port[s] = None \/ tcp[port[s]] \in {None, PidOf(s)}
    <3>1. /\ PidOf(s) \in Pids /\ home[PidOf(s)] = s /\ PidOf(s) = pidfile[s]
          /\ proc[PidOf(s)] \in {"up", "killed"}
      BY <2>3, <2>4, FoundByPidfile DEF SparedInv
    <3>2. tport[PidOf(s)] = port[s] /\ tcp[tport[PidOf(s)]] = PidOf(s)
      BY <3>1 DEF SerialInv, DaemonInv
    <3> QED
      BY <3>2
  <2>5. /\ \A r \in Servers, u \in Threads : at'[r][u] = IF r = s /\ u = t THEN step ELSE at[r][u]
        /\ \A r \in Servers, u \in Threads : pid'[r][u] = IF r = s /\ u = t THEN PidOf(s) ELSE pid[r][u]
    BY <2>1, <2>2, GotoTyped DEF TypeOK
  <2> QED
    BY <2>1, <2>2, <2>4, <2>5 DEF SparedInv, daemons, object
<1>4. ASSUME NEW s \in Servers, NEW t \in Threads, Call(s, t) \/ Exit(s, t)
      PROVE  SparedInv'
  <2>1. UNCHANGED <<daemons, port, pid>>
    BY <1>4 DEF Call, Exit, object
  <2>2. UNCHANGED at \/ \E step \in {"check", "stop", "terminate"} : Goto(s, t, step)
    BY <1>4 DEF Call, Exit
  <2>3. \A r \in Servers, u \in Threads : at'[r][u] = "shutdown" => at[r][u] = "shutdown"
    BY <2>2, GotoTyped
  <2> QED
    BY <2>1, <2>3 DEF SparedInv, daemons
<1>5. ASSUME NEW p \in Pids, Boot(p) \/ Die(p) \/ Crash(p)
      PROVE  SparedInv'
  <2>1. /\ UNCHANGED <<port, calls>>
        /\ \A q \in Pids : proc'[q] # "foreign"
    BY <1>5 DEF Boot, WritePidfile, Serve, BindFails, Die, Crash, ExitKilled, SparedInv, object, TypeOK
  <2> SUFFICES ASSUME NEW s \in Servers, NEW t \in Threads, at[s][t] = "shutdown", port[s] # None
               PROVE  tcp'[port[s]] \in {None, pid[s][t]}
    BY <2>1 DEF SparedInv, calls
  <2>2. port[s] \in Ports /\ tcp[port[s]] \in {None, pid[s][t]}
    BY DEF SparedInv, TypeOK
  <2>3. proc[p] \notin {"boot", "named"}
    BY <1>a, NoStart, Settled DEF SerialInv
  <2>4. ExitKilled(p)
    BY <1>5, <2>3 DEF Boot, WritePidfile, Serve, BindFails, Die, Crash
  <2> QED
    BY <2>2, <2>4 DEF ExitKilled
<1>6. /\ \A p \in Pids : ~ReusePid(p)
      /\ \A n \in Ports : ~TakePort(n)
  BY DEF ReusePid, TakePort, FreshPids, Orderly
<1> QED
  BY <1>1, <1>2, <1>3, <1>4, <1>5, <1>6 DEF Next

\* stop and terminate end the daemon of their own server only, and no server of
\* anybody else: SHUTDOWN by the port, SIGTERM and SIGKILL by the pid.
THEOREM SparesOthers == ASSUME Orderly, FreshPids PROVE Spec => OthersSpared
<1> USE NamesAssumption
<1>1. Init => SparedInv
  BY DEF Init, SparedInv
<1>2. TypeOK /\ SerialInv /\ SparedInv /\ [Next]_vars => SparedInv'
  BY NextSpared
<1>3. ASSUME TypeOK, SerialInv, SparedInv, Next
      PROVE  \A s, r \in Servers : s # r /\ at'[s] # at[s] /\ at'[r] = at[r] =>
                 \A p \in DaemonsOf(r) : proc'[p] = proc[p]
  <2> SUFFICES ASSUME NEW s \in Servers, NEW r \in Servers, s # r, at'[s] # at[s], NEW p \in DaemonsOf(r)
               PROVE  proc'[p] = proc[p]
    OBVIOUS
  <2>1. p \in Pids /\ proc[p] \in Live /\ home[p] # s
    BY DEF DaemonsOf
  <2>2. PICK t \in Threads : Call(s, t) \/ Step(s, t) \/ Exit(s, t)
    <3>1. ASSUME NEW x \in Servers, NEW t \in Threads, NEW step \in Steps, Goto(x, t, step)
          PROVE  x = s
      BY <3>1 DEF Goto, TypeOK
    <3>2. ASSUME NEW x \in Servers, NEW t \in Threads, Call(x, t) \/ Step(x, t) \/ Exit(x, t)
          PROVE  x = s
      <4>1. \E step \in Steps : Goto(x, t, step)
        BY <3>2, StepGoes DEF Call, Exit
      <4> QED
        BY <3>1, <4>1
    <3>3. UNCHANGED calls => FALSE
      BY DEF calls
    <3>4. /\ ~(\E q \in Pids : Boot(q) \/ Die(q) \/ Crash(q) \/ ReusePid(q))
          /\ ~(\E n \in Ports : TakePort(n))
      BY <3>3 DEF Boot, WritePidfile, Serve, BindFails, Die, Crash, ReusePid, TakePort
    <3> QED
      BY <1>3, <3>2, <3>4 DEF Next
  <2>3. CallOk(s, t) /\ (at[s][t] = "shutdown" => port[s] = None \/ tcp[port[s]] \in {None, pid[s][t]})
    BY <1>3 DEF SerialInv, CallInv, SparedInv
  <2>4. at[s][t] \in {"shutdown", "signal", "signalForeign", "kill", "killForeign"} => p # pid[s][t]
    BY <2>1, <2>3 DEF CallOk
  <2>5. ASSUME NEW q, q # p, ExitOrderly(q) \/ ExitKilled(q) \/ SendKill(q) PROVE proc'[p] = proc[p]
    BY <1>3, <2>1, <2>5 DEF ExitOrderly, ExitKilled, SendKill, TypeOK
  <2>6. CASE Shutdown(s, t)
    <3>1. at[s][t] = "shutdown" /\ Answering(s) \in {None, pid[s][t]}
      BY <2>3, <2>6 DEF Shutdown, Answering
    <3> QED
      BY <2>4, <2>5, <2>6, <3>1 DEF Shutdown
  <2>7. CASE Signal(s, t) \/ Kill(s, t)
    BY <2>4, <2>5, <2>7 DEF Signal, Escalate, Kill
  <2>8. CASE SignalForeign(s, t)
    BY <1>3, <2>1, <2>4, <2>8 DEF SignalForeign, TypeOK
  <2>9. CASE Launch(s, t)
    BY <1>3, <2>1, <2>9 DEF Launch, TypeOK
  <2>10. CASE UNCHANGED daemons
    BY <2>10 DEF daemons
  <2>11. Call(s, t) \/ Exit(s, t) => UNCHANGED daemons
    BY DEF Call, Exit
  <2>12. Step(s, t) /\ ~(Shutdown(s, t) \/ Signal(s, t) \/ Kill(s, t) \/ SignalForeign(s, t) \/ Launch(s, t))
             => UNCHANGED daemons
    BY DEF Step, CheckRunning, ChoosePort, WriteConf, AwaitLauncher, PingAnswered, PingTimeout,
           BeginStop, BindProcess, Clean, BeginTerminate
  <2> QED
    BY <2>2, <2>6, <2>7, <2>8, <2>9, <2>10, <2>11, <2>12
<1>4. TypeOK /\ SerialInv => \A n \in Ports : tcp[n] # Outsider
  BY DEF SerialInv, ListenInv
<1>5. TypeOK /\ SerialInv /\ SparedInv /\ [Next]_vars =>
          [/\ \A s, r \in Servers : s # r /\ at'[s] # at[s] /\ at'[r] = at[r] =>
                  \A p \in DaemonsOf(r) : proc'[p] = proc[p]
           /\ \A n \in Ports : tcp[n] = Outsider => tcp'[n] = Outsider]_vars
  BY <1>3, <1>4
<1> QED
  BY <1>1, <1>2, <1>5, SerialCalls, TypeCorrect, PTL DEF Spec, OthersSpared

\* A start finds the directories that nobody may remove.
DirsInv ==
    \A s \in Servers :
        /\ s \notin OwnsDir \ Persist => dir[s]
        /\ \A t \in Threads : at[s][t] \in {"conf", "launch"} => sockdir[s] = DeepDir

\* For the directories it is enough that nothing overlaps a start.
LEMMA NextAlone ==
    ASSUME Overlap # "any", TypeOK, Alone, [Next]_vars
    PROVE  Alone'
<1>1. CASE UNCHANGED at
  BY <1>1 DEF Alone
<1>2. ASSUME NEW s \in Servers, NEW t \in Threads, Call(s, t) \/ Exit(s, t) PROVE Alone'
  <2>1. UNCHANGED at \/ \E step \in {"check", "stop", "terminate"} : MayBegin(s, step) /\ Goto(s, t, step)
    BY <1>2 DEF Call, Exit
  <2> QED
    BY <1>1, <2>1, StillAlone
<1>3. ASSUME NEW s \in Servers, NEW t \in Threads, Step(s, t) PROVE Alone'
  BY <1>3, StepGoes, StillAlone
<1>4. /\ \A p \in Pids : Boot(p) \/ Die(p) \/ Crash(p) \/ ReusePid(p) => UNCHANGED at
      /\ \A n \in Ports : TakePort(n) => UNCHANGED at
      /\ UNCHANGED vars => UNCHANGED at
  BY DEF Boot, WritePidfile, Serve, BindFails, Die, Crash, ReusePid, TakePort, vars, calls
<1> QED
  BY <1>1, <1>2, <1>3, <1>4 DEF Next

\* Every step leaves the directories to the start that needs them.
LEMMA NextDirs ==
    ASSUME Overlap # "any", TypeOK, Alone, DirsInv, [Next]_vars
    PROVE  DirsInv'
<1>1. CASE UNCHANGED <<dir, sockdir, at>>
  BY <1>1 DEF DirsInv
<1>2. ASSUME NEW s \in Servers, NEW t \in Threads, NEW step \in Steps, Goto(s, t, step),
             UNCHANGED <<dir, sockdir>>, step # "conf", step = "launch" => at[s][t] = "conf"
      PROVE  DirsInv'
  BY <1>2, GotoTyped DEF DirsInv
<1>3. ASSUME NEW s \in Servers, NEW t \in Threads, ChoosePort(s, t) PROVE DirsInv'
  <2>1. /\ Goto(s, t, "conf") /\ UNCHANGED dir
        /\ sockdir' = [sockdir EXCEPT ![s] = DeepDir]
    BY <1>3 DEF ChoosePort, SocketDirectory
  <2> QED
    BY <2>1, GotoTyped DEF DirsInv, TypeOK
<1>4. ASSUME NEW s \in Servers, NEW t \in Threads, Clean(s, t) PROVE DirsInv'
  <2>1. /\ at[s][t] \in {"clean", "cleanKilled"} /\ Goto(s, t, "idle")
        /\ dir' = [dir EXCEPT ![s] = @ /\ s \notin OwnsDir \ Persist]
    BY <1>4 DEF Clean, Back
  <2>2. \A r \in Servers, u \in Threads : at'[r][u] \notin {"conf", "launch"}
    BY <2>1, NoStart, GotoTyped
  <2> QED
    BY <2>1, <2>2 DEF DirsInv, TypeOK
<1>5. ASSUME NEW s \in Servers, NEW t \in Threads, Call(s, t) \/ Exit(s, t) PROVE DirsInv'
  <2>1. UNCHANGED at \/ \E step \in {"check", "stop", "terminate"} : Goto(s, t, step)
    BY <1>5 DEF Call, Exit
  <2>2. UNCHANGED <<dir, sockdir>>
    BY <1>5 DEF Call, Exit, files
  <2> QED
    BY <1>1, <1>2, <2>1, <2>2
<1>6. ASSUME NEW s \in Servers, NEW t \in Threads, Step(s, t), ~ChoosePort(s, t), ~Clean(s, t)
      PROVE  DirsInv'
  <2>1. UNCHANGED <<dir, sockdir>>
    BY <1>6 DEF Step, CheckRunning, WriteConf, Launch, AwaitLauncher, PingAnswered, PingTimeout,
           BeginStop, Shutdown, BindProcess, Signal, SignalForeign, BeginTerminate, Kill, files
  <2>2. PICK step \in Steps :
            Goto(s, t, step) /\ step # "conf" /\ (step = "launch" => at[s][t] = "conf")
    BY <1>6 DEF Step, CheckRunning, WriteConf, Launch, AwaitLauncher, PingAnswered, PingTimeout,
           BeginStop, Shutdown, BindProcess, Signal, SignalForeign, BeginTerminate, Kill
  <2> QED
    BY <1>2, <2>1, <2>2
<1>7. /\ \A p \in Pids : Boot(p) \/ Die(p) \/ Crash(p) \/ ReusePid(p) => UNCHANGED <<dir, sockdir, at>>
      /\ \A n \in Ports : TakePort(n) => UNCHANGED <<dir, sockdir, at>>
      /\ UNCHANGED vars => UNCHANGED <<dir, sockdir, at>>
  BY DEF Boot, WritePidfile, Serve, BindFails, Die, Crash, ReusePid, TakePort, vars, files, calls
<1> QED
  BY <1>1, <1>3, <1>4, <1>5, <1>6, <1>7 DEF Next

\* A server that keeps its data directory finds the directories that its next
\* daemon needs, whatever failed before and whatever else the machine does, if
\* no other call overlaps the start.
THEOREM FindsDirectories == ASSUME Overlap # "any" PROVE Spec => []StartsAgain
<1>1. Init => Alone /\ DirsInv
  BY DEF Init, Alone, DirsInv
<1>2. TypeOK /\ Alone /\ DirsInv /\ [Next]_vars => Alone' /\ DirsInv'
  BY NextAlone, NextDirs
<1>3. DirsInv => StartsAgain
  BY DEF DirsInv, StartsAgain
<1> QED
  BY <1>1, <1>2, <1>3, TypeCorrect, PTL DEF Spec

\* A daemon that outlives a call is left to the hook, which is registered at the
\* end of the wait for the launcher; when the program has ended, it is at work.
HookInv ==
    \A s \in Servers :
        /\ DaemonsOf(s) # {} => /\ hook[s] \/ \E t \in Threads : at[s][t] = "wait"
                                /\ exited[s] => \E t \in Threads : at[s][t] \in StopSteps
        /\ \A t \in Threads : exited[s] => at[s][t] \in StopSteps \cup {"idle"}

\* Every step leaves a daemon to the hook.
LEMMA NextHook ==
    ASSUME Orderly, TypeOK, SerialInv, HookInv, [Next]_vars
    PROVE  HookInv'
<1>a. Alone /\ CallInv /\ Overlap # "any"
  BY DEF SerialInv, Orderly
<1>1. CASE UNCHANGED vars
  BY <1>1 DEF vars, daemons, object, calls, HookInv, DaemonsOf
<1>2. ASSUME UNCHANGED <<hook, exited>>, \A r \in Servers : DaemonsOf(r)' \subseteq DaemonsOf(r),
             NEW s \in Servers, NEW t \in Threads, NEW step \in Steps, Goto(s, t, step),
             at[s][t] \in StopSteps => step \in StopSteps, at[s][t] = "idle" => ~exited[s],
             at[s][t] # "wait"
      PROVE  HookInv'
  <2>1. \A r \in Servers, u \in Threads : at'[r][u] = IF r = s /\ u = t THEN step ELSE at[r][u]
    BY <1>2, GotoTyped
  <2>2. exited[s] => at[s][t] \in StopSteps
    BY <1>2 DEF HookInv
  <2>3. ASSUME NEW r \in Servers
        PROVE  /\ (\E u \in Threads : at[r][u] = "wait") => \E u \in Threads : at'[r][u] = "wait"
               /\ (\E u \in Threads : at[r][u] \in StopSteps) => \E u \in Threads : at'[r][u] \in StopSteps
    BY <1>2, <2>1
  <2> QED
    BY <1>2, <2>1, <2>2, <2>3 DEF HookInv
<1>3. ASSUME NEW s \in Servers, NEW t \in Threads, Call(s, t) PROVE HookInv'
  <2>1. ~exited[s] /\ at[s][t] = "idle" /\ \E step \in {"check", "stop", "terminate"} : Goto(s, t, step)
    BY <1>3 DEF Call
  <2>2. UNCHANGED <<hook, exited>> /\ \A r \in Servers : DaemonsOf(r)' = DaemonsOf(r)
    BY <1>3 DEF Call, object, daemons, DaemonsOf
  <2> QED
    BY <1>2, <2>1, <2>2
<1>4. ASSUME NEW s \in Servers, NEW t \in Threads, Exit(s, t) PROVE HookInv'
  <2>1. /\ exited' = [exited EXCEPT ![s] = TRUE]
        /\ UNCHANGED <<daemons, hook>> /\ Idle(s)
        /\ IF hook[s] THEN Goto(s, t, "stop") ELSE UNCHANGED at
    BY <1>4 DEF Exit
  <2>2. \A r \in Servers : DaemonsOf(r)' = DaemonsOf(r) /\ hook'[r] = hook[r]
    BY <2>1 DEF DaemonsOf, daemons
  <2>3. \A r \in Servers : r # s => exited'[r] = exited[r]
    BY <2>1 DEF TypeOK
  <2>4. DaemonsOf(s) # {} => hook[s]
    BY <2>1 DEF HookInv, Idle
  <2>5. hook[s] => at'[s][t] = "stop"
    BY <2>1, GotoTyped
  <2>6. \A r \in Servers, u \in Threads :
            at'[r][u] = at[r][u] \/ (r = s /\ at[r][u] = "idle" /\ at'[r][u] = "stop")
    BY <2>1, GotoTyped DEF Idle
  <2>7. ASSUME NEW r \in Servers
        PROVE  /\ DaemonsOf(r) # {} => hook[r] \/ \E u \in Threads : at'[r][u] = "wait"
               /\ DaemonsOf(r) # {} /\ exited'[r] => \E u \in Threads : at'[r][u] \in StopSteps
               /\ \A u \in Threads : exited'[r] => at'[r][u] \in StopSteps \cup {"idle"}
    <3>1. CASE r = s
      BY <2>1, <2>4, <2>5, <2>6, <3>1 DEF Idle
    <3>2. CASE r # s
      <4>1. \A u \in Threads : at'[r][u] = at[r][u]
        BY <2>6, <3>2
      <4> QED
        BY <2>3, <3>2, <4>1 DEF HookInv
    <3> QED
      BY <3>1, <3>2
  <2> QED
    BY <2>2, <2>7 DEF HookInv
<1>5. ASSUME NEW s \in Servers, NEW t \in Threads, Launch(s, t) PROVE HookInv'
  <2>1. at[s][t] = "launch" /\ UNCHANGED <<hook, exited>> /\ Goto(s, t, "wait")
    BY <1>5 DEF Launch, object
  <2>2. \A r \in Servers : r # s => DaemonsOf(r)' = DaemonsOf(r)
    BY <1>5 DEF Launch, DaemonsOf, TypeOK
  <2>3. ~exited[s]
    BY <2>1 DEF HookInv
  <2>4. /\ at'[s][t] = "wait"
        /\ \A r \in Servers, u \in Threads : r # s => at'[r][u] = at[r][u]
    BY <2>1, GotoTyped
  <2> QED
    BY <2>1, <2>2, <2>3, <2>4 DEF HookInv
<1>6. ASSUME NEW s \in Servers, NEW t \in Threads, AwaitLauncher(s, t) PROVE HookInv'
  <2>1. /\ at[s][t] = "wait" /\ UNCHANGED <<daemons, exited>> /\ Goto(s, t, "ping")
        /\ hook' = [hook EXCEPT ![s] = TRUE]
    BY <1>6 DEF AwaitLauncher, RegisterHook
  <2>2. hook'[s] /\ \A r \in Servers : r # s => hook'[r] = hook[r]
    BY <2>1 DEF TypeOK
  <2>3. ~exited[s]
    BY <2>1 DEF HookInv
  <2>4. \A r \in Servers : DaemonsOf(r)' = DaemonsOf(r)
    BY <2>1 DEF DaemonsOf, daemons
  <2>5. \A r \in Servers, u \in Threads : r # s => at'[r][u] = at[r][u]
    BY <2>1, GotoTyped
  <2> QED
    BY <2>1, <2>2, <2>3, <2>4, <2>5 DEF HookInv
<1>7. ASSUME NEW s \in Servers, NEW t \in Threads, Clean(s, t) PROVE HookInv'
  <2>1. /\ at[s][t] \in {"clean", "cleanKilled"} /\ Goto(s, t, "idle") /\ UNCHANGED <<daemons, exited>>
        /\ hook' = [hook EXCEPT ![s] = @ /\ at[s][t] = "cleanKilled"]
    BY <1>7 DEF Clean, Back
  <2>2. DaemonsOf(s) = {}
    BY <1>a, <2>1 DEF CallInv, CallOk
  <2>3. \A r \in Servers : DaemonsOf(r)' = DaemonsOf(r) /\ (r # s => hook'[r] = hook[r])
    BY <2>1 DEF DaemonsOf, daemons, TypeOK
  <2>4. \A r \in Servers, u \in Threads : at'[r][u] = at[r][u] \/ (r = s /\ at'[r][u] = "idle")
    BY <2>1, GotoTyped
  <2> QED
    BY <2>1, <2>2, <2>3, <2>4 DEF HookInv
<1>8. ASSUME NEW s \in Servers, NEW t \in Threads, Step(s, t),
             ~Launch(s, t), ~AwaitLauncher(s, t), ~Clean(s, t)
      PROVE  HookInv'
  <2>1. UNCHANGED <<hook, exited, home>>
    BY <1>8 DEF Step, CheckRunning, ChoosePort, WriteConf, PingAnswered, PingTimeout, BeginStop,
           Shutdown, BindProcess, Signal, SignalForeign, BeginTerminate, Kill, object, daemons
  <2>2. \A q \in Pids : proc'[q] \in Live => proc[q] \in Live
    BY <1>8 DEF Step, CheckRunning, ChoosePort, WriteConf, PingAnswered, PingTimeout, BeginStop,
           Shutdown, BindProcess, Signal, Escalate, SignalForeign, BeginTerminate, Kill,
           ExitOrderly, ExitKilled, SendKill, daemons, TypeOK
  <2>3. \A r \in Servers : DaemonsOf(r)' \subseteq DaemonsOf(r)
    BY <2>1, <2>2 DEF DaemonsOf
  <2>4. PICK step \in Steps : Goto(s, t, step) /\ (at[s][t] \in StopSteps => step \in StopSteps)
    BY <1>8 DEF Step, CheckRunning, ChoosePort, WriteConf, PingAnswered, PingTimeout, BeginStop,
           Shutdown, BindProcess, Signal, SignalForeign, BeginTerminate, Kill
  <2>5. at[s][t] \notin {"idle", "wait"}
    BY <1>8 DEF Step, CheckRunning, ChoosePort, WriteConf, PingAnswered, PingTimeout, BeginStop,
           Shutdown, BindProcess, Signal, SignalForeign, BeginTerminate, Kill
  <2> QED
    BY <1>2, <2>1, <2>3, <2>4, <2>5
<1>9. ASSUME NEW p \in Pids, Boot(p) \/ Die(p) \/ Crash(p) \/ ReusePid(p) PROVE HookInv'
  <2>1. UNCHANGED <<object, calls, home>>
    BY <1>9 DEF Boot, WritePidfile, Serve, BindFails, Die, Crash, ReusePid
  <2>2. \A q \in Pids : proc'[q] \in Live => proc[q] \in Live
    BY <1>9 DEF Boot, WritePidfile, Serve, BindFails, Die, Crash, ReusePid, ExitKilled, TypeOK
  <2>3. \A r \in Servers : DaemonsOf(r)' \subseteq DaemonsOf(r)
    BY <2>1, <2>2 DEF DaemonsOf
  <2> QED
    BY <2>1, <2>3 DEF HookInv, object, calls
<1>10. \A n \in Ports : ~TakePort(n)
  BY DEF TakePort, Orderly
<1> QED
  BY <1>1, <1>3, <1>4, <1>5, <1>6, <1>7, <1>8, <1>9, <1>10 DEF Next

\* Whatever a start that fails leaves behind, the atexit hook releases: a daemon
\* that no call is working on is covered by a registered hook that has not run.
THEOREM HookOwns == ASSUME Orderly PROVE Spec => []HookCovers
<1>1. Init => HookInv
  BY DEF Init, HookInv, DaemonsOf
<1>2. TypeOK /\ SerialInv /\ HookInv /\ [Next]_vars => HookInv'
  BY NextHook
<1>3. HookInv => HookCovers
  BY DEF HookInv, HookCovers, Idle
<1> QED
  BY <1>1, <1>2, <1>3, SerialCalls, TypeCorrect, PTL DEF Spec
=============================================================================
