----------------------- MODULE EmbeddedClient_proofs ------------------------
(***************************************************************************)
(* For any set of instances and threads, any mix of shared and private     *)
(* instances and any set of faults: the variables of EmbeddedClient keep   *)
(* their types, and the lifecycle lock does its work and is released,      *)
(* however a close ends.                                                   *)
(*                                                                         *)
(* Part 1 proves that steps preserve types, given that a thread about to   *)
(* signal holds a pid.  Part 2 strengthens that to an inductive invariant  *)
(* about the calls in progress, CallInv.  Part 3 draws the conclusions.    *)
(***************************************************************************)
EXTENDS EmbeddedClientProps, TLAPS

-----------------------------------------------------------------------------
(* Part 1: types.                                                          *)

LEMMA DirType == \A h \in Handles : Dir(h) \in Dirs /\ Loc(h) \in Locs
BY HandlesAssumption DEF Dir, Dirs, Loc, Locs

LEMMA RenderedType == \A h \in Handles : Rendered(h) \in Confs /\ File(h) \in Files
BY DirType DEF Rendered, Confs, File, Files

LEMMA PidType == TypeOK => \A h \in Handles : PidOf(h) \in Handles \cup {None}
BY DirType DEF TypeOK, PidOf

LEMMA ReachType == TypeOK => \A h \in Handles : Reach(h) \in Handles \cup {None}
BY DEF TypeOK, Reach

LEMMA GotoType ==
    ASSUME TypeOK, NEW h \in Handles, NEW t \in Threads, NEW s \in Steps, Goto(h, t, s)
    PROVE  at' \in [Handles -> [Threads -> Steps]]
BY DEF TypeOK, Goto

LEMMA RollBackType ==
    ASSUME TypeOK, NEW h \in Handles, NEW t \in Threads, RollBack(h, t)
    PROVE  /\ at' \in [Handles -> [Threads -> Steps]]
           /\ pid' \in [Handles -> [Threads -> Handles \cup {None}]]
<1>1. Goto(h, t, "term") /\ "term" \in Steps  BY DEF RollBack, Steps, TermSteps
<1>2. at' \in [Handles -> [Threads -> Steps]]  BY <1>1, GotoType
<1>3. PidOf(h) \in Handles \cup {None}  BY PidType
<1> QED BY <1>2, <1>3 DEF RollBack, TypeOK

LEMMA BackType ==
    ASSUME TypeOK, NEW h \in Handles, NEW t \in Threads, Back(h, t)
    PROVE  /\ at' \in [Handles -> [Threads -> Steps]]
           /\ pid' \in [Handles -> [Threads -> Handles \cup {None}]]
<1>1. Goto(h, t, "idle") /\ "idle" \in Steps  BY DEF Back, Steps
<1>2. at' \in [Handles -> [Threads -> Steps]]  BY <1>1, GotoType
<1> QED BY <1>2 DEF Back, TypeOK

LEMMA DisconnectType ==
    ASSUME TypeOK, NEW h \in Handles, Disconnect(h)
    PROVE  /\ link' \in [Handles -> Handles \cup {None}]
           /\ others' \in [Handles -> SUBSET (Handles \cup {None})]
BY DEF Disconnect, TypeOK

LEMMA ExitType ==
    ASSUME TypeOK, NEW q \in Handles, NEW save, ExitOrderly(q, save), proc[q] = "up"
    PROVE  /\ proc' \in [Handles -> Live \cup {"free", "dead", "foreign"}]
           /\ rdb' \in [Files -> SUBSET Writers]
           /\ pidfile' \in [Dirs -> Handles \cup {None}]
           /\ sock' \in [Locs -> Handles \cup {None}]
           /\ \A r \in Handles : proc'[r] \in Live => proc[r] \in Live
<1>1. proc' \in [Handles -> Live \cup {"free", "dead", "foreign"}]  BY DEF ExitOrderly, TypeOK
<1>2. rdb' \in [Files -> SUBSET Writers]  BY DEF ExitOrderly, TypeOK
<1>3. pidfile' \in [Dirs -> Handles \cup {None}]  BY DEF ExitOrderly, TypeOK
<1>4. sock' \in [Locs -> Handles \cup {None}]  BY DEF ExitOrderly, TypeOK
<1>5. \A r \in Handles : proc'[r] \in Live => proc[r] \in Live  BY DEF ExitOrderly, TypeOK, Live
<1> QED BY <1>1, <1>2, <1>3, <1>4, <1>5


\* A thread about to signal holds a pid.
SignalsSomeone ==
    \A h \in Handles, t \in Threads :
        at[h][t] \in {"signal", "signalForeign"} => pid[h][t] # None

LEMMA TypeStep == ASSUME TypeOK, SignalsSomeone, [Next]_vars PROVE TypeOK'
<1> USE DEF daemons, runfiles, dirs, object, calls, conns
<1> USE DirType, PidType, ReachType
<1>0. CASE UNCHANGED vars  BY <1>0 DEF vars, TypeOK
<1>1. ASSUME NEW h \in Handles, NEW t \in Threads, Open(h, t) PROVE TypeOK'
  <2>1. at' \in [Handles -> [Threads -> Steps]]
    BY <1>1, GotoType DEF Open, FirstStep, Steps, CtorSteps
  <2> QED BY <2>1, <1>1, HandlesAssumption DEF Open, TypeOK
<1>2. ASSUME NEW h \in Handles, NEW t \in Threads, LoadRegistry(h, t) PROVE TypeOK'
  <2>1. at' \in [Handles -> [Threads -> Steps]]
    BY <1>2, GotoType DEF LoadRegistry, Steps, CtorSteps
  <2> QED BY <2>1, <1>2 DEF LoadRegistry, Readable, TypeOK
<1>3. ASSUME NEW h \in Handles, NEW t \in Threads, ProbePid(h, t) PROVE TypeOK'
  <2>1. at' \in [Handles -> [Threads -> Steps]]
    BY <1>3, GotoType DEF ProbePid, Steps, CtorSteps
  <2> QED BY <2>1, <1>3 DEF ProbePid, TypeOK
<1>4. ASSUME NEW h \in Handles, NEW t \in Threads, WriteConf(h, t) PROVE TypeOK'
  <2>1. at' \in [Handles -> [Threads -> Steps]]
    BY <1>4, GotoType DEF WriteConf, Steps, CtorSteps
  <2> QED BY <2>1, <1>4, RenderedType DEF WriteConf, TypeOK
<1>5. ASSUME NEW h \in Handles, NEW t \in Threads, Launch(h, t) PROVE TypeOK'
  <2>1. at' \in [Handles -> [Threads -> Steps]]
    BY <1>5, GotoType DEF Launch, Steps, CtorSteps
  <2> QED BY <2>1, <1>5 DEF Launch, TypeOK, Live
<1>6. ASSUME NEW h \in Handles, NEW t \in Threads, TruncateRegistry(h, t) PROVE TypeOK'
  <2>1. /\ at' \in [Handles -> [Threads -> Steps]]
          /\ pid' \in [Handles -> [Threads -> Handles \cup {None}]]
    BY <1>6, GotoType, RollBackType DEF TruncateRegistry, TypeOK, Steps, CtorSteps
  <2> QED BY <2>1, <1>6 DEF TruncateRegistry, TypeOK
<1>7. ASSUME NEW h \in Handles, NEW t \in Threads, SaveRegistry(h, t) PROVE TypeOK'
  <2>1. /\ at' \in [Handles -> [Threads -> Steps]]
          /\ pid' \in [Handles -> [Threads -> Handles \cup {None}]]
    BY <1>7, GotoType, RollBackType DEF SaveRegistry, TypeOK, Steps, CtorSteps
  <2> QED BY <2>1, <1>7 DEF SaveRegistry, TypeOK
<1>8. ASSUME NEW h \in Handles, NEW t \in Threads, PingAnswered(h, t) PROVE TypeOK'
  <2>1. at' \in [Handles -> [Threads -> Steps]]
    BY <1>8, GotoType DEF PingAnswered, Steps
  <2> QED BY <2>1, <1>8 DEF PingAnswered, Connect, TypeOK
<1>9. ASSUME NEW h \in Handles, NEW t \in Threads, PingTimeout(h, t) PROVE TypeOK'
  <2>1. /\ at' \in [Handles -> [Threads -> Steps]]
          /\ pid' \in [Handles -> [Threads -> Handles \cup {None}]]
    BY <1>9, RollBackType DEF PingTimeout
  <2> QED BY <2>1, <1>9 DEF PingTimeout, TypeOK
<1>10. ASSUME NEW h \in Handles, NEW t \in Threads, Undo(h, t) PROVE TypeOK'
  <2>1. /\ at' \in [Handles -> [Threads -> Steps]]
          /\ pid' \in [Handles -> [Threads -> Handles \cup {None}]]
    BY <1>10, BackType DEF Undo
  <2> QED BY <2>1, <1>10 DEF Undo, TypeOK
<1>11. ASSUME NEW h \in Handles, NEW t \in Threads, BindProcess(h, t) PROVE TypeOK'
  <2>1. at' \in [Handles -> [Threads -> Steps]]
    BY <1>11, GotoType DEF BindProcess, AfterTerm, Steps, CtorSteps, TermSteps, CloseSteps
  <2> QED BY <2>1, <1>11 DEF BindProcess, TypeOK
<1>12. ASSUME NEW h \in Handles, NEW t \in Threads, Signal(h, t) PROVE TypeOK'
  <2>1. at' \in [Handles -> [Threads -> Steps]]
    BY <1>12, GotoType DEF Signal, AfterTerm, Steps, CtorSteps, CloseSteps
  <2>2. /\ proc' \in [Handles -> Live \cup {"free", "dead", "foreign"}]
          /\ rdb' \in [Files -> SUBSET Writers]
          /\ pidfile' \in [Dirs -> Handles \cup {None}]
          /\ sock' \in [Locs -> Handles \cup {None}]
          /\ \A r \in Handles : proc'[r] \in Live => proc[r] \in Live
    <3>1. pid[h][t] \in Handles  BY <1>12 DEF TypeOK, SignalsSomeone, Signal
    <3>2. CASE proc[pid[h][t]] = "up" /\ ExitOrderly(pid[h][t], TRUE)
      BY <3>1, <3>2, ExitType
    <3>3. CASE /\ proc' = proc \/ proc' = [proc EXCEPT ![pid[h][t]] = "dead"]
               /\ UNCHANGED <<rdb, pidfile, sock>>
      BY <3>1, <3>3 DEF TypeOK, Live
    <3> QED BY <1>12, <3>2, <3>3 DEF Signal
  <2> QED BY <2>1, <2>2, <1>12 DEF Signal, TypeOK
<1>13. ASSUME NEW h \in Handles, NEW t \in Threads, SignalForeign(h, t) PROVE TypeOK'
  <2>1. at' \in [Handles -> [Threads -> Steps]]
    BY <1>13, GotoType DEF SignalForeign, AfterTerm, Steps, CtorSteps, CloseSteps
  <2> QED BY <2>1, <1>13 DEF SignalForeign, TypeOK, Live
<1>14. ASSUME NEW h \in Handles, NEW t \in Threads, BeginClose(h, t) PROVE TypeOK'
  <2>1. at' \in [Handles -> [Threads -> Steps]]
    BY <1>14, GotoType DEF BeginClose, Steps
  <2> QED BY <2>1, <1>14 DEF BeginClose, TypeOK
<1>15. ASSUME NEW h \in Handles, NEW t \in Threads, Acquire(h, t) PROVE TypeOK'
  <2>1. at' \in [Handles -> [Threads -> Steps]]
    BY <1>15, GotoType DEF Acquire, Steps, CloseSteps
  <2>2. /\ link' \in [Handles -> Handles \cup {None}]
          /\ others' \in [Handles -> SUBSET (Handles \cup {None})]
    BY <1>15, DisconnectType DEF Acquire, TypeOK
  <2>3. lock' \in [Handles -> Threads \cup {None}]  BY <1>15 DEF Acquire, TypeOK
  <2>4. UNCHANGED <<daemons, rdb, runfiles, dirs, object, pid>>  BY <1>15 DEF Acquire
  <2> QED BY <2>1, <2>2, <2>3, <2>4 DEF TypeOK
<1>16. ASSUME NEW h \in Handles, NEW t \in Threads, Count(h, t) PROVE TypeOK'
  <2>1. at' \in [Handles -> [Threads -> Steps]]
    BY <1>16, GotoType DEF Count, Steps, CloseSteps
  <2> QED BY <2>1, <1>16 DEF Count, Connect, TypeOK
<1>17. ASSUME NEW h \in Handles, NEW t \in Threads, CountFails(h, t) PROVE TypeOK'
  <2>1. /\ at' \in [Handles -> [Threads -> Steps]]
          /\ pid' \in [Handles -> [Threads -> Handles \cup {None}]]
    BY <1>17, BackType DEF CountFails, Return
  <2>2. /\ link' \in [Handles -> Handles \cup {None}]
          /\ others' \in [Handles -> SUBSET (Handles \cup {None})]
    BY <1>17, DisconnectType DEF CountFails, Return
  <2> QED BY <2>1, <2>2, <1>17 DEF CountFails, Return, TypeOK
<1>18. ASSUME NEW h \in Handles, NEW t \in Threads, Leave(h, t) PROVE TypeOK'
  <2>1. /\ at' \in [Handles -> [Threads -> Steps]]
          /\ pid' \in [Handles -> [Threads -> Handles \cup {None}]]
    BY <1>18, BackType DEF Leave, Return
  <2>2. /\ link' \in [Handles -> Handles \cup {None}]
          /\ others' \in [Handles -> SUBSET (Handles \cup {None})]
    BY <1>18, DisconnectType DEF Leave, Return
  <2> QED BY <2>1, <2>2, <1>18 DEF Leave, Return, TypeOK
<1>19. ASSUME NEW h \in Handles, NEW t \in Threads, CapturePid(h, t) PROVE TypeOK'
  <2>1. at' \in [Handles -> [Threads -> Steps]]
    BY <1>19, GotoType DEF CapturePid, Steps, CloseSteps
  <2> QED BY <2>1, <1>19 DEF CapturePid, CapturedPid, TypeOK
<1>20. ASSUME NEW h \in Handles, NEW t \in Threads, Shutdown(h, t) PROVE TypeOK'
  <2>1. at' \in [Handles -> [Threads -> Steps]]
    BY <1>20, GotoType DEF Shutdown, Steps, TermSteps
  <2>2. /\ proc' \in [Handles -> Live \cup {"free", "dead", "foreign"}]
          /\ rdb' \in [Files -> SUBSET Writers]
          /\ pidfile' \in [Dirs -> Handles \cup {None}]
          /\ sock' \in [Locs -> Handles \cup {None}]
          /\ \A r \in Handles : proc'[r] \in Live => proc[r] \in Live
    <3>1. CASE Reach(h) # None /\ ExitOrderly(Reach(h), Saves(h))
      <4>1. Reach(h) \in Handles /\ proc[Reach(h)] = "up"  BY <3>1 DEF Reach, Up
      <4> QED BY <3>1, <4>1, ExitType
    <3>2. CASE UNCHANGED <<proc, rdb, pidfile, sock>>  BY <3>2 DEF TypeOK
    <3> QED BY <1>20, <3>1, <3>2 DEF Shutdown
  <2> QED BY <2>1, <2>2, <1>20 DEF Shutdown, TypeOK
<1>21. ASSUME NEW h \in Handles, NEW t \in Threads, RemoveFiles(h, t) PROVE TypeOK'
  <2>1. /\ at' \in [Handles -> [Threads -> Steps]]
          /\ pid' \in [Handles -> [Threads -> Handles \cup {None}]]
    BY <1>21, BackType DEF RemoveFiles, Return
  <2>2. /\ link' \in [Handles -> Handles \cup {None}]
          /\ others' \in [Handles -> SUBSET (Handles \cup {None})]
    BY <1>21, DisconnectType DEF RemoveFiles, Return
  <2> QED BY <2>1, <2>2, <1>21 DEF RemoveFiles, RemoveRunFiles, Return, TypeOK
<1>22. ASSUME NEW h \in Handles, NEW t \in Threads, Interrupt(h, t) PROVE TypeOK'
  <2>1. /\ at' \in [Handles -> [Threads -> Steps]]
          /\ pid' \in [Handles -> [Threads -> Handles \cup {None}]]
    BY <1>22, BackType DEF Interrupt
  <2>2. /\ link' \in [Handles -> Handles \cup {None}]
          /\ others' \in [Handles -> SUBSET (Handles \cup {None})]
    BY <1>22, DisconnectType DEF Interrupt, TypeOK
  <2> QED BY <2>1, <2>2, <1>22 DEF Interrupt, TypeOK
<1>23. ASSUME NEW h \in Handles, WritePidfile(h) PROVE TypeOK'
  BY <1>23 DEF WritePidfile, TypeOK, Live
<1>24. ASSUME NEW h \in Handles, Serve(h) PROVE TypeOK'
  <2>1. setup[h] \in Confs /\ setup[h].file \in Files  BY <1>24 DEF Serve, TypeOK, Live, Confs
  <2>2. mem' \in [Handles -> SUBSET Writers]  BY <1>24, <2>1 DEF Serve, TypeOK
  <2> QED BY <1>24, <2>2 DEF Serve, TypeOK, Live
<1>25. ASSUME NEW h \in Handles, BindFails(h) PROVE TypeOK'
  BY <1>25 DEF BindFails, TypeOK, Live
<1>26. ASSUME NEW h \in Handles, Crash(h) PROVE TypeOK'
  BY <1>26 DEF Crash, TypeOK, Live
<1>27. ASSUME NEW h \in Handles, ReusePid(h) PROVE TypeOK'
  BY <1>27 DEF ReusePid, TypeOK, Live
<1>28. ASSUME NEW h \in Handles, Write(h) PROVE TypeOK'
  BY <1>28 DEF Write, Connect, TypeOK, Live
<1>29. ASSUME NEW h \in Handles, Grow(h) PROVE TypeOK'
  BY <1>29 DEF Grow, Up, TypeOK, Live
<1>30. ASSUME NEW h \in Handles, Visit(h) PROVE TypeOK'
  <2>1. PICK s \in {others[h] \cup {None}, others[h] \ {None}} : others' = [others EXCEPT ![h] = s]
    BY <1>30 DEF Visit
  <2>2. s \in SUBSET (Handles \cup {None})  BY DEF TypeOK
  <2> QED BY <2>1, <2>2, <1>30 DEF Visit, TypeOK
<1>31. ASSUME NEW h \in Handles, ClientCrash(h) PROVE TypeOK'
  <2>1. at' \in [Handles -> [Threads -> Steps]]  BY <1>31 DEF ClientCrash, TypeOK, Steps
  <2>2. pid' \in [Handles -> [Threads -> Handles \cup {None}]]  BY <1>31 DEF ClientCrash, TypeOK
  <2>3. /\ link' \in [Handles -> Handles \cup {None}]
          /\ others' \in [Handles -> SUBSET (Handles \cup {None})]
    BY <1>31, DisconnectType DEF ClientCrash
  <2> QED BY <2>1, <2>2, <2>3, <1>31 DEF ClientCrash, TypeOK
<1> QED BY <1>0, <1>1, <1>2, <1>3, <1>4, <1>5, <1>6, <1>7, <1>8, <1>9, <1>10, <1>11, <1>12, <1>13, <1>14, <1>15, <1>16, <1>17, <1>18, <1>19, <1>20, <1>21, <1>22, <1>23, <1>24, <1>25, <1>26, <1>27, <1>28, <1>29, <1>30, <1>31 DEF Next, Step, Boot

-----------------------------------------------------------------------------
(* Part 2: the calls in progress.  What holds of each thread t inside an   *)
(* instance h, then of the instance:                                       *)
(*   SignalOK    a thread about to signal holds a pid;                     *)
(*   BuilderOK   the steps of __init__ belong to an instance being built;  *)
(*   TeardownOK  tearing down takes the lock, of an instance that runs,    *)
(*               and nobody else has it;                                   *)
(*   WaiterOK    only instances that were handed out are closed;           *)
(*   AbsentOK    nobody is inside one that is not there;                   *)
(*   RollbackOK  rolling back, a pid is held only by who launched a server.*)

SignalOK(h, t) == at[h][t] \in {"signal", "signalForeign"} => pid[h][t] # None
BuilderOK(h, t) == at[h][t] \in CtorSteps => life[h] = "building"
TeardownOK(h, t) ==
    /\ InTeardown(h, t) => lock[h] = t /\ running[h]
    /\ lock[h] = t => InTeardown(h, t)
WaiterOK(h, t) == at[h][t] = "lock" => life[h] \in {"built", "failed"}
AbsentOK(h, t) == life[h] \in {"unborn", "crashed"} => at[h][t] = "idle"
RollbackOK(h, t) ==
    life[h] = "building" /\ at[h][t] \in TermSteps /\ pid[h][t] # None => started[h]
\* An instance under construction is known to one thread only.
OneBuilder(h) ==
    \A t, u \in Threads :
        life[h] = "building" /\ at[h][t] # "idle" /\ at[h][u] # "idle" => t = u

HandleOK(h) ==
    /\ running[h] => life[h] = "built"
    /\ OneBuilder(h)
    /\ \A t \in Threads : /\ SignalOK(h, t) /\ BuilderOK(h, t) /\ TeardownOK(h, t)
                          /\ WaiterOK(h, t) /\ AbsentOK(h, t) /\ RollbackOK(h, t)

CallInv == TypeOK /\ \A h \in Handles : HandleOK(h)

\* Thread t moves inside an instance; the calls of all the others stay put.
Alone(h, t) ==
    /\ \A u \in Threads \ {t} : at'[h][u] = at[h][u] /\ pid'[h][u] = pid[h][u]
    /\ \A g \in Handles \ {h} :
          /\ at'[g] = at[g] /\ pid'[g] = pid[g] /\ lock'[g] = lock[g]
          /\ life'[g] = life[g] /\ started'[g] = started[g] /\ running'[g] = running[g]

LEMMA CallsType == CallInv => SignalsSomeone
BY DEF CallInv, HandleOK, SignalOK, SignalsSomeone

LEMMA Moved ==
    ASSUME TypeOK, NEW h \in Handles, NEW t \in Threads, NEW s, Goto(h, t, s)
    PROVE  /\ at'[h][t] = s
           /\ \A u \in Threads \ {t} : at'[h][u] = at[h][u]
           /\ \A g \in Handles \ {h} : at'[g] = at[g]
BY DEF TypeOK, Goto

LEMMA Noted ==
    ASSUME TypeOK, NEW h \in Handles, NEW t \in Threads, NEW p, pid' = [pid EXCEPT ![h][t] = p]
    PROVE  /\ pid'[h][t] = p
           /\ \A u \in Threads \ {t} : pid'[h][u] = pid[h][u]
           /\ \A g \in Handles \ {h} : pid'[g] = pid[g]
BY DEF TypeOK

LEMMA Frame ==
    ASSUME CallInv, TypeOK', NEW h \in Handles, HandleOK(h)',
           \A g \in Handles \ {h} :
              /\ at'[g] = at[g] /\ pid'[g] = pid[g] /\ lock'[g] = lock[g]
              /\ life'[g] = life[g] /\ started'[g] = started[g] /\ running'[g] = running[g]
    PROVE  CallInv'
<1> SUFFICES ASSUME NEW g \in Handles \ {h} PROVE HandleOK(g)'
  BY DEF CallInv
<1> QED BY DEF CallInv, HandleOK, OneBuilder, SignalOK, BuilderOK, TeardownOK, InTeardown,
               WaiterOK, AbsentOK, RollbackOK

\* A constructor, or its except clause, gets on.
LEMMA Building ==
    ASSUME CallInv, TypeOK', NEW h \in Handles, NEW t \in Threads, Alone(h, t),
           life[h] = "building", at[h][t] # "idle", started[h] => started'[h],
           life'[h] = life[h], lock'[h] = lock[h], running'[h] = running[h],
           at'[h][t] \in CtorSteps \cup TermSteps,
           at'[h][t] \in {"signal", "signalForeign"} => pid'[h][t] # None,
           at'[h][t] \in TermSteps /\ pid'[h][t] # None => started'[h]
    PROVE  CallInv'
<1>1. \A u \in Threads \ {t} : at'[h][u] = "idle"
  BY DEF CallInv, HandleOK, OneBuilder, Alone
<1>2. HandleOK(h)'
  BY <1>1 DEF CallInv, HandleOK, OneBuilder, SignalOK, BuilderOK, TeardownOK, InTeardown,
              WaiterOK, AbsentOK, RollbackOK, CtorSteps, TermSteps, CloseSteps
<1> QED BY <1>2, Frame DEF Alone

\* A close gets on, under the lock.
LEMMA Closing ==
    ASSUME CallInv, TypeOK', NEW h \in Handles, NEW t \in Threads, Alone(h, t),
           InTeardown(h, t), started'[h] = started[h],
           life'[h] = life[h], lock'[h] = lock[h], running'[h] = running[h],
           at'[h][t] \in CloseSteps \cup TermSteps,
           at'[h][t] \in {"signal", "signalForeign"} => pid'[h][t] # None
    PROVE  CallInv'
<1>1. life[h] = "built" /\ lock[h] = t /\ running[h]
  BY DEF CallInv, HandleOK, TeardownOK
<1>2. HandleOK(h)'
  BY <1>1 DEF CallInv, HandleOK, OneBuilder, SignalOK, BuilderOK, TeardownOK, InTeardown,
              WaiterOK, AbsentOK, RollbackOK, CtorSteps, TermSteps, CloseSteps, Alone
<1> QED BY <1>2, Frame DEF Alone

\* A close returns or raises, and releases the lock.
LEMMA Returning ==
    ASSUME CallInv, TypeOK', NEW h \in Handles, NEW t \in Threads, Alone(h, t),
           InTeardown(h, t), life'[h] = life[h], started'[h] = started[h], at'[h][t] = "idle",
           lock'[h] = None
    PROVE  CallInv'
<1>1. life[h] = "built" /\ lock[h] = t
  BY DEF CallInv, HandleOK, TeardownOK
<1>2. \A u \in Threads \ {t} : ~InTeardown(h, u)
  BY <1>1 DEF CallInv, HandleOK, TeardownOK
<1>3. HandleOK(h)'
  BY <1>1, <1>2, NamesAssumption
     DEF CallInv, HandleOK, OneBuilder, SignalOK, BuilderOK, TeardownOK, InTeardown, WaiterOK,
         AbsentOK, RollbackOK, CtorSteps, TermSteps, CloseSteps, Alone
<1> QED BY <1>3, Frame DEF Alone

\* One step per action: a constructor or a close that gets on is an instance of
\* the lemmas above; the others are shown to keep HandleOK of their instance.
LEMMA CallStep == ASSUME CallInv, [Next]_vars PROVE CallInv'
<1> USE DEF object, calls
<1>t. TypeOK /\ TypeOK'  BY CallsType, TypeStep DEF CallInv
<1>1. ASSUME NEW h \in Handles, NEW t \in Threads, LoadRegistry(h, t) PROVE CallInv'
  <2>1. Alone(h, t)  BY <1>1, <1>t, Moved DEF Alone, LoadRegistry
  <2>2. at[h][t] \in CtorSteps /\ life[h] = "building"
    BY <1>1 DEF LoadRegistry, CtorSteps, CallInv, HandleOK, BuilderOK
  <2>3. /\ at'[h][t] \in CtorSteps \cup {"term"}
        /\ at'[h][t] = "term" /\ ~(pid'[h][t] = None) => started'[h]
        /\ started[h] => started'[h]
    BY <1>t, <1>1, Moved DEF LoadRegistry, TypeOK, CtorSteps
  <2>4. life'[h] = life[h] /\ lock'[h] = lock[h] /\ running'[h] = running[h]
    BY <1>1 DEF LoadRegistry
  <2> QED BY <1>t, <2>1, <2>2, <2>3, <2>4, Building DEF CtorSteps, TermSteps
<1>2. ASSUME NEW h \in Handles, NEW t \in Threads, ProbePid(h, t) PROVE CallInv'
  <2>1. Alone(h, t)  BY <1>2, <1>t, Moved DEF Alone, ProbePid
  <2>2. at[h][t] \in CtorSteps /\ life[h] = "building"
    BY <1>2 DEF ProbePid, CtorSteps, CallInv, HandleOK, BuilderOK
  <2>3. /\ at'[h][t] \in CtorSteps \cup {"term"}
        /\ at'[h][t] = "term" /\ ~(pid'[h][t] = None) => started'[h]
        /\ started[h] => started'[h]
    BY <1>t, <1>2, Moved DEF ProbePid, TypeOK, CtorSteps
  <2>4. life'[h] = life[h] /\ lock'[h] = lock[h] /\ running'[h] = running[h]
    BY <1>2 DEF ProbePid
  <2> QED BY <1>t, <2>1, <2>2, <2>3, <2>4, Building DEF CtorSteps, TermSteps
<1>3. ASSUME NEW h \in Handles, NEW t \in Threads, WriteConf(h, t) PROVE CallInv'
  <2>1. Alone(h, t)  BY <1>3, <1>t, Moved DEF Alone, WriteConf
  <2>2. at[h][t] \in CtorSteps /\ life[h] = "building"
    BY <1>3 DEF WriteConf, CtorSteps, CallInv, HandleOK, BuilderOK
  <2>3. /\ at'[h][t] \in CtorSteps \cup {"term"}
        /\ at'[h][t] = "term" /\ ~(pid'[h][t] = None) => started'[h]
        /\ started[h] => started'[h]
    BY <1>t, <1>3, Moved DEF WriteConf, TypeOK, CtorSteps
  <2>4. life'[h] = life[h] /\ lock'[h] = lock[h] /\ running'[h] = running[h]
    BY <1>3 DEF WriteConf
  <2> QED BY <1>t, <2>1, <2>2, <2>3, <2>4, Building DEF CtorSteps, TermSteps
<1>4. ASSUME NEW h \in Handles, NEW t \in Threads, Launch(h, t) PROVE CallInv'
  <2>1. Alone(h, t)  BY <1>4, <1>t, Moved DEF Alone, Launch
  <2>2. at[h][t] \in CtorSteps /\ life[h] = "building"
    BY <1>4 DEF Launch, CtorSteps, CallInv, HandleOK, BuilderOK
  <2>3. /\ at'[h][t] \in CtorSteps \cup {"term"}
        /\ at'[h][t] = "term" /\ ~(pid'[h][t] = None) => started'[h]
        /\ started[h] => started'[h]
    BY <1>t, <1>4, Moved DEF Launch, TypeOK, CtorSteps
  <2>4. life'[h] = life[h] /\ lock'[h] = lock[h] /\ running'[h] = running[h]
    BY <1>4 DEF Launch
  <2> QED BY <1>t, <2>1, <2>2, <2>3, <2>4, Building DEF CtorSteps, TermSteps
<1>5. ASSUME NEW h \in Handles, NEW t \in Threads, TruncateRegistry(h, t) PROVE CallInv'
  <2>1. Alone(h, t)  BY <1>5, <1>t, Moved, Noted DEF Alone, TruncateRegistry, RollBack
  <2>2. at[h][t] \in CtorSteps /\ life[h] = "building"
    BY <1>5 DEF TruncateRegistry, CtorSteps, CallInv, HandleOK, BuilderOK
  <2>3. /\ at'[h][t] \in CtorSteps \cup {"term"}
        /\ at'[h][t] = "term" /\ ~(pid'[h][t] = None) => started'[h]
        /\ started[h] => started'[h]
    BY <1>t, <1>5, Moved, Noted DEF TruncateRegistry, RollBack, TypeOK, CtorSteps
  <2>4. life'[h] = life[h] /\ lock'[h] = lock[h] /\ running'[h] = running[h]
    BY <1>5 DEF TruncateRegistry
  <2> QED BY <1>t, <2>1, <2>2, <2>3, <2>4, Building DEF CtorSteps, TermSteps
<1>6. ASSUME NEW h \in Handles, NEW t \in Threads, SaveRegistry(h, t) PROVE CallInv'
  <2>1. Alone(h, t)  BY <1>6, <1>t, Moved, Noted DEF Alone, SaveRegistry, RollBack
  <2>2. at[h][t] \in CtorSteps /\ life[h] = "building"
    BY <1>6 DEF SaveRegistry, CtorSteps, CallInv, HandleOK, BuilderOK
  <2>3. /\ at'[h][t] \in CtorSteps \cup {"term"}
        /\ at'[h][t] = "term" /\ ~(pid'[h][t] = None) => started'[h]
        /\ started[h] => started'[h]
    BY <1>t, <1>6, Moved, Noted DEF SaveRegistry, RollBack, TypeOK, CtorSteps
  <2>4. life'[h] = life[h] /\ lock'[h] = lock[h] /\ running'[h] = running[h]
    BY <1>6 DEF SaveRegistry
  <2> QED BY <1>t, <2>1, <2>2, <2>3, <2>4, Building DEF CtorSteps, TermSteps
<1>7. ASSUME NEW h \in Handles, NEW t \in Threads, PingTimeout(h, t) PROVE CallInv'
  <2>1. Alone(h, t)  BY <1>7, <1>t, Moved, Noted DEF Alone, PingTimeout, RollBack
  <2>2. at[h][t] \in CtorSteps /\ life[h] = "building"
    BY <1>7 DEF PingTimeout, CtorSteps, CallInv, HandleOK, BuilderOK
  <2>3. /\ at'[h][t] \in CtorSteps \cup {"term"}
        /\ at'[h][t] = "term" /\ ~(pid'[h][t] = None) => started'[h]
        /\ started[h] => started'[h]
    BY <1>t, <1>7, Moved, Noted DEF PingTimeout, RollBack, TypeOK, CtorSteps
  <2>4. life'[h] = life[h] /\ lock'[h] = lock[h] /\ running'[h] = running[h]
    BY <1>7 DEF PingTimeout
  <2> QED BY <1>t, <2>1, <2>2, <2>3, <2>4, Building DEF CtorSteps, TermSteps
<1>8. ASSUME NEW h \in Handles, NEW t \in Threads, Open(h, t) PROVE CallInv'
  <2>1. Alone(h, t)  BY <1>8, <1>t, Moved DEF Alone, Open, FirstStep
  <2>2. /\ life[h] = "unborn" /\ life'[h] = "building"
       /\ at'[h][t] \in {"conf", "load"}
       /\ lock'[h] = lock[h] /\ running'[h] = running[h] /\ started'[h] = started[h]
    BY <1>t, <1>8, Moved DEF Open, FirstStep, TypeOK
  <2>3. HandleOK(h)'
    BY <1>t, <2>1, <2>2
    DEF CallInv, HandleOK, Alone, OneBuilder, SignalOK, BuilderOK, TeardownOK, InTeardown,
           WaiterOK, AbsentOK, RollbackOK, CtorSteps, TermSteps, CloseSteps
  <2> QED BY <1>t, <2>1, <2>3, Frame DEF Alone
<1>9. ASSUME NEW h \in Handles, NEW t \in Threads, PingAnswered(h, t) PROVE CallInv'
  <2>1. Alone(h, t)  BY <1>9, <1>t, Moved DEF Alone, PingAnswered
  <2>2. /\ at[h][t] = "ping" /\ at'[h][t] = "idle"
       /\ life'[h] = "built" /\ running'[h]
       /\ lock'[h] = lock[h] /\ started'[h] = started[h]
    BY <1>t, <1>9, Moved DEF PingAnswered, TypeOK
  <2>3. HandleOK(h)'
    BY <1>t, <2>1, <2>2
    DEF CallInv, HandleOK, Alone, OneBuilder, SignalOK, BuilderOK, TeardownOK, InTeardown,
           WaiterOK, AbsentOK, RollbackOK, CtorSteps, TermSteps, CloseSteps
  <2> QED BY <1>t, <2>1, <2>3, Frame DEF Alone
<1>10. ASSUME NEW h \in Handles, NEW t \in Threads, Undo(h, t) PROVE CallInv'
  <2>1. Alone(h, t)  BY <1>10, <1>t, Moved, Noted DEF Alone, Undo, Back
  <2>2. /\ at[h][t] = "undo" /\ at'[h][t] = "idle"
       /\ life'[h] = "failed" /\ running'[h] = running[h]
       /\ lock'[h] = lock[h] /\ started'[h] = started[h]
    BY <1>t, <1>10, Moved, Noted DEF Undo, Back, TypeOK
  <2>3. HandleOK(h)'
    BY <1>t, <2>1, <2>2
    DEF CallInv, HandleOK, Alone, OneBuilder, SignalOK, BuilderOK, TeardownOK, InTeardown,
           WaiterOK, AbsentOK, RollbackOK, CtorSteps, TermSteps, CloseSteps
  <2> QED BY <1>t, <2>1, <2>3, Frame DEF Alone
<1>11. ASSUME NEW h \in Handles, NEW t \in Threads, BeginClose(h, t) PROVE CallInv'
  <2>1. Alone(h, t)  BY <1>11, <1>t, Moved DEF Alone, BeginClose
  <2>2. /\ life[h] \in {"built", "failed"} /\ at[h][t] = "idle" /\ at'[h][t] = "lock"
       /\ life'[h] = life[h] /\ running'[h] = running[h]
       /\ lock'[h] = lock[h] /\ started'[h] = started[h]
    BY <1>t, <1>11, Moved DEF BeginClose, TypeOK
  <2>3. HandleOK(h)'
    BY <1>t, <2>1, <2>2
    DEF CallInv, HandleOK, Alone, OneBuilder, SignalOK, BuilderOK, TeardownOK, InTeardown,
           WaiterOK, AbsentOK, RollbackOK, CtorSteps, TermSteps, CloseSteps
  <2> QED BY <1>t, <2>1, <2>3, Frame DEF Alone
<1>12. ASSUME NEW h \in Handles, NEW t \in Threads, Acquire(h, t) PROVE CallInv'
  <2>0. PICK s : Goto(h, t, s)  BY <1>12 DEF Acquire
  <2>1. Alone(h, t)
    <3>1. /\ \A u \in Threads \ {t} : at'[h][u] = at[h][u]
          /\ \A g \in Handles \ {h} : at'[g] = at[g]
      BY <1>t, <2>0, Moved
    <3>2. \A g \in Handles \ {h} : lock'[g] = lock[g]  BY <1>t, <1>12 DEF Acquire, TypeOK
    <3> QED BY <3>1, <3>2, <1>12 DEF Alone, Acquire
  <2>2. /\ life[h] \in {"built", "failed"} /\ lock[h] = None
        /\ life'[h] = life[h] /\ running'[h] = running[h] /\ started'[h] = started[h]
    BY <1>12 DEF Acquire, LockFree, CallInv, HandleOK, WaiterOK
  <2>3. \/ at'[h][t] = "idle" /\ lock'[h] = lock[h]
        \/ at'[h][t] \in {"capture", "count"} /\ lock'[h] = t /\ running[h]
    BY <1>t, <1>12, Moved DEF Acquire, Retired, TypeOK
  <2>4. \A u \in Threads : ~InTeardown(h, u)
    BY <2>2, NamesAssumption DEF CallInv, HandleOK, TeardownOK
  <2>5. HandleOK(h)'
    BY <1>t, <2>1, <2>2, <2>3, <2>4, NamesAssumption
    DEF CallInv, HandleOK, Alone, OneBuilder, SignalOK, BuilderOK, TeardownOK, InTeardown,
           WaiterOK, AbsentOK, RollbackOK, CtorSteps, TermSteps, CloseSteps
  <2> QED BY <1>t, <2>1, <2>5, Frame DEF Alone
<1>13. ASSUME NEW h \in Handles, NEW t \in Threads, Count(h, t) PROVE CallInv'
  <2>1. Alone(h, t)  BY <1>13, <1>t, Moved DEF Alone, Count
  <2>2. InTeardown(h, t)  BY <1>13 DEF Count, InTeardown, CloseSteps
  <2>3. at'[h][t] \in CloseSteps \cup {"term"}
    BY <1>t, <1>13, Moved DEF Count, CloseSteps
  <2>4. /\ life'[h] = life[h] /\ lock'[h] = lock[h]
        /\ running'[h] = running[h] /\ started'[h] = started[h]
    BY <1>13 DEF Count
  <2> QED BY <1>t, <2>1, <2>2, <2>3, <2>4, Closing DEF CloseSteps, TermSteps
<1>14. ASSUME NEW h \in Handles, NEW t \in Threads, CountFails(h, t) PROVE CallInv'
  <2>1. Alone(h, t)  BY <1>14, <1>t, Moved, Noted DEF Alone, CountFails, Return, Back
  <2>2. InTeardown(h, t)  BY <1>14 DEF CountFails, InTeardown, CloseSteps
  <2>3. lock'[h] = None  BY <1>t, <1>14 DEF CountFails, Return, TypeOK
  <2> QED BY <1>t, <1>14, <2>1, <2>2, <2>3, Moved, Returning DEF CountFails, Return, Back
<1>15. ASSUME NEW h \in Handles, NEW t \in Threads, Leave(h, t) PROVE CallInv'
  <2>1. Alone(h, t)  BY <1>15, <1>t, Moved, Noted DEF Alone, Leave, Return, Back
  <2>2. InTeardown(h, t)  BY <1>15 DEF Leave, InTeardown, CloseSteps
  <2>3. lock'[h] = None  BY <1>t, <1>15 DEF Leave, Return, TypeOK
  <2> QED BY <1>t, <1>15, <2>1, <2>2, <2>3, Moved, Returning DEF Leave, Return, Back
<1>16. ASSUME NEW h \in Handles, NEW t \in Threads, CapturePid(h, t) PROVE CallInv'
  <2>1. Alone(h, t)  BY <1>16, <1>t, Moved, Noted DEF Alone, CapturePid
  <2>2. InTeardown(h, t)  BY <1>16 DEF CapturePid, InTeardown, CloseSteps
  <2>3. at'[h][t] \in CloseSteps \cup {"term"}
    BY <1>t, <1>16, Moved DEF CapturePid, CloseSteps
  <2>4. /\ life'[h] = life[h] /\ lock'[h] = lock[h]
        /\ running'[h] = running[h] /\ started'[h] = started[h]
    BY <1>16 DEF CapturePid
  <2> QED BY <1>t, <2>1, <2>2, <2>3, <2>4, Closing DEF CloseSteps, TermSteps
<1>17. ASSUME NEW h \in Handles, NEW t \in Threads, Shutdown(h, t) PROVE CallInv'
  <2>1. Alone(h, t)  BY <1>17, <1>t, Moved DEF Alone, Shutdown
  <2>2. InTeardown(h, t)  BY <1>17 DEF Shutdown, InTeardown, CloseSteps
  <2>3. at'[h][t] \in CloseSteps \cup {"term"}
    BY <1>t, <1>17, Moved DEF Shutdown, CloseSteps
  <2>4. /\ life'[h] = life[h] /\ lock'[h] = lock[h]
        /\ running'[h] = running[h] /\ started'[h] = started[h]
    BY <1>17 DEF Shutdown
  <2> QED BY <1>t, <2>1, <2>2, <2>3, <2>4, Closing DEF CloseSteps, TermSteps
<1>18. ASSUME NEW h \in Handles, NEW t \in Threads, RemoveFiles(h, t) PROVE CallInv'
  <2>1. Alone(h, t)  BY <1>18, <1>t, Moved, Noted DEF Alone, RemoveFiles, Return, Back
  <2>2. InTeardown(h, t)  BY <1>18 DEF RemoveFiles, InTeardown, CloseSteps
  <2>3. lock'[h] = None  BY <1>t, <1>18 DEF RemoveFiles, Return, TypeOK
  <2> QED BY <1>t, <1>18, <2>1, <2>2, <2>3, Moved, Returning DEF RemoveFiles, Return, Back
<1>19. ASSUME NEW h \in Handles, NEW t \in Threads, BindProcess(h, t) PROVE CallInv'
  <2>1. Alone(h, t)  BY <1>19, <1>t, Moved DEF Alone, BindProcess
  <2>2. at[h][t] \in TermSteps  BY <1>19 DEF BindProcess, TermSteps
  <2>3. CASE life[h] = "building"
    BY <1>t, <1>19, <2>1, <2>2, <2>3, Moved, Building
       DEF BindProcess, AfterTerm, Exists, CtorSteps, TermSteps, CallInv, HandleOK, RollbackOK
  <2>4. CASE ~(life[h] = "building")
    <3>1. InTeardown(h, t)  BY <2>2, <2>4 DEF InTeardown
    <3> QED BY <1>t, <1>19, <2>1, <2>4, <3>1, Moved, Closing DEF BindProcess, AfterTerm, Exists, CloseSteps, TermSteps
  <2> QED BY <2>3, <2>4
<1>20. ASSUME NEW h \in Handles, NEW t \in Threads, Signal(h, t) PROVE CallInv'
  <2>1. Alone(h, t)  BY <1>20, <1>t, Moved DEF Alone, Signal
  <2>2. at[h][t] \in TermSteps  BY <1>20 DEF Signal, TermSteps
  <2>3. CASE life[h] = "building"
    BY <1>t, <1>20, <2>1, <2>2, <2>3, Moved, Building
       DEF Signal, AfterTerm, CtorSteps, TermSteps, CallInv, HandleOK, RollbackOK
  <2>4. CASE ~(life[h] = "building")
    <3>1. InTeardown(h, t)  BY <2>2, <2>4 DEF InTeardown
    <3> QED BY <1>t, <1>20, <2>1, <2>4, <3>1, Moved, Closing DEF Signal, AfterTerm, CloseSteps, TermSteps
  <2> QED BY <2>3, <2>4
<1>21. ASSUME NEW h \in Handles, NEW t \in Threads, SignalForeign(h, t) PROVE CallInv'
  <2>1. Alone(h, t)  BY <1>21, <1>t, Moved DEF Alone, SignalForeign
  <2>2. at[h][t] \in TermSteps  BY <1>21 DEF SignalForeign, TermSteps
  <2>3. CASE life[h] = "building"
    BY <1>t, <1>21, <2>1, <2>2, <2>3, Moved, Building
       DEF SignalForeign, AfterTerm, CtorSteps, TermSteps, CallInv, HandleOK, RollbackOK
  <2>4. CASE ~(life[h] = "building")
    <3>1. InTeardown(h, t)  BY <2>2, <2>4 DEF InTeardown
    <3> QED BY <1>t, <1>21, <2>1, <2>4, <3>1, Moved, Closing DEF SignalForeign, AfterTerm, CloseSteps, TermSteps
  <2> QED BY <2>3, <2>4
<1>22. ASSUME NEW h \in Handles, NEW t \in Threads, Interrupt(h, t) PROVE CallInv'
  <2>1. HandleOK(h)'
    BY <1>22, <1>t, Moved, Noted, NamesAssumption DEF Interrupt, Back, CallInv, HandleOK, TypeOK, OneBuilder, SignalOK, BuilderOK, TeardownOK, InTeardown,
           WaiterOK, AbsentOK, RollbackOK, CtorSteps, TermSteps, CloseSteps
  <2> QED BY <1>t, <1>22, <2>1, Moved, Noted, Frame DEF Interrupt, Back, TypeOK
<1>23. ASSUME NEW h \in Handles, ClientCrash(h) PROVE CallInv'
  <2>1. HandleOK(h)'
    BY <1>23, <1>t, NamesAssumption DEF ClientCrash, HandleOK, TypeOK, OneBuilder, SignalOK, BuilderOK, TeardownOK, InTeardown,
           WaiterOK, AbsentOK, RollbackOK, CtorSteps, TermSteps, CloseSteps
  <2> QED BY <1>t, <1>23, <2>1, Frame DEF ClientCrash, TypeOK
<1>24. CASE UNCHANGED <<life, started, running, at, pid, lock>>
  BY <1>t, <1>24 DEF CallInv, HandleOK, OneBuilder, SignalOK, BuilderOK, TeardownOK, InTeardown,
           WaiterOK, AbsentOK, RollbackOK, CtorSteps, TermSteps, CloseSteps
<1>25. ASSUME NEW q \in Handles,
          Boot(q) \/ Crash(q) \/ ReusePid(q) \/ Write(q) \/ Grow(q) \/ Visit(q)
     PROVE CallInv'
  BY <1>25, <1>24 DEF Boot, WritePidfile, Serve, BindFails, Crash, ReusePid, Write, Grow, Visit
<1>26. CASE UNCHANGED vars  BY <1>26, <1>24 DEF vars
<1> QED
  BY <1>1, <1>2, <1>3, <1>4, <1>5, <1>6, <1>7, <1>8, <1>9, <1>10, <1>11,
     <1>12, <1>13, <1>14, <1>15, <1>16, <1>17, <1>18, <1>19, <1>20, <1>21,
     <1>22, <1>23, <1>24, <1>25, <1>26
  DEF Next, Step

LEMMA CallInit == Init => CallInv
<1> SUFFICES ASSUME Init PROVE CallInv  OBVIOUS
<1>1. TypeOK
  BY HandlesAssumption, DirType DEF Init, TypeOK, Live, Steps
<1>2. \A h \in Handles : HandleOK(h)
  BY NamesAssumption DEF Init, HandleOK, OneBuilder, SignalOK, BuilderOK, TeardownOK, InTeardown,
           WaiterOK, AbsentOK, RollbackOK, CtorSteps, TermSteps, CloseSteps
<1> QED BY <1>1, <1>2 DEF CallInv

LEMMA CallsCorrect == Spec => []CallInv
BY CallInit, CallStep, PTL DEF Spec

-----------------------------------------------------------------------------
(* Part 3: the theorems.                                                   *)

\* Every variable of the client, the file system and the daemons keeps its type.
THEOREM TypeCorrect == Spec => []TypeOK
<1>1. CallInv => TypeOK  BY DEF CallInv
<1> QED BY <1>1, CallsCorrect, PTL

\* close, __exit__, __del__ and atexit of one instance, from any number of
\* threads: one of them at a time tears the server down, and none once the
\* instance has retired (_lifecycle_lock and the running flag of _cleanup).
THEOREM LifecycleLock == Spec => [](OneTeardown /\ RetiredInert)
<1>1. CallInv => OneTeardown /\ RetiredInert
  BY DEF CallInv, HandleOK, TeardownOK, OneTeardown, RetiredInert
<1> QED BY <1>1, CallsCorrect, PTL

\* Every way out of _cleanup, the raising ones included, leaves the lock free.
THEOREM LockCorrect == Spec => []LockReleased
<1>1. CallInv => LockReleased
  BY DEF CallInv, HandleOK, TeardownOK, LockReleased
<1> QED BY <1>1, CallsCorrect, PTL
=============================================================================
