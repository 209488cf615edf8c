------------------------- MODULE Durability_proofs --------------------------
(***************************************************************************)
(* Theorems about Durability.tla, for every set of objects, paths and      *)
(* requests and every fault.  Provided that the objects of a path ask for  *)
(* the same,                                                               *)
(*                                                                         *)
(*   - Always: what was acknowledged under "always" is on disk;            *)
(*   - EverySecond: of what was acknowledged under "everysec", all but the *)
(*     last second is.                                                     *)
(*                                                                         *)
(* Provided that every path keeps its data in its own directory, whatever  *)
(* is asked for,                                                           *)
(*                                                                         *)
(*   - Closed: what a close has left on disk is found by the next one, if  *)
(*     requests for one path agree about the append-only file;             *)
(*   - Owned: the data of a path are its own, if no two paths of one       *)
(*     directory use the append-only file.                                 *)
(***************************************************************************)
EXTENDS Durability, TLAPS

-----------------------------------------------------------------------------
(* What connect and configuration.py make of a request.                    *)

\* A keyword that is overridden has the override.
LEMMA OverHas ==
    ASSUME NEW f, NEW g, NEW d, d \in DOMAIN f
    PROVE  d \in DOMAIN Over(f, g) /\ Over(f, g)[d] = f[d]
  BY DEF Over

\* One that is not has what it had before.
LEMMA OverKeeps ==
    ASSUME NEW f, NEW g, NEW d, d \notin DOMAIN f
    PROVE  /\ d \in DOMAIN Over(f, g) <=> d \in DOMAIN g
           /\ d \in DOMAIN g => Over(f, g)[d] = g[d]
  BY DEF Over

\* dbdir is the directive that a path adds, and no other.
LEMMA OverridesHas ==
    ASSUME NEW p, NEW r, NEW d, d # "dbdir", d \in DOMAIN ServerConfig(r.durable, r.config)
    PROVE  /\ d \in DOMAIN Overrides(p, r)
           /\ Overrides(p, r)[d] = ServerConfig(r.durable, r.config)[d]
  BY OverHas DEF Overrides

\* A directive that is given a value is read as the last line of the value.
LEMMA ReadsGiven ==
    ASSUME NEW o, NEW d \in {"appendonly", "appendfsync"}, d \in DOMAIN o,
           o[d] # None, o[d] # << >>
    PROVE  Reads(o, d) = o[d][Len(o[d])]
  <1>1. d \in DOMAIN Over(o, Defaults) /\ Over(o, Defaults)[d] = o[d]
    BY OverHas
  <1>2. d \in DOMAIN Settings(o) /\ Settings(o)[d] = o[d]
    BY <1>1 DEF Settings
  <1>3. Lines(o, d) = o[d]
    BY <1>2 DEF Lines
  <1> QED
    BY <1>3 DEF Reads

\* One that is removed, or given nothing, has Valkey's own value.
LEMMA ReadsRemoved ==
    ASSUME NEW o, "appendfsync" \in DOMAIN o, o["appendfsync"] \in {None, << >>}
    PROVE  Reads(o, "appendfsync") = "everysec"
  <1>1. /\ "appendfsync" \in DOMAIN Over(o, Defaults)
        /\ Over(o, Defaults)["appendfsync"] = o["appendfsync"]
    BY OverHas
  <1>2. Lines(o, "appendfsync") = << >>
    <2>1. CASE o["appendfsync"] = None
      BY <1>1, <2>1 DEF Settings, Lines
    <2>2. CASE o["appendfsync"] # None
      BY <1>1, <2>2 DEF Settings, Lines
    <2> QED
      BY <2>1, <2>2
  <1> QED
    BY <1>2 DEF Reads, BuiltIn

\* The server of a request with a level of durability keeps an append-only file
\* and fsyncs it at that level.
LEMMA LevelConfigured ==
    ASSUME NEW p, NEW r, Accepts(p, r.durable), NEW level \in {"always", "everysec"},
           Level(r) = level
    PROVE  Configured(p, r).aof /\ Configured(p, r).fsync = level
  <1> DEFINE s == ServerConfig(r.durable, r.config)
             preset == Presets[r.durable]
  <1>1. /\ r.durable # "no" /\ r.durable \in {"true", "everysec", "always"}
        /\ "appendonly" \notin DOMAIN r.config
    BY DEF Level, Accepts, Presets
  <1>2. /\ DOMAIN preset = {"appendonly", "appendfsync"}
        /\ preset["appendonly"] = <<"yes">>
        /\ preset["appendfsync"] = IF r.durable = "always" THEN <<"always">> ELSE <<"everysec">>
    BY <1>1 DEF Presets
  <1>3. s = Over(r.config, preset)
    BY <1>1 DEF ServerConfig
  <1>4. Reads(Overrides(p, r), "appendonly") = "yes"
    <2>1. "appendonly" \in DOMAIN s /\ s["appendonly"] = <<"yes">>
      BY <1>1, <1>2, <1>3, OverKeeps
    <2>2. "appendonly" \in DOMAIN Overrides(p, r) /\ Overrides(p, r)["appendonly"] = <<"yes">>
      BY <2>1, OverridesHas
    <2>3. <<"yes">> # None
      BY NoneAssumption
    <2> QED
      BY <2>2, <2>3, ReadsGiven
  <1>5. Reads(Overrides(p, r), "appendfsync") = level
    <2>1. CASE "appendfsync" \notin DOMAIN r.config
      <3>1. "appendfsync" \in DOMAIN s /\ s["appendfsync"] = <<level>>
        BY <1>1, <1>2, <1>3, <2>1, OverKeeps DEF Level
      <3>2. /\ "appendfsync" \in DOMAIN Overrides(p, r)
            /\ Overrides(p, r)["appendfsync"] = <<level>>
        BY <3>1, OverridesHas
      <3>3. <<level>> # None
        BY NoneAssumption
      <3> QED
        BY <3>2, <3>3, ReadsGiven
    <2>2. CASE "appendfsync" \in DOMAIN r.config
      <3> DEFINE given == r.config["appendfsync"]
      <3>1. "appendfsync" \in DOMAIN s /\ s["appendfsync"] = given
        BY <1>3, <2>2, OverHas
      <3>2. /\ "appendfsync" \in DOMAIN Overrides(p, r)
            /\ Overrides(p, r)["appendfsync"] = given
        BY <3>1, OverridesHas
      <3>3. CASE given \in {None, << >>}
        BY <1>1, <2>2, <3>2, <3>3, ReadsRemoved DEF Level
      <3>4. CASE given \notin {None, << >>}
        <4>1. level = given[Len(given)]
          BY <1>1, <2>2, <3>4 DEF Level
        <4> QED
          BY <3>2, <3>4, <4>1, ReadsGiven
      <3> QED
        BY <3>3, <3>4
    <2> QED
      BY <2>1, <2>2
  <1> QED
    BY <1>4, <1>5 DEF Configured, Daemon

-----------------------------------------------------------------------------
(* Types, whoever asks for what.                                           *)

\* An open object has a path and a request for it.
LEMMA OpenHas ==
    ASSUME TypeOK, NEW h \in Handles, open[h] # None
    PROVE  open[h].path \in Paths /\ open[h].req \in Requests[open[h].path]
  BY DEF TypeOK

\* A set of writes is not None.
LEMMA RecordedType ==
    ASSUME TypeOK, NEW d \in Dirs
    PROVE  Recorded(d) \in SUBSET Writes /\ synced[d] \subseteq Recorded(d)
  BY DEF TypeOK, Recorded

\* What a server finds are writes.
LEMMA LoadsType ==
    ASSUME TypeOK, NEW p \in Paths, NEW r \in Requests[p]
    PROVE  /\ Configured(p, r).dir \in Dirs
           /\ Loads(Configured(p, r), p[2]) \in SUBSET Writes
  <1>1. Configured(p, r).dir \in Dirs /\ p[2] \in Files
    BY DirsAssumption DEF Files
  <1>2. rdb[<<Configured(p, r).dir, p[2]>>] \in SUBSET Writes
    BY <1>1 DEF TypeOK
  <1> QED
    BY <1>1, <1>2, RecordedType DEF Loads

LEMMA TypeKept == TypeOK /\ [Next]_vars => TypeOK'
  <1> SUFFICES ASSUME TypeOK, [Next]_vars PROVE TypeOK'
    OBVIOUS
  <1> USE DEF TypeOK, disk, server, promises
  <1> DEFINE Objects == {None} \cup UNION {[path : {p}, req : Requests[p]] : p \in Paths}
  <1>0. \A h \in Handles : [open EXCEPT ![h] = None] \in [Handles -> Objects]
    OBVIOUS
  <1>1. ASSUME NEW h \in Handles, NEW p \in Paths, NEW r \in Requests[p], Start(h, p, r)
        PROVE  TypeOK'
    <2> DEFINE c == Configured(p, r)
    <2>1. c.dir \in Dirs /\ Loads(c, p[2]) \in SUBSET Writes
      BY LoadsType
    <2>2. [path |-> p, req |-> r] \in Objects
      OBVIOUS
    <2>3. open' \in [Handles -> Objects]
      BY <1>1, <2>2 DEF Start
    <2>4. /\ up' \in BOOLEAN /\ mem' \subseteq Writes
          /\ rdb' = rdb /\ synced' = synced
          /\ acked' = acked /\ kept' = kept /\ promised' = promised /\ recent' = recent
      BY <1>1, <2>1 DEF Start
    <2>5. aof' \in [Dirs -> {None} \cup SUBSET Writes]
      BY <1>1, <2>1 DEF Start
    <2>6. conf'.dir \in Dirs /\ (conf'.aof => aof'[conf'.dir] = mem')
      BY <1>1, <2>1 DEF Start
    <2>7. ASSUME NEW d \in Dirs PROVE synced'[d] \subseteq Recorded(d)'
      <3>1. CASE c.aof /\ d = c.dir
        <4>1. aof'[d] = Recorded(d)
          BY <1>1, <2>1, <3>1 DEF Start, Loads
        <4> QED
          BY <2>4, <4>1, RecordedType, NoneAssumption DEF Recorded
      <3>2. CASE ~(c.aof /\ d = c.dir)
        <4>1. aof'[d] = aof[d]
          BY <1>1, <2>1, <3>2 DEF Start
        <4> QED
          BY <2>4, <4>1, RecordedType DEF Recorded
      <3> QED
        BY <3>1, <3>2
    <2> QED
      BY <2>3, <2>4, <2>5, <2>6, <2>7
  <1>2. ASSUME NEW h \in Handles, NEW p \in Paths, NEW r \in Requests[p], Attach(h, p, r)
        PROVE  TypeOK'
    <2>1. open' \in [Handles -> Objects]
      <3>1. [path |-> p, req |-> r] \in Objects
        OBVIOUS
      <3> QED
        BY <1>2, <3>1 DEF Attach
    <2> QED
      BY <1>2, <2>1 DEF Attach, Recorded
  <1>3. ASSUME NEW h \in Handles, Write(h) PROVE TypeOK'
    <2> PICK w \in Writes : 
           /\ open[h] # None /\ up
           /\ mem' = mem \cup {w}
           /\ aof' = IF conf.aof THEN [aof EXCEPT ![conf.dir] = @ \cup {w}] ELSE aof
           /\ synced' = IF conf.aof /\ conf.fsync = "always"
                        THEN [synced EXCEPT ![conf.dir] = aof'[conf.dir]] ELSE synced
           /\ acked' = [acked EXCEPT ![open[h].path] = @ \cup {w}]
           /\ promised' = [level \in {"always", "everysec"} |->
                 promised[level] \cup (IF Level(open[h].req) = level THEN {w} ELSE {})]
           /\ recent' = recent \cup {w}
           /\ UNCHANGED <<open, up, conf, rdb, kept>>
      BY <1>3 DEF Write
    <2>1. conf.aof => aof'[conf.dir] = mem' /\ mem' \in SUBSET Writes
      OBVIOUS
    <2>2. aof' \in [Dirs -> {None} \cup SUBSET Writes]
      BY <2>1
    <2>3. synced' \in [Dirs -> SUBSET Writes]
      BY <2>1
    <2>4. ASSUME NEW d \in Dirs PROVE synced'[d] \subseteq Recorded(d)'
      <3>1. CASE conf.aof /\ d = conf.dir
        <4>1. Recorded(d)' = mem'
          BY <2>1, <3>1, NoneAssumption DEF Recorded
        <4>2. synced[d] \subseteq mem
          BY <3>1, RecordedType, NoneAssumption DEF Recorded
        <4> QED
          BY <2>1, <3>1, <4>1, <4>2
      <3>2. CASE ~(conf.aof /\ d = conf.dir)
        <4>1. aof'[d] = aof[d] /\ synced'[d] = synced[d]
          BY <3>2
        <4> QED
          BY <4>1, RecordedType DEF Recorded
      <3> QED
        BY <3>1, <3>2
    <2>5. acked' \in [Paths -> SUBSET Writes]
      OBVIOUS
    <2>6. promised' \in [{"always", "everysec"} -> SUBSET Writes]
      OBVIOUS
    <2> QED
      BY <2>1, <2>2, <2>3, <2>4, <2>5, <2>6
  <1>4. ASSUME NEW h \in Handles, Stop(h) PROVE TypeOK'
    <2>1. open' \in [Handles -> Objects]
      BY <1>0, <1>4 DEF Stop
    <2>2. rdb' \in [Dirs \X Files -> SUBSET Writes]
      BY <1>4 DEF Stop
    <2>3. kept' \in [Paths -> SUBSET Writes]
      BY <1>4 DEF Stop
    <2>4. synced' \in [Dirs -> SUBSET Writes]
      BY <1>4 DEF Stop
    <2>5. ASSUME NEW d \in Dirs PROVE synced'[d] \subseteq Recorded(d)'
      <3>1. CASE conf.aof /\ d = conf.dir
        BY <1>4, <3>1, NoneAssumption DEF Stop, Recorded
      <3>2. CASE ~(conf.aof /\ d = conf.dir)
        <4>1. synced'[d] = synced[d] /\ aof' = aof
          BY <1>4, <3>2 DEF Stop
        <4> QED
          BY <4>1, RecordedType DEF Recorded
      <3> QED
        BY <3>1, <3>2
    <2> QED
      BY <1>4, <2>1, <2>2, <2>3, <2>4, <2>5 DEF Stop
  <1>5. ASSUME NEW h \in Handles, StopUnsaved(h) PROVE TypeOK'
    BY <1>0, <1>5 DEF StopUnsaved, Excuse, Recorded
  <1>6. ASSUME NEW h \in Handles, Leave(h) PROVE TypeOK'
    BY <1>0, <1>6 DEF Leave, Recorded
  <1>7. CASE Second
    <2>1. synced' \in [Dirs -> SUBSET Writes]
      BY <1>7 DEF Second
    <2>2. ASSUME NEW d \in Dirs PROVE synced'[d] \subseteq Recorded(d)'
      <3>1. CASE up /\ conf.aof /\ d = conf.dir
        BY <1>7, <3>1, RecordedType, NoneAssumption DEF Second, Recorded
      <3>2. CASE ~(up /\ conf.aof /\ d = conf.dir)
        <4>1. synced'[d] = synced[d] /\ aof' = aof
          BY <1>7, <3>2 DEF Second
        <4> QED
          BY <4>1, RecordedType DEF Recorded
      <3> QED
        BY <3>1, <3>2
    <2> QED
      BY <1>7, <2>1, <2>2 DEF Second
  <1>8. CASE Snapshot
    <2>1. rdb' \in [Dirs \X Files -> SUBSET Writes]
      BY <1>8 DEF Snapshot
    <2> QED
      BY <1>8, <2>1 DEF Snapshot, Recorded
  <1>9. CASE Kill
    BY <1>9 DEF Kill, Excuse, Recorded
  <1>10. CASE PowerLoss
    <2>1. PICK w \in 0 .. MaxWrites :
              aof' = [d \in Dirs |-> IF aof[d] = None THEN None
                                     ELSE synced[d] \cup {v \in aof[d] : v <= w}]
      BY <1>10 DEF PowerLoss
    <2>2. aof' \in [Dirs -> {None} \cup SUBSET Writes]
      BY <2>1
    <2>3. ASSUME NEW d \in Dirs PROVE synced'[d] \subseteq Recorded(d)'
      BY <1>10, <2>1, RecordedType, NoneAssumption DEF PowerLoss, Recorded
    <2>4. open' \in [Handles -> Objects]
      BY <1>10 DEF PowerLoss
    <2> QED
      BY <1>10, <2>2, <2>3, <2>4 DEF PowerLoss, Excuse
  <1>11. CASE UNCHANGED vars
    BY <1>11 DEF vars, Recorded
  <1> QED
    BY <1>1, <1>2, <1>3, <1>4, <1>5, <1>6, <1>7, <1>8, <1>9, <1>10, <1>11 DEF Next

\* Every variable keeps its shape, whatever objects ask for and whatever fails.
THEOREM TypeCorrect == Spec => []TypeOK
  <1>1. Init => TypeOK
    BY DEF Init, TypeOK, Recorded
  <1> QED
    BY <1>1, TypeKept, PTL DEF Spec

-----------------------------------------------------------------------------
(* Durability, if the objects of a path ask for the same.                  *)

\* The objects that are open agree, and connect has accepted what they ask for.
Agreed ==
    /\ \A g, h \in Handles : open[g] # None /\ open[h] # None =>
          open[g].path = open[h].path /\ open[g].req = open[h].req
    /\ \A h \in Handles : open[h] # None => Accepts(open[h].path, open[h].req.durable)

\* A server has somebody who uses it, and the configuration that its users ask for.
AsAsked ==
    up => /\ \E h \in Handles : open[h] # None
          /\ \A h \in Handles : open[h] # None => conf = Configured(open[h].path, open[h].req)

\* What was promised under everysec is fsynced, or about to be in this second by
\* a running server that has it in its file.
Pending(w) ==
    w \in recent /\ up /\ conf.aof /\ conf.fsync = "everysec" /\ w \in aof[conf.dir]
Settled == \A w \in promised["everysec"] : w \in Fsynced \/ Pending(w)

IInv == TypeOK /\ Agreed /\ AsAsked /\ AlwaysKept /\ Settled

\* What is fsynced stays so if no file loses any of it.
LEMMA FsyncedGrows ==
    ASSUME \A d \in Dirs : synced[d] \subseteq synced'[d]
    PROVE  Fsynced \subseteq Fsynced'
  BY DEF Fsynced

\* Opening: who starts or joins a server asks for what the others ask for.
LEMMA OpenKeeps ==
    ASSUME IInv, Agree, TypeOK', NEW h \in Handles, NEW p \in Paths, NEW r \in Requests[p],
           Start(h, p, r) \/ Attach(h, p, r)
    PROVE  IInv'
  <1> USE DEF IInv
  <1>1. /\ open[h] = None /\ Accepts(p, r.durable)
        /\ \A g \in Handles : open[g] # None => open[g].path = p /\ open[g].req = r
        /\ open' = [open EXCEPT ![h] = [path |-> p, req |-> r]]
        /\ synced' = synced /\ promised' = promised /\ recent' = recent
    BY DEF Start, Attach, MayOpen, promises, disk
  <1>2. /\ open'[h].path = p /\ open'[h].req = r /\ open'[h] # None
        /\ \A g \in Handles \ {h} : open'[g] = open[g]
    BY <1>1, NoneAssumption DEF TypeOK
  <1>3. \A g \in Handles : open'[g] # None => open'[g].path = p /\ open'[g].req = r
    BY <1>1, <1>2
  <1>4. Agreed'
    BY <1>1, <1>3 DEF Agreed
  <1>5. AlwaysKept' /\ Fsynced' = Fsynced
    BY <1>1 DEF AlwaysKept, Fsynced
  <1>6. CASE Start(h, p, r)
    <2>1. ~up /\ conf' = Configured(p, r)
      BY <1>6 DEF Start
    <2>2. AsAsked'
      BY <1>2, <1>3, <2>1 DEF AsAsked
    <2>3. Settled'
      BY <1>1, <1>5, <2>1 DEF Settled, Pending
    <2> QED
      BY <1>4, <1>5, <2>2, <2>3
  <1>7. CASE Attach(h, p, r)
    <2>1. up /\ UNCHANGED <<up, conf, mem, aof>>
      BY <1>7 DEF Attach, server, disk
    <2>2. PICK g \in Handles : open[g] # None /\ conf = Configured(open[g].path, open[g].req)
      BY <2>1 DEF AsAsked
    <2>3. conf' = Configured(p, r)
      BY <1>1, <2>1, <2>2
    <2>4. AsAsked'
      BY <1>2, <1>3, <2>3 DEF AsAsked
    <2>5. Settled'
      BY <1>1, <1>5, <2>1 DEF Settled, Pending
    <2> QED
      BY <1>4, <1>5, <2>4, <2>5
  <1> QED
    BY <1>6, <1>7

\* Writing: what is promised is fsynced at once, or pending.
LEMMA WriteKeeps ==
    ASSUME IInv, TypeOK', NEW h \in Handles, Write(h)
    PROVE  IInv'
  <1> USE DEF IInv
  <1>1. PICK w \in Writes :
           /\ open[h] # None /\ up
           /\ mem' = mem \cup {w}
           /\ aof' = IF conf.aof THEN [aof EXCEPT ![conf.dir] = @ \cup {w}] ELSE aof
           /\ synced' = IF conf.aof /\ conf.fsync = "always"
                        THEN [synced EXCEPT ![conf.dir] = aof'[conf.dir]] ELSE synced
           /\ promised' = [level \in {"always", "everysec"} |->
                 promised[level] \cup (IF Level(open[h].req) = level THEN {w} ELSE {})]
           /\ recent' = recent \cup {w}
           /\ UNCHANGED <<open, up, conf>>
    BY DEF Write
  <1>2. conf = Configured(open[h].path, open[h].req) /\ Accepts(open[h].path, open[h].req.durable)
    BY <1>1 DEF AsAsked, Agreed
  <1>3. conf.dir \in Dirs
    BY <1>1 DEF TypeOK
  <1>4. ASSUME NEW level \in {"always", "everysec"}, Level(open[h].req) = level
        PROVE  conf.aof /\ conf.fsync = level
    BY <1>2, <1>4, LevelConfigured
  <1>5. conf.aof => aof'[conf.dir] = mem' /\ mem \subseteq mem' /\ w \in mem' /\ aof[conf.dir] = mem
    BY <1>1, <1>3 DEF TypeOK
  <1>6. ASSUME NEW d \in Dirs PROVE synced[d] \subseteq synced'[d]
    <2>1. CASE conf.aof /\ conf.fsync = "always" /\ d = conf.dir
      <3>1. synced'[d] = mem'
        BY <1>1, <1>3, <1>5, <2>1 DEF TypeOK
      <3>2. synced[d] \subseteq mem
        BY <1>3, <1>5, <2>1, RecordedType, NoneAssumption DEF Recorded, TypeOK
      <3> QED
        BY <1>5, <2>1, <3>1, <3>2
    <2>2. CASE ~(conf.aof /\ conf.fsync = "always" /\ d = conf.dir)
      BY <1>1, <2>2 DEF TypeOK
    <2> QED
      BY <2>1, <2>2
  <1>7. Fsynced \subseteq Fsynced'
    BY <1>6, FsyncedGrows
  <1>8. AlwaysKept'
    <2>1. CASE Level(open[h].req) = "always"
      <3>1. w \in synced'[conf.dir]
        BY <1>1, <1>3, <1>4, <1>5, <2>1 DEF TypeOK
      <3>2. w \in Fsynced'
        BY <1>3, <3>1 DEF Fsynced
      <3> QED
        BY <1>1, <1>7, <2>1, <3>2 DEF AlwaysKept
    <2>2. CASE Level(open[h].req) # "always"
      BY <1>1, <1>7, <2>2 DEF AlwaysKept
    <2> QED
      BY <2>1, <2>2
  <1>9. Settled'
    <2> SUFFICES ASSUME NEW v \in promised'["everysec"], v \notin Fsynced' PROVE Pending(v)'
      BY DEF Settled
    <2>1. CASE v \in promised["everysec"]
      <3>1. Pending(v)
        BY <1>7, <2>1 DEF Settled
      <3> QED
        BY <1>1, <1>5, <3>1 DEF Pending
    <2>2. CASE v \notin promised["everysec"]
      <3>1. v = w /\ Level(open[h].req) = "everysec"
        BY <1>1, <2>2
      <3> QED
        BY <1>1, <1>4, <1>5, <3>1 DEF Pending
    <2> QED
      BY <2>1, <2>2
  <1>10. Agreed' /\ AsAsked'
    BY <1>1 DEF Agreed, AsAsked
  <1> QED
    BY <1>8, <1>9, <1>10

\* The end of a server, orderly or not, and of whoever used it.
LEMMA EndKeeps ==
    ASSUME IInv, TypeOK', ~up',
           \A h \in Handles : open'[h] \in {open[h], None},
           promised'["always"] = promised["always"],
           Fsynced \subseteq Fsynced', promised'["everysec"] \subseteq Fsynced'
    PROVE  IInv'
  BY DEF IInv, Agreed, AsAsked, AlwaysKept, Settled

\* A crash excuses what was pending.
LEMMA ExcuseSettles ==
    ASSUME IInv, Excuse
    PROVE  /\ promised'["always"] = promised["always"]
           /\ promised'["everysec"] \subseteq Fsynced
  BY DEF IInv, Excuse, TypeOK, Settled, Pending

\* An orderly end fsyncs it.
LEMMA StopKeeps ==
    ASSUME IInv, TypeOK', NEW h \in Handles, Stop(h)
    PROVE  IInv'
  <1> USE DEF IInv
  <1>1. /\ open[h] # None /\ up
        /\ synced' = IF conf.aof THEN [synced EXCEPT ![conf.dir] = aof[conf.dir]] ELSE synced
        /\ ~up' /\ open' = [open EXCEPT ![h] = None] /\ promised' = promised
    BY DEF Stop
  <1>2. conf.dir \in Dirs /\ (conf.aof => aof[conf.dir] = mem /\ mem \subseteq Writes)
    BY <1>1 DEF TypeOK
  <1>3. ASSUME NEW d \in Dirs PROVE synced[d] \subseteq synced'[d]
    BY <1>1, <1>2, RecordedType, NoneAssumption DEF Recorded, TypeOK
  <1>4. Fsynced \subseteq Fsynced'
    BY <1>3, FsyncedGrows
  <1>5. ASSUME NEW w, Pending(w) PROVE w \in Fsynced'
    BY <1>1, <1>2, <1>5 DEF Pending, Fsynced, TypeOK
  <1>6. promised'["everysec"] \subseteq Fsynced'
    BY <1>1, <1>4, <1>5 DEF Settled
  <1>7. \A g \in Handles : open'[g] \in {open[g], None}
    BY <1>1 DEF TypeOK
  <1> QED
    BY <1>1, <1>4, <1>6, <1>7, EndKeeps

\* So does the end of a second.
LEMMA SecondKeeps ==
    ASSUME IInv, TypeOK', Second
    PROVE  IInv'
  <1> USE DEF IInv
  <1>1. /\ synced' = IF up /\ conf.aof /\ conf.fsync = "everysec"
                     THEN [synced EXCEPT ![conf.dir] = aof[conf.dir]] ELSE synced
        /\ UNCHANGED <<open, up, conf, promised>>
    BY DEF Second, server
  <1>2. up => conf.dir \in Dirs /\ (conf.aof => aof[conf.dir] = mem /\ mem \subseteq Writes)
    BY DEF TypeOK
  <1>3. ASSUME NEW d \in Dirs PROVE synced[d] \subseteq synced'[d]
    BY <1>1, <1>2, RecordedType, NoneAssumption DEF Recorded, TypeOK
  <1>4. Fsynced \subseteq Fsynced'
    BY <1>3, FsyncedGrows
  <1>5. ASSUME NEW w, Pending(w) PROVE w \in Fsynced'
    BY <1>1, <1>2, <1>5 DEF Pending, Fsynced, TypeOK
  <1>6. Settled' /\ AlwaysKept'
    BY <1>1, <1>4, <1>5 DEF Settled, AlwaysKept
  <1>7. Agreed' /\ AsAsked'
    BY <1>1 DEF Agreed, AsAsked
  <1> QED
    BY <1>6, <1>7

LEMMA StepKeeps == Agree /\ IInv /\ [Next]_vars => IInv'
  <1> SUFFICES ASSUME Agree, IInv, [Next]_vars PROVE IInv'
    OBVIOUS
  <1>0. TypeOK'
    BY TypeKept DEF IInv
  <1>1. ASSUME NEW h \in Handles, NEW p \in Paths, NEW r \in Requests[p],
               Start(h, p, r) \/ Attach(h, p, r)
        PROVE  IInv'
    BY <1>0, <1>1, OpenKeeps
  <1>2. ASSUME NEW h \in Handles, Write(h) PROVE IInv'
    BY <1>0, <1>2, WriteKeeps
  <1>3. ASSUME NEW h \in Handles, Stop(h) PROVE IInv'
    BY <1>0, <1>3, StopKeeps
  <1>4. ASSUME NEW h \in Handles, StopUnsaved(h) PROVE IInv'
    <2>1. Excuse /\ ~up' /\ open' = [open EXCEPT ![h] = None] /\ synced' = synced
      BY <1>4 DEF StopUnsaved, disk
    <2>2. \A g \in Handles : open'[g] \in {open[g], None}
      BY <2>1 DEF IInv, TypeOK
    <2>3. Fsynced' = Fsynced
      BY <2>1 DEF Fsynced
    <2> QED
      BY <1>0, <2>1, <2>2, <2>3, ExcuseSettles, EndKeeps
  <1>5. ASSUME NEW h \in Handles, Leave(h) PROVE IInv'
    <2>1. /\ open' = [open EXCEPT ![h] = None] /\ open[h] # None /\ (~Last(h) \/ ~up)
          /\ UNCHANGED <<up, conf, aof, synced, promised, recent>>
      BY <1>5 DEF Leave, server, disk, promises
    <2>2. \A g \in Handles : open'[g] = IF g = h THEN None ELSE open[g]
      BY <2>1 DEF IInv, TypeOK
    <2>3. Agreed'
      BY <2>2 DEF IInv, Agreed
    <2>4. AsAsked'
      BY <2>1, <2>2 DEF IInv, AsAsked, Last
    <2>5. AlwaysKept' /\ Settled'
      BY <2>1 DEF IInv, AlwaysKept, Settled, Pending, Fsynced
    <2> QED
      BY <1>0, <2>3, <2>4, <2>5 DEF IInv
  <1>6. CASE Second
    BY <1>0, <1>6, SecondKeeps
  <1>7. CASE Snapshot
    <2>1. UNCHANGED <<open, up, conf, aof, synced, promised, recent>>
      BY <1>7 DEF Snapshot, server, promises
    <2> QED
      BY <1>0, <2>1 DEF IInv, Agreed, AsAsked, AlwaysKept, Settled, Pending, Fsynced
  <1>8. CASE Kill
    <2>1. Excuse /\ ~up' /\ open' = open /\ synced' = synced
      BY <1>8 DEF Kill, disk
    <2>2. Fsynced' = Fsynced
      BY <2>1 DEF Fsynced
    <2> QED
      BY <1>0, <2>1, <2>2, ExcuseSettles, EndKeeps
  <1>9. CASE PowerLoss
    <2>1. Excuse /\ ~up' /\ open' = [h \in Handles |-> None] /\ synced' = synced
      BY <1>9 DEF PowerLoss
    <2>2. Fsynced' = Fsynced
      BY <2>1 DEF Fsynced
    <2> QED
      BY <1>0, <2>1, <2>2, ExcuseSettles, EndKeeps
  <1>10. CASE UNCHANGED vars
    <2>1. UNCHANGED <<open, up, conf, aof, synced, promised, recent>>
      BY <1>10 DEF vars, server, disk, promises
    <2> QED
      BY <1>0, <2>1 DEF IInv, Agreed, AsAsked, AlwaysKept, Settled, Pending, Fsynced
  <1> QED
    BY <1>1, <1>2, <1>3, <1>4, <1>5, <1>6, <1>7, <1>8, <1>9, <1>10 DEF Next

\* If the objects of a path ask for the same, all that IInv says always holds.
LEMMA Durable == Agree => (Spec => []IInv)
  <1> SUFFICES ASSUME Agree PROVE Spec => []IInv
    OBVIOUS
  <1>1. Init => IInv
    BY DEF Init, IInv, TypeOK, Recorded, Agreed, AsAsked, AlwaysKept, Settled
  <1>2. IInv /\ [Next]_vars => IInv'
    BY StepKeeps
  <1> QED
    BY <1>1, <1>2, PTL DEF Spec

\* What was acknowledged under durable="always" is on disk whatever crashes, for
\* every path, request and override.
THEOREM Always == Agree => (Spec => []AlwaysKept)
  <1>1. IInv => AlwaysKept
    BY DEF IInv
  <1> QED
    BY <1>1, Durable, PTL

\* Of what was acknowledged under everysec, a crash takes the last second at most.
THEOREM EverySecond == Agree => (Spec => []OneSecondLost)
  <1>1. IInv => OneSecondLost
    BY DEF IInv, Settled, Pending, OneSecondLost
  <1> QED
    BY <1>1, Durable, PTL

-----------------------------------------------------------------------------
(* Whose data they are: the server of a path and what it finds.            *)

\* No request leads away from the directory of its path.
Homed == \A p \in Paths : \A r \in Requests[p] : Configured(p, r).dir = p[1]

\* That is so for requests that do not override dir and dbdir, or remove dir.
LEMMA HomeByDefault ==
    ASSUME NEW p \in Paths, NEW r \in Requests[p], Accepts(p, r.durable), <<p[1]>> # None,
           "dbdir" \notin DOMAIN r.config,
           "dir" \in DOMAIN r.config => r.config["dir"] = None
    PROVE  Configured(p, r).dir = p[1]
  <1> DEFINE s == ServerConfig(r.durable, r.config)
             o == Overrides(p, r)
             merged == Over(o, Defaults)
  <1>1. "dbdir" \notin DOMAIN s /\ ("dir" \in DOMAIN s => s["dir"] = None)
    <2>1. CASE r.durable = "no"
      BY <2>1 DEF ServerConfig
    <2>2. CASE r.durable # "no"
      <3>1. /\ "dbdir" \notin DOMAIN Presets[r.durable]
            /\ "dir" \notin DOMAIN Presets[r.durable]
        BY <2>2 DEF Accepts, Presets
      <3> QED
        BY <2>2, <3>1 DEF ServerConfig, Over
    <2> QED
      BY <2>1, <2>2
  <1>2. /\ "dbdir" \in DOMAIN o /\ o["dbdir"] = <<p[1]>>
        /\ "dir" \in DOMAIN o => o["dir"] = None
    BY <1>1 DEF Overrides, Over
  <1>3. /\ "dbdir" \in DOMAIN merged /\ merged["dbdir"] = <<p[1]>>
        /\ "dir" \in DOMAIN merged => merged["dir"] = None
    BY <1>2 DEF Over, Defaults
  <1>4. /\ "dbdir" \in DOMAIN Settings(o) /\ Settings(o)["dbdir"] = <<p[1]>>
        /\ "dir" \notin DOMAIN Settings(o)
    BY <1>3 DEF Settings
  <1>5. Lines(o, "dir") = <<p[1]>>
    BY <1>4 DEF Lines, DirLines
  <1>6. Reads(o, "dir") = p[1]
    <2>1. <<p[1]>> # << >> /\ <<p[1]>>[Len(<<p[1]>>)] = p[1]
      OBVIOUS
    <2> QED
      BY <1>5, <2>1 DEF Reads
  <1> QED
    BY <1>6 DEF Configured, Daemon

\* Those who have something open have the same path open, and the server is one
\* that a request for it has configured.
OnePath ==
    \A g, h \in Handles : open[g] # None /\ open[h] # None => open[g].path = open[h].path
Serves(p) == \E r \in Requests[p] : conf = Configured(p, r)
Asked == up => \E h \in Handles : open[h] # None /\ Serves(open[h].path)
UseInv == TypeOK /\ OnePath /\ Asked

LEMMA UseKept == UseInv /\ [Next]_vars => UseInv'
  <1> SUFFICES ASSUME UseInv, [Next]_vars PROVE UseInv'
    OBVIOUS
  <1>t. TypeOK /\ TypeOK'
    BY TypeKept DEF UseInv
  <1> USE DEF UseInv, server, disk, promises
  <1>1. ASSUME NEW h \in Handles, NEW p \in Paths, NEW r \in Requests[p],
               Start(h, p, r) \/ Attach(h, p, r)
        PROVE  UseInv'
    <2>1. /\ open[h] = None /\ open' = [open EXCEPT ![h] = [path |-> p, req |-> r]]
          /\ \A g \in Handles : open[g] # None => open[g].path = p
      BY <1>1 DEF Start, Attach, MayOpen
    <2>2. /\ open'[h] # None /\ open'[h].path = p
          /\ \A g \in Handles : open'[g] # None => open'[g].path = p
      BY <1>t, <2>1, NoneAssumption DEF TypeOK
    <2>3. Serves(p)'
      <3>1. CASE Start(h, p, r)
        BY <3>1 DEF Start, Serves
      <3>2. CASE Attach(h, p, r)
        <4>1. up /\ conf' = conf
          BY <3>2 DEF Attach
        <4> QED
          BY <2>1, <4>1 DEF Asked, Serves
      <3> QED
        BY <1>1, <3>1, <3>2
    <2> QED
      BY <1>t, <2>2, <2>3 DEF OnePath, Asked
  <1>2. ASSUME NEW h \in Handles, Leave(h) PROVE UseInv'
    <2>1. /\ \A g \in Handles : open'[g] = IF g = h THEN None ELSE open[g]
          /\ UNCHANGED <<up, conf>> /\ (~Last(h) \/ ~up)
      BY <1>2, <1>t DEF Leave, TypeOK
    <2>2. Asked'
      BY <2>1 DEF Asked, Serves, Last, OnePath
    <2> QED
      BY <1>t, <2>1, <2>2 DEF OnePath
  <1>3. ASSUME ~up', \A h \in Handles : open'[h] \in {open[h], None} PROVE UseInv'
    BY <1>t, <1>3 DEF OnePath, Asked
  <1>4. ASSUME UNCHANGED <<open, up, conf>> PROVE UseInv'
    BY <1>t, <1>4 DEF OnePath, Asked, Serves
  <1>5. ASSUME NEW h \in Handles, Write(h) \/ Stop(h) \/ StopUnsaved(h) PROVE UseInv'
    <2>1. CASE Write(h)
      BY <2>1, <1>4 DEF Write
    <2>2. CASE Stop(h) \/ StopUnsaved(h)
      BY <2>2, <1>t, <1>3 DEF Stop, StopUnsaved, TypeOK
    <2> QED
      BY <1>5, <2>1, <2>2
  <1>6. CASE Second \/ Snapshot \/ UNCHANGED vars
    BY <1>6, <1>4 DEF Second, Snapshot, vars
  <1>7. CASE Kill \/ PowerLoss
    BY <1>7, <1>3 DEF Kill, PowerLoss
  <1> QED
    BY <1>1, <1>2, <1>5, <1>6, <1>7 DEF Next

LEMMA UseCorrect == Spec => []UseInv
  <1>1. Init => UseInv
    BY DEF Init, UseInv, OnePath, Asked, TypeOK, Recorded
  <1> QED
    BY <1>1, UseKept, PTL DEF Spec

\* Where a path that is open has its data.
LEMMA OpenPath ==
    ASSUME Homed, UseInv, up, NEW h \in Handles, open[h] # None
    PROVE  /\ Serves(open[h].path) /\ open[h].path \in Paths /\ conf.dir = open[h].path[1]
           /\ File = open[h].path[2] /\ <<conf.dir, open[h].path[2]>> = open[h].path
  <1>1. open[h].path \in Paths
    BY OpenHas DEF UseInv
  <1>2. Serves(open[h].path)
    BY DEF UseInv, Asked, OnePath
  <1>3. conf.dir = open[h].path[1]
    BY <1>1, <1>2 DEF Serves, Homed
  <1>4. File = open[h].path[2]
    BY DEF File, UseInv, OnePath
  <1> QED
    BY <1>1, <1>2, <1>3, <1>4, PathsAssumption

\* The place of a path.
LEMMA PathPlace == ASSUME NEW p \in Paths PROVE p[1] \in Dirs /\ p[2] \in Files /\ p \in Dirs \X Files
  BY PathsAssumption DEF Dirs, Files
-----------------------------------------------------------------------------
(* What was there at a close.                                              *)

\* The requests for one path agree about the append-only file.
Uniform ==
    \A p \in Paths : \A r, s \in Requests[p] : Configured(p, r).aof = Configured(p, s).aof

\* What a server had when it was closed is fsynced or in the snapshot, wherever
\* the next one looks, and a server that runs has loaded it.
KeptSafe ==
    \A p \in Paths : \A r \in Requests[p] :
        kept[p] \subseteq IF Configured(p, r).aof THEN synced[p[1]] ELSE rdb[p]
KeptLoaded == up => \A h \in Handles : open[h] # None => kept[open[h].path] \subseteq mem
KeptInv == KeptSafe /\ KeptLoaded

\* A step that writes no snapshot and closes nothing.
LEMMA SafeStays ==
    ASSUME KeptSafe, TypeOK, kept' = kept, rdb' = rdb, \A d \in Dirs : synced[d] \subseteq synced'[d]
    PROVE  KeptSafe'
  BY PathPlace DEF KeptSafe

\* No append-only file loses what is fsynced.
LEMMA SyncedStays ==
    ASSUME TypeOK, [Next]_vars PROVE \A d \in Dirs : synced[d] \subseteq synced'[d]
  <1> USE DEF server, disk, promises
  <1> SUFFICES ASSUME NEW d \in Dirs PROVE synced[d] \subseteq synced'[d]
    OBVIOUS
  <1>1. synced[d] \subseteq Recorded(d) /\ None \notin SUBSET Writes
    BY RecordedType, NoneAssumption
  <1>2. ASSUME NEW h \in Handles, Write(h) PROVE synced[d] \subseteq synced'[d]
    <2>1. PICK w \in Writes :
             /\ up
             /\ aof' = IF conf.aof THEN [aof EXCEPT ![conf.dir] = @ \cup {w}] ELSE aof
             /\ synced' = IF conf.aof /\ conf.fsync = "always"
                          THEN [synced EXCEPT ![conf.dir] = aof'[conf.dir]] ELSE synced
      BY <1>2 DEF Write
    <2>2. CASE conf.aof /\ conf.fsync = "always" /\ d = conf.dir
      <3>1. aof[d] = mem /\ mem \in SUBSET Writes
        BY <2>1, <2>2 DEF TypeOK
      <3>2. synced'[d] = aof[d] \cup {w}
        BY <2>1, <2>2 DEF TypeOK
      <3> QED
        BY <1>1, <3>1, <3>2 DEF Recorded
    <2>3. CASE ~(conf.aof /\ conf.fsync = "always" /\ d = conf.dir)
      BY <2>1, <2>3 DEF TypeOK
    <2> QED
      BY <2>2, <2>3
  <1>3. ASSUME up, conf.aof, synced' = [synced EXCEPT ![conf.dir] = aof[conf.dir]]
        PROVE  synced[d] \subseteq synced'[d]
    <2>1. CASE d = conf.dir
      <3>1. aof[d] = mem /\ mem \in SUBSET Writes
        BY <1>3, <2>1 DEF TypeOK
      <3>2. synced'[d] = aof[d]
        BY <1>3, <2>1 DEF TypeOK
      <3> QED
        BY <1>1, <3>1, <3>2 DEF Recorded
    <2>2. CASE d # conf.dir
      BY <1>3, <2>2 DEF TypeOK
    <2> QED
      BY <2>1, <2>2
  <1>4. ASSUME NEW h \in Handles, Stop(h) \/ StopUnsaved(h) \/ Leave(h)
        PROVE  synced[d] \subseteq synced'[d]
    BY <1>4, <1>3 DEF Stop, StopUnsaved, Leave
  <1>5. ASSUME NEW h \in Handles, NEW p \in Paths, NEW r \in Requests[p],
               Start(h, p, r) \/ Attach(h, p, r)
        PROVE  synced' = synced
    BY <1>5 DEF Start, Attach
  <1>6. CASE Second
    BY <1>6, <1>3 DEF Second
  <1>7. CASE Snapshot \/ Kill \/ PowerLoss \/ UNCHANGED vars
    BY <1>7 DEF Snapshot, Kill, PowerLoss, vars
  <1> QED
    BY <1>2, <1>4, <1>5, <1>6, <1>7 DEF Next

LEMMA KeptStep ==
    ASSUME Homed, Uniform, UseInv, KeptInv, [Next]_vars PROVE KeptInv'
  <1> USE DEF server, disk, promises
  <1>t. TypeOK /\ TypeOK' /\ UseInv'
    BY UseKept DEF UseInv
  <1>s. \A d \in Dirs : synced[d] \subseteq synced'[d]
    BY <1>t, SyncedStays
  <1>d. ASSUME kept' = kept, rdb' = rdb, ~up' PROVE KeptInv'
    BY <1>t, <1>s, <1>d, SafeStays DEF KeptInv, KeptLoaded
  <1>1. ASSUME NEW h \in Handles, NEW p \in Paths, NEW r \in Requests[p],
               Start(h, p, r) \/ Attach(h, p, r)
        PROVE  KeptInv'
    <2>1. kept' = kept /\ rdb' = rdb
      BY <1>1 DEF Start, Attach
    <2>2. KeptSafe'
      BY <1>t, <1>s, <2>1, SafeStays DEF KeptInv
    <2>3. \A g \in Handles : open'[g] # None => open'[g].path = p
      BY <1>1, <1>t, NoneAssumption DEF Start, Attach, MayOpen, TypeOK
    <2>4. kept[p] \subseteq mem'
      <3>1. CASE Start(h, p, r)
        <4> DEFINE c == Configured(p, r)
        <4>1. mem' = Loads(c, p[2]) /\ c.dir = p[1]
          BY <3>1 DEF Start, Homed
        <4>2. c.aof => kept[p] \subseteq Recorded(p[1])
          BY <1>t, RecordedType, PathPlace DEF KeptInv, KeptSafe
        <4>3. ~c.aof => kept[p] \subseteq rdb[<<p[1], p[2]>>]
          BY PathsAssumption DEF KeptInv, KeptSafe
        <4> QED
          BY <4>1, <4>2, <4>3 DEF Loads
      <3>2. CASE Attach(h, p, r)
        <4>1. up /\ mem' = mem
          BY <3>2 DEF Attach
        <4>2. PICK g \in Handles : open[g] # None
          BY <4>1 DEF UseInv, Asked
        <4>3. open[g].path = p
          BY <3>2, <4>2 DEF Attach, MayOpen
        <4> QED
          BY <4>1, <4>2, <4>3 DEF KeptInv, KeptLoaded
      <3> QED
        BY <1>1, <3>1, <3>2
    <2> QED
      BY <2>1, <2>2, <2>3, <2>4 DEF KeptInv, KeptLoaded
  <1>2. ASSUME NEW h \in Handles, Write(h) PROVE KeptInv'
    <2>1. kept' = kept /\ rdb' = rdb /\ UNCHANGED <<open, up>> /\ mem \subseteq mem'
      BY <1>2 DEF Write
    <2>2. KeptSafe'
      BY <1>t, <1>s, <2>1, SafeStays DEF KeptInv
    <2> QED
      BY <2>1, <2>2 DEF KeptInv, KeptLoaded
  <1>3. ASSUME NEW h \in Handles, Stop(h) PROVE KeptInv'
    <2> DEFINE p == open[h].path
    <2>1. /\ open[h] # None /\ up /\ ~up'
          /\ rdb' = IF Saves(open[h].req) THEN [rdb EXCEPT ![<<conf.dir, p[2]>>] = mem] ELSE rdb
          /\ kept' = IF open[h].req.persist THEN [kept EXCEPT ![p] = @ \cup mem] ELSE kept
          /\ synced' = IF conf.aof THEN [synced EXCEPT ![conf.dir] = aof[conf.dir]] ELSE synced
      BY <1>3 DEF Stop
    <2>2. /\ Serves(p) /\ p \in Paths /\ conf.dir = p[1] /\ <<conf.dir, p[2]>> = p
          /\ p[1] \in Dirs /\ p \in Dirs \X Files
      BY <2>1, OpenPath, PathPlace
    <2>3. kept[p] \subseteq mem
      BY <2>1 DEF KeptInv, KeptLoaded
    <2>4. kept'[p] \subseteq mem /\ \A q \in Paths \ {p} : kept'[q] = kept[q] /\ rdb'[q] = rdb[q]
      BY <1>t, <2>1, <2>2, <2>3, PathPlace DEF TypeOK
    <2>5. CASE ~open[h].req.persist
      BY <1>t, <1>s, <1>d, <2>1, <2>5 DEF Saves
    <2>6. CASE open[h].req.persist
      <3>1. rdb'[p] = mem
        BY <1>t, <2>1, <2>2, <2>6 DEF Saves, TypeOK
      <3>2. conf.aof => synced'[p[1]] = mem
        BY <1>t, <2>1, <2>2 DEF TypeOK
      <3>3. \A r \in Requests[p] : Configured(p, r).aof = conf.aof
        BY <2>2 DEF Uniform, Serves
      <3>4. \A r \in Requests[p] :
               kept'[p] \subseteq IF Configured(p, r).aof THEN synced'[p[1]] ELSE rdb'[p]
        BY <2>4, <3>1, <3>2, <3>3
      <3>5. \A q \in Paths \ {p} : \A r \in Requests[q] :
               kept'[q] \subseteq IF Configured(q, r).aof THEN synced'[q[1]] ELSE rdb'[q]
        BY <1>s, <2>4, PathPlace DEF KeptInv, KeptSafe
      <3> QED
        BY <2>1, <3>4, <3>5 DEF KeptInv, KeptSafe, KeptLoaded
    <2> QED
      BY <2>5, <2>6
  <1>4. ASSUME NEW h \in Handles, Leave(h) PROVE KeptInv'
    <2>1. /\ kept' = kept /\ rdb' = rdb /\ UNCHANGED <<up, mem>>
          /\ \A g \in Handles : open'[g] \in {open[g], None}
      BY <1>4, <1>t DEF Leave, TypeOK
    <2>2. KeptSafe'
      BY <1>t, <1>s, <2>1, SafeStays DEF KeptInv
    <2> QED
      BY <2>1, <2>2 DEF KeptInv, KeptLoaded
  <1>5. CASE Snapshot
    <2>1. up /\ Here /\ rdb' = [rdb EXCEPT ![<<conf.dir, File>>] = mem] /\ UNCHANGED <<open, up, mem, kept, synced>>
      BY <1>5 DEF Snapshot
    <2>2. PICK h \in Handles : open[h] # None
      BY <2>1 DEF Here
    <2> DEFINE p == open[h].path
    <2>3. p \in Paths /\ <<conf.dir, File>> = p
      BY <2>1, <2>2, OpenPath
    <2>4. \A q \in Paths : kept[q] \subseteq rdb[q] => kept[q] \subseteq rdb'[q]
      <3>1. kept[p] \subseteq mem
        BY <2>1, <2>2 DEF KeptInv, KeptLoaded
      <3>2. \A q \in Paths : rdb'[q] = IF q = p THEN mem ELSE rdb[q]
        BY <1>t, <2>1, <2>3, PathPlace DEF TypeOK
      <3> QED
        BY <3>1, <3>2
    <2> QED
      BY <2>1, <2>4 DEF KeptInv, KeptSafe, KeptLoaded
  <1>6. CASE Second \/ UNCHANGED vars
    <2>1. kept' = kept /\ rdb' = rdb /\ UNCHANGED <<open, up, mem>>
      BY <1>6 DEF Second, vars
    <2>2. KeptSafe'
      BY <1>t, <1>s, <2>1, SafeStays DEF KeptInv
    <2> QED
      BY <2>1, <2>2 DEF KeptInv, KeptLoaded
  <1>7. ASSUME NEW h \in Handles, StopUnsaved(h) PROVE KeptInv'
    <2> DEFINE p == open[h].path
    <2>1. /\ open[h] # None /\ up /\ ~up' /\ UNCHANGED <<rdb, synced>>
          /\ kept' = IF conf.aof THEN [kept EXCEPT ![p] = @ \cup synced[conf.dir]] ELSE kept
      BY <1>7 DEF StopUnsaved
    <2>2. Serves(p) /\ p \in Paths /\ conf.dir = p[1]
      BY <2>1, OpenPath
    <2>3. CASE ~conf.aof
      BY <1>d, <2>1, <2>3
    <2>4. CASE conf.aof
      <3>1. /\ kept'[p] = kept[p] \cup synced[p[1]]
            /\ \A q \in Paths \ {p} : kept'[q] = kept[q]
        BY <1>t, <2>1, <2>2, <2>4 DEF TypeOK
      <3>2. \A r \in Requests[p] : Configured(p, r).aof
        BY <2>2, <2>4 DEF Uniform, Serves
      <3> QED
        BY <2>1, <3>1, <3>2 DEF KeptInv, KeptSafe, KeptLoaded
    <2> QED
      BY <2>3, <2>4
  <1>8. CASE Kill \/ PowerLoss
    BY <1>8, <1>d DEF Kill, PowerLoss, Excuse
  <1> QED
    BY <1>1, <1>2, <1>3, <1>4, <1>5, <1>6, <1>7, <1>8 DEF Next

\* Leaving the with block persists: what the last object of a path has left on disk
\* (Stop, StopUnsaved) is what the next one on the path finds, if it does not leave
\* the directory, and all requests for a path agree whether it uses the append-only
\* file.  The objects may ask for different levels, saves may be refused, and
\* servers and machines may fail.
THEOREM Closed == Homed /\ Uniform => (Spec => []CloseKeeps)
  <1> SUFFICES ASSUME Homed, Uniform PROVE Spec => []CloseKeeps
    OBVIOUS
  <1>1. UseInv /\ KeptInv => CloseKeeps
    <2> SUFFICES ASSUME UseInv, KeptInv, NEW p \in Paths, NEW r \in Requests[p]
                 PROVE  kept[p] \subseteq Loads(Configured(p, r), p[2])
      BY DEF CloseKeeps
    <2>1. Configured(p, r).dir = p[1] /\ p[1] \in Dirs /\ p = <<p[1], p[2]>>
      BY PathPlace, PathsAssumption DEF Homed
    <2>2. synced[p[1]] \subseteq Recorded(p[1])
      BY <2>1, RecordedType DEF UseInv
    <2> QED
      BY <2>1, <2>2 DEF KeptInv, KeptSafe, Loads
  <1>2. Init => KeptInv
    BY DEF Init, KeptInv, KeptSafe, KeptLoaded
  <1>3. UseInv /\ KeptInv /\ [Next]_vars => KeptInv'
    BY KeptStep
  <1> QED
    BY <1>1, <1>2, <1>3, UseCorrect, PTL DEF Spec
-----------------------------------------------------------------------------
(* Nobody else's data.                                                     *)

\* No two paths of one directory use the append-only file.
OneLogged ==
    \A p, q \in Paths : \A r \in Requests[p], s \in Requests[q] :
        Configured(p, r).aof /\ Configured(q, s).aof /\ p[1] = q[1] => p = q

\* The files that a path may load have been written for it, and so has what its
\* server has in memory.
SnapshotsOwn == \A p \in Paths : rdb[p] \subseteq acked[p]
LogsOwn ==
    \A p \in Paths : \A r \in Requests[p] :
        Configured(p, r).aof => Recorded(p[1]) \subseteq acked[p]
MemoryOwn == up => \A h \in Handles : open[h] # None => mem \subseteq acked[open[h].path]
OwnInv == SnapshotsOwn /\ LogsOwn /\ MemoryOwn

\* A step that acknowledges nothing and adds to no file.
LEMMA OwnStays ==
    ASSUME OwnInv, acked' = acked, \A p \in Paths : rdb'[p] \subseteq acked[p],
           \A d \in Dirs : Recorded(d)' \subseteq Recorded(d), MemoryOwn'
    PROVE  OwnInv'
  BY PathPlace DEF OwnInv, SnapshotsOwn, LogsOwn

\* Nor is there anybody to serve afterwards, or it is whom there was before.
LEMMA MemoryStays ==
    ASSUME OwnInv, acked' = acked,
           \/ ~up'
           \/ /\ UNCHANGED <<up, mem>>
              /\ \A h \in Handles : open'[h] \in {open[h], None}
    PROVE  MemoryOwn'
  BY DEF OwnInv, MemoryOwn

LEMMA OwnStep ==
    ASSUME Homed, OneLogged, UseInv, OwnInv, [Next]_vars PROVE OwnInv'
  <1> USE DEF server, disk, promises
  <1>t. TypeOK /\ TypeOK' /\ None \notin SUBSET Writes
    BY TypeKept, NoneAssumption DEF UseInv
  <1>s. \A p \in Paths : rdb[p] \subseteq acked[p]
    BY DEF OwnInv, SnapshotsOwn
  <1>r. ASSUME aof' = aof PROVE \A d \in Dirs : Recorded(d)' \subseteq Recorded(d)
    BY <1>r DEF Recorded
  <1>1. ASSUME NEW h \in Handles, NEW p \in Paths, NEW r \in Requests[p], Start(h, p, r)
        PROVE  OwnInv'
    <2> DEFINE c == Configured(p, r)
    <2>1. /\ mem' = Loads(c, p[2]) /\ c.dir = p[1] /\ p[1] \in Dirs /\ p = <<p[1], p[2]>>
          /\ aof' = IF c.aof THEN [aof EXCEPT ![c.dir] = Loads(c, p[2])] ELSE aof
          /\ acked' = acked /\ rdb' = rdb
      BY <1>1, PathPlace, PathsAssumption DEF Start, Homed
    <2>2. mem' \subseteq acked[p]
      <3>1. CASE c.aof
        BY <2>1, <3>1 DEF Loads, OwnInv, LogsOwn
      <3>2. CASE ~c.aof
        BY <2>1, <3>2, <1>s DEF Loads
      <3> QED
        BY <3>1, <3>2
    <2>3. \A g \in Handles : open'[g] # None => open'[g].path = p
      BY <1>1, <1>t, NoneAssumption DEF Start, MayOpen, TypeOK
    <2>4. MemoryOwn'
      BY <2>1, <2>2, <2>3 DEF MemoryOwn
    <2>5. ASSUME NEW d \in Dirs PROVE Recorded(d)' \subseteq Recorded(d)
      <3>1. CASE c.aof /\ d = p[1]
        <4>1. aof'[d] = Recorded(d)
          BY <1>t, <2>1, <3>1 DEF TypeOK, Loads
        <4> QED
          BY <1>t, <4>1, RecordedType DEF Recorded
      <3>2. CASE ~(c.aof /\ d = p[1])
        <4>1. aof'[d] = aof[d]
          BY <1>t, <2>1, <3>2 DEF TypeOK
        <4> QED
          BY <4>1 DEF Recorded
      <3> QED
        BY <3>1, <3>2
    <2> QED
      BY <1>s, <2>1, <2>4, <2>5, OwnStays
  <1>2. ASSUME NEW h \in Handles, NEW p \in Paths, NEW r \in Requests[p], Attach(h, p, r)
        PROVE  OwnInv'
    <2>1. UNCHANGED <<acked, rdb, aof, mem, up>> /\ up
      BY <1>2 DEF Attach
    <2>2. PICK g \in Handles : open[g] # None
      BY <2>1 DEF UseInv, Asked
    <2>3. open[g].path = p
      BY <1>2, <2>2 DEF Attach, MayOpen
    <2>4. \A k \in Handles : open'[k] # None => open'[k].path = p
      BY <1>2, <1>t, NoneAssumption DEF Attach, MayOpen, TypeOK
    <2>5. mem \subseteq acked[p]
      BY <2>1, <2>2, <2>3 DEF OwnInv, MemoryOwn
    <2>6. MemoryOwn'
      BY <2>1, <2>4, <2>5 DEF MemoryOwn
    <2> QED
      BY <1>s, <1>r, <2>1, <2>6, OwnStays
  <1>3. ASSUME NEW h \in Handles, Write(h) PROVE OwnInv'
    <2> DEFINE p == open[h].path
    <2>1. PICK w \in Writes :
             /\ open[h] # None /\ up
             /\ mem' = mem \cup {w}
             /\ aof' = IF conf.aof THEN [aof EXCEPT ![conf.dir] = @ \cup {w}] ELSE aof
             /\ acked' = [acked EXCEPT ![p] = @ \cup {w}]
             /\ UNCHANGED <<open, up, rdb>>
      BY <1>3 DEF Write
    <2>2. Serves(p) /\ p \in Paths /\ conf.dir = p[1] /\ p[1] \in Dirs
      BY <2>1, OpenPath, PathPlace
    <2>3. /\ acked'[p] = acked[p] \cup {w}
          /\ \A q \in Paths : acked[q] \subseteq acked'[q]
      BY <1>t, <2>1, <2>2 DEF TypeOK
    <2>4. SnapshotsOwn'
      BY <1>s, <2>1, <2>3 DEF SnapshotsOwn
    <2>5. MemoryOwn'
      <3>1. mem \subseteq acked[p]
        BY <2>1 DEF OwnInv, MemoryOwn
      <3>2. \A g \in Handles : open'[g] # None => open'[g].path = p
        BY <2>1 DEF UseInv, OnePath
      <3> QED
        BY <2>1, <2>3, <3>1, <3>2 DEF MemoryOwn
    <2>6. ASSUME NEW q \in Paths, NEW s \in Requests[q], Configured(q, s).aof
          PROVE  Recorded(q[1])' \subseteq acked'[q]
      <3>1. Recorded(q[1]) \subseteq acked[q] /\ q[1] \in Dirs
        BY <2>6, PathPlace DEF OwnInv, LogsOwn
      <3>2. CASE conf.aof /\ q[1] = conf.dir
        <4>1. q = p
          BY <2>2, <2>6, <3>2 DEF Serves, OneLogged
        <4>2. aof[q[1]] = mem /\ aof'[q[1]] = mem \cup {w}
          BY <1>t, <2>1, <3>1, <3>2 DEF TypeOK
        <4>3. Recorded(q[1]) = mem /\ Recorded(q[1])' = mem \cup {w}
          BY <1>t, <2>1, <4>2 DEF Recorded, TypeOK
        <4> QED
          BY <2>3, <3>1, <4>1, <4>3
      <3>3. CASE ~(conf.aof /\ q[1] = conf.dir)
        <4>1. aof'[q[1]] = aof[q[1]]
          BY <1>t, <2>1, <3>1, <3>3 DEF TypeOK
        <4> QED
          BY <2>3, <3>1, <4>1 DEF Recorded
      <3> QED
        BY <3>2, <3>3
    <2> QED
      BY <2>4, <2>5, <2>6 DEF OwnInv, LogsOwn
  <1>4. ASSUME NEW h \in Handles, Stop(h) PROVE OwnInv'
    <2> DEFINE p == open[h].path
    <2>1. /\ open[h] # None /\ up /\ ~up' /\ UNCHANGED <<aof, acked>>
          /\ rdb' = IF Saves(open[h].req) THEN [rdb EXCEPT ![<<conf.dir, p[2]>>] = mem] ELSE rdb
      BY <1>4 DEF Stop
    <2>2. p \in Paths /\ <<conf.dir, p[2]>> = p
      BY <2>1, OpenPath
    <2>3. mem \subseteq acked[p]
      BY <2>1 DEF OwnInv, MemoryOwn
    <2>4. \A q \in Paths : rdb'[q] \subseteq acked[q]
      BY <1>t, <1>s, <2>1, <2>2, <2>3, PathPlace DEF TypeOK
    <2> QED
      BY <1>r, <2>1, <2>4, MemoryStays, OwnStays
  <1>5. CASE Snapshot
    <2>1. /\ up /\ Here /\ rdb' = [rdb EXCEPT ![<<conf.dir, File>>] = mem]
          /\ UNCHANGED <<open, up, mem, aof, acked>>
      BY <1>5 DEF Snapshot
    <2>2. PICK h \in Handles : open[h] # None
      BY <2>1 DEF Here
    <2> DEFINE p == open[h].path
    <2>3. p \in Paths /\ <<conf.dir, File>> = p
      BY <2>1, <2>2, OpenPath
    <2>4. mem \subseteq acked[p]
      BY <2>1, <2>2 DEF OwnInv, MemoryOwn
    <2>5. \A q \in Paths : rdb'[q] \subseteq acked[q]
      BY <1>t, <1>s, <2>1, <2>3, <2>4, PathPlace DEF TypeOK
    <2> QED
      BY <1>r, <2>1, <2>5, MemoryStays, OwnStays
  <1>6. CASE PowerLoss
    <2>1. PICK w \in 0 .. MaxWrites :
             aof' = [d \in Dirs |-> IF aof[d] = None THEN None
                                    ELSE synced[d] \cup {v \in aof[d] : v <= w}]
      BY <1>6 DEF PowerLoss
    <2>2. ASSUME NEW d \in Dirs PROVE Recorded(d)' \subseteq Recorded(d)
      BY <1>t, <2>1, RecordedType DEF Recorded
    <2>3. ~up' /\ acked' = acked /\ rdb' = rdb
      BY <1>6 DEF PowerLoss, Excuse
    <2> QED
      BY <1>s, <2>2, <2>3, MemoryStays, OwnStays
  <1>7. ASSUME acked' = acked, rdb' = rdb, aof' = aof,
               \/ ~up'
               \/ /\ UNCHANGED <<up, mem>>
                  /\ \A h \in Handles : open'[h] \in {open[h], None}
        PROVE  OwnInv'
    BY <1>r, <1>s, <1>7, MemoryStays, OwnStays
  <1>8. ASSUME NEW h \in Handles, StopUnsaved(h) \/ Leave(h) PROVE OwnInv'
    BY <1>8, <1>7, <1>t DEF StopUnsaved, Leave, Excuse, TypeOK
  <1>9. CASE Second \/ Kill \/ UNCHANGED vars
    BY <1>9, <1>7 DEF Second, Kill, Excuse, vars
  <1> QED
    BY <1>1, <1>2, <1>3, <1>4, <1>5, <1>6, <1>8, <1>9 DEF Next

\* The server of a path has the data of that path, and saves no others there, if
\* no path of the directory shares an append-only file with it.
THEOREM Owned == Homed /\ OneLogged => (Spec => []OwnData)
  <1> SUFFICES ASSUME Homed, OneLogged PROVE Spec => []OwnData
    OBVIOUS
  <1>1. OwnInv => OwnData
    BY DEF OwnInv, SnapshotsOwn, MemoryOwn, OwnData
  <1>2. Init => OwnInv
    BY PathPlace DEF Init, OwnInv, SnapshotsOwn, LogsOwn, MemoryOwn, Recorded
  <1>3. UseInv /\ OwnInv /\ [Next]_vars => OwnInv'
    BY OwnStep
  <1> QED
    BY <1>1, <1>2, <1>3, UseCorrect, PTL DEF Spec
=============================================================================
