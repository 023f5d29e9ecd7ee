---------------------------- MODULE ServerProofs ----------------------------
(***************************************************************************)
(* Proofs about Server, for every set of nodes, of nodes with old data and *)
(* of watched nodes, and every number of crashes.                          *)
(***************************************************************************)
EXTENDS Server, TLAPS

-----------------------------------------------------------------------------
(* The inductive invariant *)

Addrs == {"absent", "empty", "given", "default", "updated"}

NodeInfo == [id : {"none", "zero", "own"}, addr : Addrs]

Files == [init : {"absent", "bootstrap", "join"}, update : BOOLEAN,
          info : NodeInfo, store : Addrs, raft : NodeInfo,
          cluster : SUBSET Nodes]

Locals == [opts : {"none", "bootstrap", "join"}, info : NodeInfo,
           gaveUp : BOOLEAN]

\* The steps of New that follow an update.yaml, those of Start, and the rest.
Updating == {"reconfigure", "write info", "write cluster", "remove update"}

RunPc == {"serving"} \cup ShutdownPc

CreatedPc == {"ready"} \cup SetupPc \cup RunPc

Pcs == {"down", "panicked"} \cup NewPc \cup CreatedPc

TypesOK ==
    /\ pc \in [Nodes -> Pcs]
    /\ dir \in [Nodes -> Files]
    /\ mem \in [Nodes -> Locals]
    /\ asked \in [Nodes -> {"absent", "bootstrap", "join"}]
    /\ DOMAIN watcher = Nodes
    /\ mustStop \in [Nodes -> [len : {0, 1}, closed : BOOLEAN]]
    /\ DOMAIN left = Nodes

\* A directory without a node, and one whose three files name the same one.
Unused(d) == d.info = Absent /\ d.store = "absent" /\ d.raft = Absent

Agrees(d) == d.info # Absent /\ d.raft = d.info /\ d.store = d.info.addr

\* While update.yaml is there the files may disagree; it is removed when they
\* do not any more.
FilesOK(n, p, d, m, lost) ==
    /\ ~d.update => Unused(d) \/ Agrees(d)
    /\ d.info # Absent => d.info.id = "own" \/ <<n, "info lost">> \in lost
    /\ p \in Updating =>
          d.update /\ d.info # Absent /\ m.info = [d.info EXCEPT !.addr = "updated"]
    /\ p \in Updating \ {"reconfigure"} => d.raft = m.info
    /\ p \in {"write cluster", "remove update"} => d.info = m.info
    /\ p = "remove update" => d.store = m.info.addr
    /\ p = "app" => ~d.update
    /\ p \in CreatedPc => ~d.update /\ d.info # Absent

\* A node comes from its init.yaml: until app.New has made the directory, the
\* file is there or the process holds what it said, unless that was lost.
OriginOK(n, p, d, m, a, lost) ==
    /\ a = "absent" => p = "down"
    /\ d.init # "absent" => d.init = a
    /\ m.opts # "none" => m.opts = a
    /\ p \in {"down", "panicked", "new"} => m.opts = "none"
    /\ p = "remove init" => m.opts # "none" /\ d.init # "absent" /\ ~HasState(d)
    /\ p \in Updating \cup {"app"} => d.init = "absent"
    /\ d.info # Absent =>
          /\ \E c \in Nodes : d.cluster = {c}
          /\ \/ <<n, "init lost">> \in lost
             \/ /\ d.info.addr # "default"
                /\ d.cluster = {IF a = "join" THEN First ELSE n}
    /\ d.info = Absent /\ d.init = "absent" =>
          \/ a = "absent" \/ d.update
          \/ p = "app" /\ m.opts # "none"
          \/ <<n, "init lost">> \in lost

\* The versions that are served as they are.
Served == {databaseSchemaVersion, NewSchemaVersion(0, 2)}

\* A database of a version in front of this one, of one that is served, or of
\* an incompatible one, whatever its rows; and what a node has found out about
\* its database stays true.
VersionOK(d) ==
    /\ d \in [version : {0, NewSchemaVersion(1, 0)} \cup Served,
              table : BOOLEAN, index : {"none", "wrong", "other", "right"},
              rows : {d.rows}]
    /\ d.version \in Served => d.table /\ d.index = "right"

SchemaOK(p, m, d) ==
    /\ p = "apply" => d.version <= databaseSchemaVersion
    /\ p \in {"migrate", "copy", "start", "health"} \cup RunPc =>
          m.gaveUp \/ d.version \in Served
    /\ p \in {"copy", "start", "health"} \cup RunPc => d.table

\* Of the copies into one database only one has copied any row, and what is
\* there is what it has not left.
CopiedRows(d) == {r \in d.rows : r.old}

CopyingTo(c) == {n \in Nodes : pc[n] = "copy" /\ Cluster(n) = c}

CopyOK(c) ==
    LET copied == CopiedRows(db[c])
    IN  /\ copied \subseteq OldRows
        /\ copied # {} => OldRow(1) \in copied
        /\ \A n \in CopyingTo(c) :
              left[n] = OldRows \/ (left[n] = OldRows \ copied /\ copied # {})
        /\ \A n, m \in CopyingTo(c) :
              n = m \/ left[n] = OldRows \/ left[m] = OldRows
        /\ \/ copied \in {{}, OldRows}
           \/ \E n \in CopyingTo(c) : left[n] = OldRows \ copied
           \/ <<c, "copy cut">> \in mishap

ServerInv ==
    /\ TypesOK
    /\ \A n \in Nodes : FilesOK(n, pc[n], dir[n], mem[n], mishap)
    /\ \A n \in Nodes : OriginOK(n, pc[n], dir[n], mem[n], asked[n], mishap)
    /\ \A n \in Nodes : mustStop[n].closed => pc[n] \in {"wait", "hung"}
    /\ DOMAIN db = Nodes
    /\ \A c \in Nodes : VersionOK(db[c])
    /\ \A n \in Nodes : SchemaOK(pc[n], mem[n], Db(n))
    /\ \A c \in Nodes : CopyOK(c)

-----------------------------------------------------------------------------
(* New: the files of one node *)

\* A step of one node's process keeps the part of the invariant about files, if
\* what it leaves for that node is sound: the other nodes are as before, and
\* what was lost stays lost.
Moves(n, p, d, m) ==
    /\ p \in Pcs /\ d \in Files /\ m \in Locals
    /\ pc' = [pc EXCEPT ![n] = p]
    /\ dir' = [dir EXCEPT ![n] = d]
    /\ mem' = [mem EXCEPT ![n] = m]
    /\ asked' = asked /\ mishap \subseteq mishap'
    /\ FilesOK(n, p, d, m, mishap')
    /\ OriginOK(n, p, d, m, asked[n], mishap')

LEMMA NodeStep ==
    ASSUME ServerInv, NEW n \in Nodes, NEW p, NEW d, NEW m, Moves(n, p, d, m)
    PROVE  /\ pc' \in [Nodes -> Pcs]
           /\ dir' \in [Nodes -> Files]
           /\ mem' \in [Nodes -> Locals]
           /\ asked' \in [Nodes -> {"absent", "bootstrap", "join"}]
           /\ \A k \in Nodes : FilesOK(k, pc[k], dir[k], mem[k], mishap)'
           /\ \A k \in Nodes : OriginOK(k, pc[k], dir[k], mem[k], asked[k], mishap)'
           /\ pc'[n] = p /\ dir'[n] = d /\ mem'[n] = m
           /\ \A k \in Nodes \ {n} :
                 pc'[k] = pc[k] /\ dir'[k] = dir[k] /\ mem'[k] = mem[k]
  <1>1. /\ pc \in [Nodes -> Pcs] /\ dir \in [Nodes -> Files]
        /\ mem \in [Nodes -> Locals]
        /\ asked \in [Nodes -> {"absent", "bootstrap", "join"}]
    BY DEF ServerInv, TypesOK
  <1>2. /\ pc'[n] = p /\ dir'[n] = d /\ mem'[n] = m
        /\ \A k \in Nodes \ {n} :
              pc'[k] = pc[k] /\ dir'[k] = dir[k] /\ mem'[k] = mem[k]
    BY <1>1 DEF Moves
  <1>3. /\ pc' \in [Nodes -> Pcs] /\ dir' \in [Nodes -> Files]
        /\ mem' \in [Nodes -> Locals]
        /\ asked' \in [Nodes -> {"absent", "bootstrap", "join"}]
    BY <1>1 DEF Moves
  <1>4. ASSUME NEW k \in Nodes
        PROVE  FilesOK(k, pc'[k], dir'[k], mem'[k], mishap')
    <2>1. CASE k = n
      BY <1>2, <2>1 DEF Moves
    <2>2. CASE k # n
      <3>1. FilesOK(k, pc[k], dir[k], mem[k], mishap)
        BY DEF ServerInv
      <3> QED BY <1>2, <2>2, <3>1 DEF FilesOK, Moves
    <2> QED BY <2>1, <2>2
  <1>5. ASSUME NEW k \in Nodes
        PROVE  OriginOK(k, pc'[k], dir'[k], mem'[k], asked'[k], mishap')
    <2>1. CASE k = n
      BY <1>2, <2>1 DEF Moves
    <2>2. CASE k # n
      <3>1. OriginOK(k, pc[k], dir[k], mem[k], asked[k], mishap)
        BY DEF ServerInv
      <3> QED BY <1>2, <2>2, <3>1 DEF OriginOK, Moves
    <2> QED BY <2>1, <2>2
  <1> QED BY <1>2, <1>3, <1>4, <1>5

\* What the invariant says of one node.
LEMMA OfNode ==
    ASSUME ServerInv, NEW n \in Nodes
    PROVE  /\ pc \in [Nodes -> Pcs] /\ dir \in [Nodes -> Files]
           /\ mem \in [Nodes -> Locals]
           /\ pc[n] \in Pcs /\ dir[n] \in Files /\ mem[n] \in Locals
           /\ asked[n] \in {"absent", "bootstrap", "join"}
           /\ FilesOK(n, pc[n], dir[n], mem[n], mishap)
           /\ OriginOK(n, pc[n], dir[n], mem[n], asked[n], mishap)
           /\ dir = [dir EXCEPT ![n] = dir[n]]
           /\ mem = [mem EXCEPT ![n] = mem[n]]
           /\ pc = [pc EXCEPT ![n] = pc[n]]
  BY DEF ServerInv, TypesOK

\* A process that ends where its files are sound leaves them sound.
LEMMA BlankIsLocal == Blank \in Locals /\ Blank.opts = "none"
  BY DEF Blank, Locals, Absent, NodeInfo, Addrs

\* The information that an update.yaml makes of info.yaml.
LEMMA UpdatedInfo ==
    ASSUME NEW x \in NodeInfo, NEW y, y = [x EXCEPT !.addr = "updated"]
    PROVE  /\ y \in NodeInfo /\ y.addr = "updated" /\ y.addr \in Addrs
           /\ y.id = x.id /\ y # Absent /\ y = [y EXCEPT !.addr = "updated"]
  <1>1. y \in NodeInfo /\ y.addr = "updated" /\ y.id = x.id /\ y.addr \in Addrs
    BY DEF NodeInfo, Addrs
  <1>2. y # Absent
    BY <1>1 DEF Absent
  <1>3. y = [y EXCEPT !.addr = "updated"]
    BY <1>1 DEF NodeInfo
  <1> QED BY <1>1, <1>2, <1>3

\* An update changes nothing about where a node comes from.
LEMMA OriginKept ==
    ASSUME NEW n, NEW p \in Updating, NEW q \in Updating \cup {"app"},
           NEW d, NEW e, NEW m, NEW a, NEW lost, OriginOK(n, p, d, m, a, lost),
           d.info # Absent, e.info # Absent, e.init = d.init,
           e.cluster = d.cluster,
           e.info.addr \in {d.info.addr, "updated"}
    PROVE  OriginOK(n, q, e, m, a, lost)
  <1>1. a # "absent" /\ e.init = "absent"
    BY DEF OriginOK, Updating
  <1>2. /\ \E c \in Nodes : e.cluster = {c}
        /\ \/ <<n, "init lost">> \in lost
           \/ /\ e.info.addr # "default"
              /\ e.cluster = {IF a = "join" THEN First ELSE n}
    BY DEF OriginOK
  <1>3. m.opts # "none" => m.opts = a
    BY DEF OriginOK
  <1>4. q \notin {"down", "panicked", "new", "remove init"}
    BY DEF Updating
  <1> QED BY <1>1, <1>2, <1>3, <1>4 DEF OriginOK

\* Every step of New keeps the files sound.
LEMMA NewSteps ==
    ASSUME ServerInv, NEW n \in Nodes, Boot(n) \/ NewStep(n)
    PROVE  \E p, d, m : /\ Moves(n, p, d, m)
                       /\ pc[n] \in {"down", "panicked"} \cup NewPc
                       /\ p \in {"down", "ready"} \cup NewPc
  <1> DEFINE d == dir[n]
             m == mem[n]
             a == asked[n]
  <1>0. /\ d \in Files /\ m \in Locals /\ a \in {"absent", "bootstrap", "join"}
        /\ FilesOK(n, pc[n], d, m, mishap) /\ OriginOK(n, pc[n], d, m, a, mishap)
        /\ dir = [dir EXCEPT ![n] = d] /\ mem = [mem EXCEPT ![n] = m]
        /\ d = dir[n] /\ m = mem[n] /\ a = asked[n]
        /\ pc[n] \in Pcs
    BY OfNode
  <1> USE <1>0
  <1> HIDE DEF d, m, a
  <1>1. CASE Boot(n)
    <2>1. Moves(n, "new", d, m)
      <3>1. FilesOK(n, "new", d, m, mishap)
        BY DEF FilesOK, Updating, CreatedPc, SetupPc, RunPc, ShutdownPc
      <3>2. OriginOK(n, "new", d, m, a, mishap)
        BY <1>1 DEF OriginOK, Boot, Stopped, Updating
      <3> QED BY <1>1, <3>1, <3>2 DEF Boot, Goto, Moves, Pcs, NewPc
    <2> QED BY <1>1, <2>1 DEF Boot, Stopped, NewPc
  <1>2. CASE ReadInit(n)
    <2>1. CASE HasState(d) /\ Exit(n)
      <3>1. Moves(n, "down", d, Blank)
        BY <1>2, <2>1, BlankIsLocal
           DEF ReadInit, Exit, Goto, Moves, At, Pcs, FilesOK, OriginOK, Updating,
               CreatedPc, SetupPc, RunPc, ShutdownPc
      <3> QED BY <1>2, <3>1 DEF ReadInit, At, NewPc
    <2>2. CASE /\ ~HasState(d)
               /\ mem' = [mem EXCEPT ![n].opts = d.init]
               /\ Goto(n, "remove init")
      <3> DEFINE mm == [m EXCEPT !.opts = d.init]
      <3>1. mm \in Locals /\ mm.opts = d.init
        BY <1>2 DEF Locals, Files, ReadInit
      <3>2. mem' = [mem EXCEPT ![n] = mm]
        BY <2>2
      <3> HIDE DEF mm
      <3>3. FilesOK(n, "remove init", d, mm, mishap)
        BY DEF FilesOK, Updating, CreatedPc, SetupPc, RunPc, ShutdownPc
      <3>4. OriginOK(n, "remove init", d, mm, a, mishap)
        BY <1>2, <2>2, <3>1 DEF OriginOK, ReadInit, At, Updating
      <3>5. Moves(n, "remove init", d, mm)
        BY <1>2, <2>2, <3>1, <3>2, <3>3, <3>4 DEF ReadInit, Goto, Moves, Pcs, NewPc
      <3> QED BY <1>2, <3>1, <3>5 DEF ReadInit, At, NewPc
    <2> QED BY <1>2, <2>1, <2>2 DEF ReadInit
  <1>3. CASE RemoveInit(n)
    <2> DEFINE dd == [d EXCEPT !.init = "absent"]
    <2>1. /\ dd \in Files /\ dd.init = "absent" /\ dd.update = d.update
          /\ dd.info = d.info /\ dd.store = d.store /\ dd.raft = d.raft
          /\ dd.cluster = d.cluster
      BY DEF Files
    <2>2. dir' = [dir EXCEPT ![n] = dd]
      BY <1>3 DEF RemoveInit
    <2> HIDE DEF dd
    <2>3. ~d.update /\ d.info = Absent /\ m.opts # "none"
      BY <1>3 DEF RemoveInit, At, OriginOK, HasState
    <2>4. FilesOK(n, "app", dd, m, mishap)
      BY <2>1, <2>3 DEF FilesOK, Updating, CreatedPc, SetupPc, RunPc, ShutdownPc, Unused, Agrees
    <2>5. OriginOK(n, "app", dd, m, a, mishap)
      BY <1>3, <2>1, <2>3 DEF OriginOK, RemoveInit, At
    <2>6. Moves(n, "app", dd, m)
      BY <1>3, <2>1, <2>2, <2>4, <2>5 DEF RemoveInit, Goto, Moves, Pcs, NewPc
    <2> QED BY <1>3, <2>6 DEF RemoveInit, At, NewPc
  <1>4. CASE ReadUpdate(n)
    <2>1. CASE Exit(n)
      <3>1. Moves(n, "down", d, Blank)
        BY <1>4, <2>1, BlankIsLocal
           DEF ReadUpdate, Exit, Goto, Moves, At, Pcs, FilesOK, OriginOK, Updating,
               CreatedPc, SetupPc, RunPc, ShutdownPc
      <3> QED BY <1>4, <3>1 DEF ReadUpdate, At, NewPc
    <2>2. CASE /\ d.info # Absent
               /\ mem' = [mem EXCEPT ![n].info = [d.info EXCEPT !.addr = "updated"]]
               /\ Goto(n, "reconfigure")
      <3> DEFINE i == [d.info EXCEPT !.addr = "updated"]
      <3>1. i \in NodeInfo
        BY UpdatedInfo DEF Files
      <3> DEFINE mm == [m EXCEPT !.info = i]
      <3> HIDE DEF i
      <3>2. mm \in Locals /\ mm.opts = m.opts /\ mm.info = i
        BY <3>1 DEF Locals
      <3>3. mem' = [mem EXCEPT ![n] = mm]
        BY <2>2 DEF i
      <3> HIDE DEF mm
      <3>4. FilesOK(n, "reconfigure", d, mm, mishap)
        BY <1>4, <2>2, <3>2
           DEF ReadUpdate, FilesOK, Updating, CreatedPc, SetupPc, RunPc, ShutdownPc, i
      <3>5. OriginOK(n, "reconfigure", d, mm, a, mishap)
        BY <1>4, <2>2, <3>2 DEF OriginOK, ReadUpdate, At
      <3>6. Moves(n, "reconfigure", d, mm)
        BY <1>4, <2>2, <3>2, <3>3, <3>4, <3>5 DEF ReadUpdate, Goto, Moves, Pcs, NewPc
      <3> QED BY <1>4, <3>2, <3>6 DEF ReadUpdate, At, NewPc
    <2> QED BY <1>4, <2>1, <2>2 DEF ReadUpdate
  <1>5. CASE NothingToDo(n)
    <2>1. FilesOK(n, "app", d, m, mishap)
      BY <1>5 DEF NothingToDo, FilesOK, Updating, CreatedPc, SetupPc, RunPc, ShutdownPc
    <2>2. OriginOK(n, "app", d, m, a, mishap)
      BY <1>5 DEF NothingToDo, OriginOK, At
    <2>3. Moves(n, "app", d, m)
      BY <1>5, <2>1, <2>2 DEF NothingToDo, Goto, Moves, Pcs, NewPc
    <2> QED BY <1>5, <2>3 DEF NothingToDo, At, NewPc
  <1>6. CASE Reconfigure(n)
    <2> DEFINE dd == [d EXCEPT !.raft = m.info]
    <2>1. d.update /\ d.info # Absent /\ m.info = [d.info EXCEPT !.addr = "updated"]
      BY <1>6 DEF Reconfigure, At, FilesOK, Updating
    <2>2. /\ m.info \in NodeInfo /\ m.info.addr = "updated" /\ m.info # Absent
          /\ m.info.id = d.info.id /\ m.info.addr \in Addrs
          /\ m.info = [m.info EXCEPT !.addr = "updated"]
      <3>1. m.info \in NodeInfo /\ d.info \in NodeInfo
        BY DEF Locals, Files
      <3> QED BY <2>1, <3>1, UpdatedInfo
    <2>3. /\ dd \in Files /\ dd.raft = m.info
          /\ dd.init = d.init
          /\ dd.update = d.update
          /\ dd.info = d.info
          /\ dd.store = d.store
          /\ dd.cluster = d.cluster
      BY <2>2 DEF Files
    <2>4. dir' = [dir EXCEPT ![n] = dd]
      BY <1>6 DEF Reconfigure
    <2> HIDE DEF dd
    <2>5. FilesOK(n, "write info", dd, m, mishap)
      BY <2>1, <2>2, <2>3
         DEF FilesOK, Updating, CreatedPc, SetupPc, RunPc, ShutdownPc, Unused, Agrees
    <2>6. OriginOK(n, "write info", dd, m, a, mishap)
      <3>1. pc[n] \in Updating /\ "write info" \in Updating \cup {"app"}
        BY <1>6 DEF Reconfigure, At, Updating
      <3>2. dd.info # Absent /\ dd.info.addr \in {d.info.addr, "updated"}
        BY <2>1, <2>2, <2>3
      <3> QED BY <2>1, <2>3, <3>1, <3>2, OriginKept
    <2>7. Moves(n, "write info", dd, m)
      BY <1>6, <2>3, <2>4, <2>5, <2>6 DEF Reconfigure, Goto, Moves, Pcs, NewPc
    <2> QED BY <1>6, <2>7 DEF Reconfigure, At, NewPc
  <1>7. CASE WriteInfo(n)
    <2> DEFINE dd == [d EXCEPT !.info = m.info]
    <2>1. /\ d.update /\ d.info # Absent /\ m.info = [d.info EXCEPT !.addr = "updated"]
          /\ d.raft = m.info
      BY <1>7 DEF WriteInfo, At, FilesOK, Updating
    <2>2. /\ m.info \in NodeInfo /\ m.info.addr = "updated" /\ m.info # Absent
          /\ m.info.id = d.info.id /\ m.info.addr \in Addrs
          /\ m.info = [m.info EXCEPT !.addr = "updated"]
      <3>1. m.info \in NodeInfo /\ d.info \in NodeInfo
        BY DEF Locals, Files
      <3> QED BY <2>1, <3>1, UpdatedInfo
    <2>3. /\ dd \in Files /\ dd.info = m.info
          /\ dd.init = d.init
          /\ dd.update = d.update
          /\ dd.store = d.store
          /\ dd.raft = d.raft
          /\ dd.cluster = d.cluster
      BY <2>2 DEF Files
    <2>4. dir' = [dir EXCEPT ![n] = dd]
      BY <1>7 DEF WriteInfo
    <2> HIDE DEF dd
    <2>5. FilesOK(n, "write cluster", dd, m, mishap)
      BY <2>1, <2>2, <2>3
         DEF FilesOK, Updating, CreatedPc, SetupPc, RunPc, ShutdownPc, Unused, Agrees
    <2>6. OriginOK(n, "write cluster", dd, m, a, mishap)
      <3>1. pc[n] \in Updating /\ "write cluster" \in Updating \cup {"app"}
        BY <1>7 DEF WriteInfo, At, Updating
      <3>2. dd.info # Absent /\ dd.info.addr \in {d.info.addr, "updated"}
        BY <2>1, <2>2, <2>3
      <3> QED BY <2>1, <2>3, <3>1, <3>2, OriginKept
    <2>7. Moves(n, "write cluster", dd, m)
      BY <1>7, <2>3, <2>4, <2>5, <2>6 DEF WriteInfo, Goto, Moves, Pcs, NewPc
    <2> QED BY <1>7, <2>7 DEF WriteInfo, At, NewPc
  <1>8. CASE WriteCluster(n)
    <2> DEFINE dd == [d EXCEPT !.store = m.info.addr]
    <2>1. /\ d.update /\ d.info # Absent /\ m.info = [d.info EXCEPT !.addr = "updated"]
          /\ d.raft = m.info /\ d.info = m.info
      BY <1>8 DEF WriteCluster, At, FilesOK, Updating
    <2>2. /\ m.info \in NodeInfo /\ m.info.addr = "updated" /\ m.info # Absent
          /\ m.info.id = d.info.id /\ m.info.addr \in Addrs
          /\ m.info = [m.info EXCEPT !.addr = "updated"]
      <3>1. m.info \in NodeInfo /\ d.info \in NodeInfo
        BY DEF Locals, Files
      <3> QED BY <2>1, <3>1, UpdatedInfo
    <2>3. /\ dd \in Files /\ dd.store = m.info.addr
          /\ dd.init = d.init
          /\ dd.update = d.update
          /\ dd.info = d.info
          /\ dd.raft = d.raft
          /\ dd.cluster = d.cluster
      BY <2>2 DEF Files
    <2>4. dir' = [dir EXCEPT ![n] = dd]
      BY <1>8 DEF WriteCluster
    <2> HIDE DEF dd
    <2>5. FilesOK(n, "remove update", dd, m, mishap)
      BY <2>1, <2>2, <2>3
         DEF FilesOK, Updating, CreatedPc, SetupPc, RunPc, ShutdownPc, Unused, Agrees
    <2>6. OriginOK(n, "remove update", dd, m, a, mishap)
      <3>1. pc[n] \in Updating /\ "remove update" \in Updating \cup {"app"}
        BY <1>8 DEF WriteCluster, At, Updating
      <3>2. dd.info # Absent /\ dd.info.addr \in {d.info.addr, "updated"}
        BY <2>1, <2>2, <2>3
      <3> QED BY <2>1, <2>3, <3>1, <3>2, OriginKept
    <2>7. Moves(n, "remove update", dd, m)
      BY <1>8, <2>3, <2>4, <2>5, <2>6 DEF WriteCluster, Goto, Moves, Pcs, NewPc
    <2> QED BY <1>8, <2>7 DEF WriteCluster, At, NewPc
  <1>9. CASE RemoveUpdate(n)
    <2> DEFINE dd == [d EXCEPT !.update = FALSE]
    <2>1. /\ d.update /\ d.info # Absent /\ m.info = [d.info EXCEPT !.addr = "updated"]
          /\ d.raft = m.info /\ d.info = m.info /\ d.store = m.info.addr
      BY <1>9 DEF RemoveUpdate, At, FilesOK, Updating
    <2>2. /\ m.info \in NodeInfo /\ m.info.addr = "updated" /\ m.info # Absent
          /\ m.info.id = d.info.id /\ m.info.addr \in Addrs
          /\ m.info = [m.info EXCEPT !.addr = "updated"]
      <3>1. m.info \in NodeInfo /\ d.info \in NodeInfo
        BY DEF Locals, Files
      <3> QED BY <2>1, <3>1, UpdatedInfo
    <2>3. /\ dd \in Files /\ ~dd.update
          /\ dd.init = d.init
          /\ dd.info = d.info
          /\ dd.store = d.store
          /\ dd.raft = d.raft
          /\ dd.cluster = d.cluster
      BY <2>2 DEF Files
    <2>4. dir' = [dir EXCEPT ![n] = dd]
      BY <1>9 DEF RemoveUpdate
    <2> HIDE DEF dd
    <2>5. FilesOK(n, "app", dd, m, mishap)
      <3>1. d.info.id = "own" \/ <<n, "info lost">> \in mishap
        BY <2>1 DEF FilesOK
      <3>2. "app" \notin Updating \cup CreatedPc
        BY DEF Updating, CreatedPc, SetupPc, RunPc, ShutdownPc
      <3>3. dd.info # Absent /\ dd.raft = dd.info
        BY <2>1, <2>3
      <3>4. dd.store = dd.info.addr
        BY <2>1, <2>3
      <3> QED BY <2>3, <3>1, <3>2, <3>3, <3>4 DEF FilesOK, Agrees
    <2>6. OriginOK(n, "app", dd, m, a, mishap)
      <3>1. pc[n] \in Updating /\ "app" \in Updating \cup {"app"}
        BY <1>9 DEF RemoveUpdate, At, Updating
      <3>2. dd.info # Absent /\ dd.info.addr \in {d.info.addr, "updated"}
        BY <2>1, <2>2, <2>3
      <3> QED BY <2>1, <2>3, <3>1, <3>2, OriginKept
    <2>7. Moves(n, "app", dd, m)
      BY <1>9, <2>3, <2>4, <2>5, <2>6 DEF RemoveUpdate, Goto, Moves, Pcs, NewPc
    <2> QED BY <1>9, <2>7 DEF RemoveUpdate, At, NewPc
  <1>10. CASE AppNew(n)
    <2> DEFINE isNew == d.info = Absent /\ d.store = "absent"
               i == Own(IF m.opts = "none" THEN "default" ELSE "given")
               c == IF m.opts = "join" THEN First ELSE n
    <2>1. At(n, "app") /\ UNCHANGED <<asked, mishap>> /\ ~d.update
          /\ d.init = "absent"
      BY <1>10 DEF AppNew, At, FilesOK, OriginOK
    <2>2. CASE isNew /\ Goto(n, "ready") /\ UNCHANGED mem
               /\ dir' = [dir EXCEPT ![n].info = i, ![n].store = i.addr,
                                     ![n].raft = i, ![n].cluster = {c}]
      <3> DEFINE dd == [d EXCEPT !.info = i, !.store = i.addr, !.raft = i,
                                 !.cluster = {c}]
      <3>1. /\ i \in NodeInfo /\ i.id = "own" /\ i # Absent
            /\ i.addr = IF m.opts = "none" THEN "default" ELSE "given"
            /\ i.addr \in Addrs
        <4>1. CASE m.opts = "none"
          BY <4>1 DEF Own, NodeInfo, Absent, Addrs
        <4>2. CASE m.opts # "none"
          BY <4>2 DEF Own, NodeInfo, Absent, Addrs
        <4> QED BY <4>1, <4>2
      <3>2. c \in Nodes
        BY StateDirAssumption
      <3>3. dir' = [dir EXCEPT ![n] = dd]
        BY <2>2
      <3> HIDE DEF i, c
      <3>4. /\ dd \in Files /\ dd.init = d.init /\ dd.update = d.update
            /\ dd.info = i /\ dd.store = i.addr /\ dd.raft = i /\ dd.cluster = {c}
        BY <3>1, <3>2 DEF Files
      <3> HIDE DEF dd
      <3>5. FilesOK(n, "ready", dd, m, mishap)
        BY <2>1, <3>1, <3>4 DEF FilesOK, Updating, Agrees
      <3>6. m.opts = "none" => <<n, "init lost">> \in mishap
        BY <2>1, <2>2 DEF OriginOK, At
      <3>7. m.opts # "none" => c = IF a = "join" THEN First ELSE n
        BY DEF OriginOK, c
      <3>8. OriginOK(n, "ready", dd, m, a, mishap)
        BY <2>1, <3>1, <3>2, <3>4, <3>6, <3>7 DEF OriginOK, At
      <3>9. Moves(n, "ready", dd, m)
        BY <2>1, <2>2, <3>3, <3>4, <3>5, <3>8 DEF Goto, Moves, Pcs, CreatedPc
      <3> QED BY <2>1, <3>9 DEF At, NewPc
    <2>3. CASE ~isNew /\ Goto(n, "ready") /\ UNCHANGED <<dir, mem>>
      <3>1. FilesOK(n, "ready", d, m, mishap)
        BY <2>1, <2>3 DEF FilesOK, Updating, Agrees, Unused
      <3>2. OriginOK(n, "ready", d, m, a, mishap)
        BY <2>1, <2>3, <3>1 DEF OriginOK, At, FilesOK, CreatedPc
      <3>3. Moves(n, "ready", d, m)
        BY <2>1, <2>3, <3>1, <3>2 DEF Goto, Moves, Pcs, CreatedPc
      <3> QED BY <2>1, <3>3 DEF At, NewPc
    <2>4. CASE ~isNew /\ Exit(n) /\ UNCHANGED dir
      <3>1. FilesOK(n, "down", d, Blank, mishap)
        BY <2>1 DEF FilesOK, Updating, CreatedPc, SetupPc, RunPc, ShutdownPc
      <3>2. d.info # Absent
        BY <2>1, <2>4 DEF FilesOK, Unused, Agrees
      <3>3. OriginOK(n, "down", d, Blank, a, mishap)
        BY <2>1, <3>2, BlankIsLocal DEF OriginOK, At
      <3>4. Moves(n, "down", d, Blank)
        BY <2>1, <2>4, <3>1, <3>3, BlankIsLocal DEF Exit, Goto, Moves, Pcs
      <3> QED BY <2>1, <3>4 DEF At, NewPc
    <2> QED BY <1>10, <2>2, <2>3, <2>4 DEF AppNew
  <1> QED BY <1>1, <1>2, <1>3, <1>4, <1>5, <1>6, <1>7, <1>8, <1>9, <1>10 DEF NewStep

\* The address is updated while the process is down.
LEMMA PutUpdateStep ==
    ASSUME ServerInv, NEW n \in Nodes, PutUpdate(n)
    PROVE  \E d : /\ Moves(n, pc[n], d, mem[n])
                 /\ pc[n] \in {"down", "panicked"}
                 /\ d.cluster = dir[n].cluster
  <1> DEFINE d == dir[n]
             m == mem[n]
             dd == [d EXCEPT !.update = TRUE]
  <1>1. /\ d \in Files /\ m \in Locals
        /\ FilesOK(n, pc[n], d, m, mishap)
        /\ OriginOK(n, pc[n], d, m, asked[n], mishap)
        /\ mem = [mem EXCEPT ![n] = m] /\ pc = [pc EXCEPT ![n] = pc[n]]
        /\ pc[n] \in Pcs
    BY OfNode
  <1>2. /\ pc[n] \in {"down", "panicked"} /\ d.info.addr \in {"given", "default"}
        /\ dir' = [dir EXCEPT ![n] = dd]
        /\ UNCHANGED <<pc, mem, asked, mishap>>
    BY DEF PutUpdate, Stopped
  <1> HIDE DEF d, m
  <1>3. /\ dd \in Files /\ dd.update /\ dd.init = d.init /\ dd.info = d.info
        /\ dd.store = d.store /\ dd.raft = d.raft /\ dd.cluster = d.cluster
    BY <1>1 DEF Files
  <1> HIDE DEF dd
  <1>4. d.info # Absent
    BY <1>2 DEF Absent
  <1>5. FilesOK(n, pc[n], dd, m, mishap)
    BY <1>1, <1>2, <1>3, <1>4
       DEF FilesOK, Updating, CreatedPc, SetupPc, RunPc, ShutdownPc
  <1>6. OriginOK(n, pc[n], dd, m, asked[n], mishap)
    BY <1>1, <1>2, <1>3, <1>4 DEF OriginOK, Updating
  <1>7. Moves(n, pc[n], dd, m)
    BY <1>1, <1>2, <1>3, <1>5, <1>6 DEF Moves
  <1> QED BY <1>2, <1>3, <1>7 DEF d, m

\* A crash in New leaves sound files, or a mark of what was lost.
LEMMA CrashInNewStep ==
    ASSUME ServerInv, NEW n \in Nodes, CrashInNew(n)
    PROVE  \E d : /\ Moves(n, "down", d, Blank)
                 /\ pc[n] \in NewPc
                 /\ d.cluster = dir[n].cluster
  <1> DEFINE d == dir[n]
             m == mem[n]
             a == asked[n]
  <1>1. /\ d \in Files /\ m \in Locals
        /\ FilesOK(n, pc[n], d, m, mishap)
        /\ OriginOK(n, pc[n], d, m, a, mishap)
    BY OfNode
  <1>2. PICK e \in AfterCrash(n, d) :
           /\ dir' = [dir EXCEPT ![n] = e]
           /\ mishap' = mishap
                 \cup (IF e.info = Empty THEN {<<n, "info lost">>} ELSE {})
                 \cup (IF At(n, "app") /\ m.opts # "none" /\ e.info = Absent
                       THEN {<<n, "init lost">>} ELSE {})
    BY DEF CrashInNew
  <1>3. /\ pc[n] \in NewPc /\ asked' = asked
        /\ pc' = [pc EXCEPT ![n] = "down"] /\ mem' = [mem EXCEPT ![n] = Blank]
    BY DEF CrashInNew, Exit, Goto
  <1> HIDE DEF d, m, a
  <1>4. \/ e = d
        \/ e = [d EXCEPT !.info = Empty] /\ pc[n] = "write info"
        \/ e = [d EXCEPT !.store = "empty"] /\ pc[n] = "write cluster"
    BY <1>2 DEF AfterCrash, At
  <1>5. Empty \in NodeInfo /\ Empty # Absent /\ Empty.addr = "empty"
    BY DEF Empty, NodeInfo, Absent, Addrs
  <1>6. /\ e \in Files /\ e.init = d.init /\ e.update = d.update
        /\ e.cluster = d.cluster
        /\ \/ e = d
           \/ /\ pc[n] \in Updating /\ e.info \in {d.info, Empty}
    <2>1. CASE e = d
      BY <1>1, <2>1
    <2>2. CASE e = [d EXCEPT !.info = Empty] /\ pc[n] = "write info"
      BY <1>1, <1>5, <2>2 DEF Files, Updating
    <2>3. CASE e = [d EXCEPT !.store = "empty"] /\ pc[n] = "write cluster"
      BY <1>1, <2>3 DEF Files, Updating, Addrs
    <2> QED BY <1>4, <2>1, <2>2, <2>3
  <1>7. mishap \subseteq mishap'
    BY <1>2
  <1>8. "down" \notin Updating \cup CreatedPc
    BY DEF Updating, CreatedPc, SetupPc, RunPc, ShutdownPc
  <1>9. FilesOK(n, "down", e, Blank, mishap')
    <2>1. CASE e = d
      BY <1>1, <1>7, <1>8, <2>1 DEF FilesOK, Updating
    <2>2. CASE pc[n] \in Updating /\ e.info \in {d.info, Empty}
      <3>1. e.update
        BY <1>1, <1>6, <2>2 DEF FilesOK
      <3>2. e.info # Absent => e.info.id = "own" \/ <<n, "info lost">> \in mishap'
        BY <1>1, <1>2, <1>7, <2>2 DEF FilesOK
      <3> QED BY <1>8, <3>1, <3>2 DEF FilesOK, Updating
    <2> QED BY <1>6, <2>1, <2>2
  <1>10. a # "absent"
    BY <1>1, <1>3 DEF OriginOK, NewPc
  <1>11. OriginOK(n, "down", e, Blank, a, mishap')
    <2>1. e.info # Absent =>
             /\ \E c \in Nodes : e.cluster = {c}
             /\ \/ <<n, "init lost">> \in mishap'
                \/ /\ e.info.addr # "default"
                   /\ e.cluster = {IF a = "join" THEN First ELSE n}
      <3>1. CASE e = d
        BY <1>1, <1>7, <3>1 DEF OriginOK
      <3>2. CASE pc[n] \in Updating /\ e.info \in {d.info, Empty}
        <4>1. d.info # Absent
          BY <1>1, <3>2 DEF FilesOK
        <4>2. e.info.addr \in {d.info.addr, "empty"}
          BY <1>5, <3>2
        <4> QED BY <1>1, <1>6, <1>7, <4>1, <4>2 DEF OriginOK
      <3> QED BY <1>6, <3>1, <3>2
    <2>2. e.info = Absent /\ e.init = "absent" =>
             e.update \/ <<n, "init lost">> \in mishap'
      <3>1. CASE e = d
        BY <1>1, <1>2, <1>7, <1>10, <3>1 DEF OriginOK, At
      <3>2. CASE pc[n] \in Updating /\ e.info \in {d.info, Empty}
        BY <1>1, <1>6, <3>2 DEF FilesOK
      <3> QED BY <1>6, <3>1, <3>2
    <2>3. e.init # "absent" => e.init = a
      BY <1>1, <1>6 DEF OriginOK
    <2> QED BY <1>8, <1>10, <2>1, <2>2, <2>3, BlankIsLocal DEF OriginOK, Updating
  <1>12. Moves(n, "down", e, Blank)
    BY <1>2, <1>3, <1>6, <1>7, <1>9, <1>11, BlankIsLocal DEF Moves, Pcs, a
  <1> QED BY <1>3, <1>6, <1>12 DEF d

\* After New, the files stay as they are.
LEMMA LaterStep ==
    ASSUME ServerInv, NEW n \in Nodes, pc[n] \in CreatedPc,
           NEW p \in {"down", "panicked"} \cup CreatedPc,
           NEW m \in Locals, m.opts \in {"none", mem[n].opts},
           p \in {"down", "panicked"} => m = Blank,
           pc' = [pc EXCEPT ![n] = p], mem' = [mem EXCEPT ![n] = m],
           UNCHANGED <<dir, asked>>, mishap \subseteq mishap'
    PROVE  Moves(n, p, dir[n], m)
  <1> DEFINE d == dir[n]
             a == asked[n]
  <1>1. /\ d \in Files /\ mem[n] \in Locals
        /\ FilesOK(n, pc[n], d, mem[n], mishap)
        /\ OriginOK(n, pc[n], d, mem[n], a, mishap)
        /\ dir = [dir EXCEPT ![n] = d]
    BY OfNode
  <1> HIDE DEF d, a
  <1>2. /\ d.info # Absent /\ ~d.update
        /\ pc[n] \notin {"down", "panicked", "new"}
    BY <1>1 DEF FilesOK, CreatedPc, SetupPc, RunPc, ShutdownPc
  <1>3. p \notin Updating \cup {"new", "remove init", "app"}
    BY DEF Updating, CreatedPc, SetupPc, RunPc, ShutdownPc
  <1>4. FilesOK(n, p, d, m, mishap')
    BY <1>1, <1>2, <1>3 DEF FilesOK, Updating
  <1>5. OriginOK(n, p, d, m, a, mishap')
    <2>1. a # "absent" /\ (d.init # "absent" => d.init = a)
      BY <1>1, <1>2 DEF OriginOK
    <2>2. m.opts # "none" => m.opts = a
      BY <1>1 DEF OriginOK
    <2>3. /\ \E c \in Nodes : d.cluster = {c}
          /\ \/ <<n, "init lost">> \in mishap'
             \/ /\ d.info.addr # "default"
                /\ d.cluster = {IF a = "join" THEN First ELSE n}
      BY <1>1, <1>2 DEF OriginOK
    <2> QED BY <1>2, <1>3, <2>1, <2>2, <2>3, BlankIsLocal DEF OriginOK
  <1> QED BY <1>1, <1>4, <1>5 DEF Moves, Pcs, a, d

-----------------------------------------------------------------------------
(* Start: the databases *)

\* A node that New has created belongs to a cluster.
LEMMA HasCluster ==
    ASSUME ServerInv, NEW n \in Nodes, pc[n] \in CreatedPc
    PROVE  Cluster(n) \in Nodes /\ Db(n) = db[Cluster(n)] /\ VersionOK(Db(n))
  <1>1. dir[n].info # Absent
    BY DEF ServerInv, FilesOK
  <1>2. \E c \in Nodes : dir[n].cluster = {c}
    BY <1>1 DEF ServerInv, OriginOK
  <1>3. Cluster(n) \in Nodes
    BY <1>2 DEF Cluster
  <1> QED BY <1>3 DEF Db, ServerInv

\* A database keeps its version once it can be served, its table and its rows.
Grows(d, e) ==
    /\ VersionOK(e)
    /\ d.version \in Served => e.version \in Served
    /\ d.version <= databaseSchemaVersion => e.version <= databaseSchemaVersion
    /\ d.table => e.table

\* Whatever one node does, the others may rely on what they have found out.
LEMMA SchemaKept ==
    ASSUME ServerInv, NEW n \in Nodes, NEW p, NEW d, NEW m, Moves(n, p, d, m),
           \A c \in Nodes : Grows(db[c], db'[c]),
           SchemaOK(p, m, Db(n)')
    PROVE  /\ \A c \in Nodes : VersionOK(db[c])'
           /\ \A k \in Nodes : SchemaOK(pc[k], mem[k], Db(k))'
  <1>1. \A c \in Nodes : VersionOK(db'[c])
    BY DEF Grows
  <1>2. ASSUME NEW k \in Nodes PROVE SchemaOK(pc'[k], mem'[k], Db(k)')
    <2>1. CASE k = n
      <3>1. pc'[n] = p /\ mem'[n] = m
        BY NodeStep
      <3> QED BY <2>1, <3>1
    <2>2. CASE k # n
      <3>1. pc'[k] = pc[k] /\ dir'[k] = dir[k] /\ mem'[k] = mem[k]
        BY <2>2, NodeStep
      <3>2. CASE pc[k] \in CreatedPc
        <4>1. Cluster(k) \in Nodes
          BY <3>2, HasCluster
        <4>2. Cluster(k)' = Cluster(k)
          BY <3>1 DEF Cluster
        <4>3. Db(k)' = db'[Cluster(k)] /\ Db(k) = db[Cluster(k)]
          BY <4>2 DEF Db
        <4>4. SchemaOK(pc[k], mem[k], db[Cluster(k)])
          BY <4>3 DEF ServerInv
        <4>5. Grows(db[Cluster(k)], db'[Cluster(k)])
          BY <4>1
        <4> QED BY <3>1, <4>3, <4>4, <4>5 DEF SchemaOK, Grows
      <3>3. CASE pc[k] \notin CreatedPc
        BY <3>1, <3>3 DEF SchemaOK, CreatedPc, SetupPc, RunPc
      <3> QED BY <3>2, <3>3
    <2> QED BY <2>1, <2>2
  <1> QED BY <1>1, <1>2

\* A step of a node that copies nothing, before or after it.
LEMMA CopyKept ==
    ASSUME ServerInv, NEW n \in Nodes, NEW p, NEW d, NEW m, Moves(n, p, d, m),
           pc[n] # "copy", p # "copy",
           \A c \in Nodes : CopiedRows(db'[c]) = CopiedRows(db[c]),
           \A k \in Nodes \ {n} : left'[k] = left[k]
    PROVE  \A c \in Nodes : CopyOK(c)'
  <1> SUFFICES ASSUME NEW c \in Nodes PROVE CopyOK(c)'
    OBVIOUS
  <1>1. \A k \in Nodes \ {n} : pc'[k] = pc[k] /\ Cluster(k)' = Cluster(k)
    BY NodeStep DEF Cluster
  <1>2. pc'[n] = p
    BY NodeStep
  <1>3. CopyingTo(c)' = CopyingTo(c) /\ n \notin CopyingTo(c)
    BY <1>1, <1>2 DEF CopyingTo
  <1>4. \A k \in CopyingTo(c) : left'[k] = left[k]
    BY <1>3 DEF CopyingTo
  <1>5. mishap \subseteq mishap'
    BY DEF Moves
  <1>6. CopyOK(c)
    BY DEF ServerInv
  <1> QED BY <1>3, <1>4, <1>5, <1>6 DEF CopyOK

\* A node ends its copy: it has copied everything or nothing, or the cut is
\* on record.
LEMMA CopyEnds ==
    ASSUME ServerInv, NEW n \in Nodes, NEW p, NEW d, NEW m, Moves(n, p, d, m),
           pc[n] = "copy", p # "copy",
           left[n] = {} \/ Cut(n) \subseteq mishap',
           db' = db,
           \A k \in Nodes \ {n} : left'[k] = left[k]
    PROVE  \A c \in Nodes : CopyOK(c)'
  <1> SUFFICES ASSUME NEW c \in Nodes PROVE CopyOK(c)'
    OBVIOUS
  <1> DEFINE copied == CopiedRows(db[c])
  <1>1. \A k \in Nodes \ {n} : pc'[k] = pc[k] /\ Cluster(k)' = Cluster(k)
    BY NodeStep DEF Cluster
  <1>2. pc'[n] = p
    BY NodeStep
  <1>3. CopyingTo(c)' = CopyingTo(c) \ {n}
    BY <1>1, <1>2 DEF CopyingTo
  <1>4. \A k \in CopyingTo(c) \ {n} : left'[k] = left[k]
    BY DEF CopyingTo
  <1>5. mishap \subseteq mishap'
    BY DEF Moves
  <1>6. CopyOK(c)
    BY DEF ServerInv
  <1>7. \/ copied \in {{}, OldRows}
        \/ \E k \in CopyingTo(c) \ {n} : left[k] = OldRows \ copied
        \/ <<c, "copy cut">> \in mishap'
    <2>1. CASE n \notin CopyingTo(c)
      BY <1>5, <1>6, <2>1 DEF CopyOK
    <2>2. CASE n \in CopyingTo(c) /\ left[n] = OldRows
      <3>1. ASSUME left[n] = OldRows \ copied PROVE copied = {}
        BY <1>6, <2>2, <3>1 DEF CopyOK
      <3> QED BY <1>5, <1>6, <2>2, <3>1 DEF CopyOK
    <2>3. CASE n \in CopyingTo(c) /\ left[n] = {}
      BY <1>6, <2>3 DEF CopyOK
    <2>4. CASE n \in CopyingTo(c) /\ left[n] \notin {{}, OldRows}
      <3>1. Cluster(n) = c
        BY <2>4 DEF CopyingTo
      <3>2. Cut(n) = {<<c, "copy cut">>}
        BY <2>4, <3>1 DEF Cut, At
      <3> QED BY <2>4, <3>2
    <2> QED BY <2>1, <2>2, <2>3, <2>4
  <1> QED BY <1>3, <1>4, <1>6, <1>7 DEF CopyOK

\* A node that finds the table without rows begins to copy.
LEMMA CopyBegins ==
    ASSUME ServerInv, NEW n \in Nodes, NEW d, NEW m, Moves(n, "copy", d, m),
           pc[n] \in CreatedPc \ {"copy"}, dir' = dir,
           Db(n).rows = {}, db' = db,
           left'[n] = OldRows, \A k \in Nodes \ {n} : left'[k] = left[k]
    PROVE  \A c \in Nodes : CopyOK(c)'
  <1> SUFFICES ASSUME NEW c \in Nodes PROVE CopyOK(c)'
    OBVIOUS
  <1> DEFINE copied == CopiedRows(db[c])
  <1>1. /\ \A k \in Nodes : Cluster(k)' = Cluster(k)
        /\ \A k \in Nodes \ {n} : pc'[k] = pc[k]
        /\ pc'[n] = "copy"
    BY NodeStep DEF Cluster
  <1>2. mishap \subseteq mishap'
    BY DEF Moves
  <1>3. CopyOK(c)
    BY DEF ServerInv
  <1>4. \A k \in CopyingTo(c) : left'[k] = left[k] /\ k # n
    BY DEF CopyingTo
  <1>5. CASE Cluster(n) = c
    <2>1. copied = {}
      BY <1>5 DEF CopiedRows, Db
    <2>2. CopyingTo(c)' = CopyingTo(c) \cup {n}
      BY <1>1, <1>5 DEF CopyingTo
    <2> QED BY <1>2, <1>3, <1>4, <2>1, <2>2 DEF CopyOK
  <1>6. CASE Cluster(n) # c
    <2>1. CopyingTo(c)' = CopyingTo(c)
      BY <1>1, <1>6 DEF CopyingTo
    <2> QED BY <1>2, <1>3, <1>4, <2>1 DEF CopyOK
  <1> QED BY <1>5, <1>6

\* The rows are copied from the first on.
LEMMA FirstOldRow ==
    /\ OldRow(1) \in OldRows /\ OldRow(1).id = 1
    /\ \A row \in OldRows : row.old
    /\ \A row \in OldRows : (\A r \in OldRows : row.id <= r.id) => row = OldRow(1)
  <1>1. DOMAIN Names = 1..3
    BY DEF Names
  <1>2. \A i : OldRow(i).id = i /\ OldRow(i).old
    BY DEF OldRow
  <1>3. OldRow(1) \in OldRows
    BY <1>1 DEF OldRows
  <1>4. \A row \in OldRows : row.old
    BY <1>2 DEF OldRows
  <1>5. ASSUME NEW row \in OldRows, \A r \in OldRows : row.id <= r.id
        PROVE  row = OldRow(1)
    <2>1. PICK i \in 1..3 : row = OldRow(i)
      BY <1>1 DEF OldRows
    <2>2. row.id <= OldRow(1).id
      BY <1>3, <1>5
    <2>3. i <= 1
      BY <1>2, <2>1, <2>2
    <2> QED BY <2>1, <2>3
  <1> QED BY <1>2, <1>3, <1>4, <1>5

\* One row is copied.  Only the node that copied the first row gets here: the
\* others find the id of their first row taken.
LEMMA CopyGoesOn ==
    ASSUME ServerInv, NEW n \in Nodes, pc[n] = "copy",
           UNCHANGED <<pc, dir>>, mishap \subseteq mishap',
           NEW row \in left[n], \A r \in left[n] : row.id <= r.id,
           \A r \in Db(n).rows : r.id # row.id,
           \A c \in Nodes : db'[c].rows =
               IF c = Cluster(n) THEN db[c].rows \cup {row} ELSE db[c].rows,
           left' = [left EXCEPT ![n] = @ \ {row}]
    PROVE  \A c \in Nodes : CopyOK(c)'
  <1> SUFFICES ASSUME NEW c \in Nodes PROVE CopyOK(c)'
    OBVIOUS
  <1> DEFINE copied == CopiedRows(db[c])
  <1>1. CopyingTo(c)' = CopyingTo(c)
    BY DEF CopyingTo, Cluster
  <1>2. /\ left'[n] = left[n] \ {row}
        /\ \A k \in Nodes \ {n} : left'[k] = left[k]
    BY DEF ServerInv, TypesOK
  <1>3. CopyOK(c)
    BY DEF ServerInv
  <1>4. CASE Cluster(n) # c
    <2>1. CopiedRows(db'[c]) = copied
      BY <1>4 DEF CopiedRows
    <2>2. \A k \in CopyingTo(c) : left'[k] = left[k]
      BY <1>2, <1>4 DEF CopyingTo
    <2> QED BY <1>1, <1>3, <2>1, <2>2 DEF CopyOK
  <1>5. CASE Cluster(n) = c
    <2>1. n \in CopyingTo(c)
      BY <1>5 DEF CopyingTo
    <2>2. row \in OldRows /\ copied \subseteq OldRows
      BY <1>3, <2>1 DEF CopyOK
    <2>3. CopiedRows(db'[c]) = copied \cup {row}
      BY <1>5, <2>2, FirstOldRow DEF CopiedRows
    <2>4. row \notin copied
      BY <1>5 DEF CopiedRows, Db
    <2>5. /\ left[n] = OldRows \ copied
          /\ OldRow(1) \in copied \cup {row}
          /\ \A k \in CopyingTo(c) \ {n} : left[k] = OldRows
      <3>1. CASE left[n] = OldRows
        <4>1. row = OldRow(1)
          BY <2>2, <3>1, FirstOldRow
        <4>2. copied = {}
          BY <1>3, <2>4, <4>1 DEF CopyOK
        <4> QED BY <1>3, <3>1, <4>1, <4>2 DEF CopyOK
      <3>2. CASE left[n] # OldRows
        <4>1. left[n] = OldRows \ copied /\ copied # {}
          BY <1>3, <2>1, <3>2 DEF CopyOK
        <4>2. \A k \in CopyingTo(c) \ {n} : left[k] = OldRows
          BY <1>3, <2>1, <3>2 DEF CopyOK
        <4> QED BY <1>3, <4>1, <4>2 DEF CopyOK
      <3> QED BY <3>1, <3>2
    <2>6. left'[n] = OldRows \ (copied \cup {row})
      BY <1>2, <2>5
    <2>7. \A k \in CopyingTo(c) \ {n} : left'[k] = OldRows
      BY <1>2, <2>5 DEF CopyingTo
    <2> DEFINE now == CopiedRows(db'[c])
    <2> HIDE DEF copied
    <2>8. /\ now \subseteq OldRows /\ now # {} /\ OldRow(1) \in now
          /\ left'[n] = OldRows \ now
      BY <2>2, <2>3, <2>5, <2>6
    <2> HIDE DEF now
    <2>9. \A k, j \in CopyingTo(c)' :
             k = j \/ left'[k] = OldRows \/ left'[j] = OldRows
      BY <1>1, <2>7
    <2>10. \A k \in CopyingTo(c)' :
              left'[k] = OldRows \/ (left'[k] = OldRows \ now /\ now # {})
      BY <1>1, <2>7, <2>8
    <2> QED BY <1>1, <2>1, <2>8, <2>9, <2>10 DEF CopyOK, now
  <1> QED BY <1>4, <1>5

-----------------------------------------------------------------------------
(* The invariant is preserved *)

\* The parts of the invariant after a step of one node, put together.
LEMMA Together ==
    ASSUME ServerInv, NEW n \in Nodes, NEW p, NEW d, NEW m, Moves(n, p, d, m),
           DOMAIN db' = Nodes, \A c \in Nodes : Grows(db[c], db'[c]),
           SchemaOK(p, m, Db(n)'), \A c \in Nodes : CopyOK(c)',
           DOMAIN left' = Nodes, DOMAIN watcher' = Nodes,
           mustStop' \in [Nodes -> [len : {0, 1}, closed : BOOLEAN]],
           \A k \in Nodes \ {n} : mustStop'[k] = mustStop[k],
           mustStop'[n].closed => p \in {"wait", "hung"}
    PROVE  ServerInv'
  <1>1. TypesOK'
    BY NodeStep DEF TypesOK
  <1>2. /\ \A k \in Nodes : FilesOK(k, pc[k], dir[k], mem[k], mishap)'
        /\ \A k \in Nodes : OriginOK(k, pc[k], dir[k], mem[k], asked[k], mishap)'
    BY NodeStep
  <1>3. /\ \A c \in Nodes : VersionOK(db[c])'
        /\ \A k \in Nodes : SchemaOK(pc[k], mem[k], Db(k))'
    BY SchemaKept
  <1>4. \A k \in Nodes : mustStop'[k].closed => pc'[k] \in {"wait", "hung"}
    <2>1. /\ pc'[n] = p
          /\ \A k \in Nodes \ {n} : pc'[k] = pc[k]
      BY NodeStep
    <2> QED BY <2>1 DEF ServerInv
  <1> QED BY <1>1, <1>2, <1>3, <1>4 DEF ServerInv

\* Nothing happens to the databases.
LEMMA SameDatabases ==
    ASSUME ServerInv, db' = db
    PROVE  DOMAIN db' = Nodes /\ \A c \in Nodes : Grows(db[c], db'[c])
  BY DEF ServerInv, Grows

\* The same channels.
LEMMA SameChannels ==
    ASSUME ServerInv, UNCHANGED <<left, runVars>>
    PROVE  /\ DOMAIN left' = Nodes /\ DOMAIN watcher' = Nodes
           /\ mustStop' \in [Nodes -> [len : {0, 1}, closed : BOOLEAN]]
           /\ \A k \in Nodes : mustStop'[k] = mustStop[k] /\ left'[k] = left[k]
           /\ \A k \in Nodes : pc[k] \notin {"wait", "hung"} => ~mustStop'[k].closed
  BY DEF ServerInv, TypesOK, runVars

\* The steps of New and of the operator.
LEMMA KeptByNew ==
    ASSUME ServerInv, NEW n \in Nodes,
           Boot(n) \/ NewStep(n) \/ PutUpdate(n) \/ CrashInNew(n),
           UNCHANGED <<db, left, runVars>>
    PROVE  ServerInv'
  <1>1. \E p, d, m : /\ Moves(n, p, d, m)
                    /\ pc[n] \in {"down", "panicked"} \cup NewPc
                    /\ p \in {"down", "panicked", "ready"} \cup NewPc
    <2>1. CASE Boot(n) \/ NewStep(n)
      <3>1. PICK p, d, m : /\ Moves(n, p, d, m)
                           /\ pc[n] \in {"down", "panicked"} \cup NewPc
                           /\ p \in {"down", "ready"} \cup NewPc
        BY <2>1, NewSteps
      <3> QED BY <3>1
    <2>2. CASE PutUpdate(n)
      BY <2>2, PutUpdateStep
    <2>3. CASE CrashInNew(n)
      BY <2>3, CrashInNewStep
    <2> QED BY <2>1, <2>2, <2>3
  <1>2. PICK p, d, m : /\ Moves(n, p, d, m)
                       /\ pc[n] \in {"down", "panicked"} \cup NewPc
                       /\ p \in {"down", "panicked", "ready"} \cup NewPc
    BY <1>1
  <1>3. pc[n] \notin {"copy", "wait", "hung"} /\ p # "copy"
    BY <1>2 DEF NewPc
  <1>4. SchemaOK(p, m, Db(n)')
    BY <1>2 DEF SchemaOK, NewPc, RunPc, ShutdownPc
  <1>5. /\ DOMAIN left' = Nodes /\ DOMAIN watcher' = Nodes
        /\ mustStop' \in [Nodes -> [len : {0, 1}, closed : BOOLEAN]]
        /\ \A k \in Nodes : mustStop'[k] = mustStop[k] /\ left'[k] = left[k]
        /\ ~mustStop'[n].closed
    BY <1>3, SameChannels
  <1>6. \A c \in Nodes : CopyOK(c)'
    BY <1>2, <1>3, <1>5, CopyKept
  <1> QED BY <1>2, <1>4, <1>5, <1>6, SameDatabases, Together

\* A step of Start or of a running process that leaves the databases and the
\* copies alone.
LEMMA KeptLater ==
    ASSUME ServerInv, NEW n \in Nodes, pc[n] \in CreatedPc \ {"copy"},
           NEW p \in ({"down", "panicked"} \cup CreatedPc) \ {"copy"},
           NEW m \in Locals, m.opts \in {"none", mem[n].opts},
           p \in {"down", "panicked"} => m = Blank,
           pc' = [pc EXCEPT ![n] = p], mem' = [mem EXCEPT ![n] = m],
           UNCHANGED <<dir, asked>>, mishap \subseteq mishap',
           DOMAIN db' = Nodes, \A c \in Nodes : Grows(db[c], db'[c]),
           \A c \in Nodes : CopiedRows(db'[c]) = CopiedRows(db[c]),
           SchemaOK(p, m, Db(n)'),
           DOMAIN left' = Nodes, DOMAIN watcher' = Nodes,
           \A k \in Nodes \ {n} : left'[k] = left[k],
           mustStop' \in [Nodes -> [len : {0, 1}, closed : BOOLEAN]],
           \A k \in Nodes \ {n} : mustStop'[k] = mustStop[k],
           mustStop'[n].closed => p \in {"wait", "hung"}
    PROVE  ServerInv'
  <1>1. Moves(n, p, dir[n], m)
    BY LaterStep
  <1>2. \A c \in Nodes : CopyOK(c)'
    BY <1>1, CopyKept
  <1> QED BY <1>1, <1>2, Together

\* The versions of SchemaVersion: 0, 0.1, 0.2 and 1.0.
LEMMA Versions ==
    /\ databaseSchemaVersion = 1
    /\ NewSchemaVersion(1, 0) = 65536
    /\ ~CompatibleWith(NewSchemaVersion(1, 0), databaseSchemaVersion)
    /\ Served = {1, 2}
    /\ \A v \in Served : CompatibleWith(v, databaseSchemaVersion)
  BY DEF databaseSchemaVersion, NewSchemaVersion, CompatibleWith, Major, Served

\* The migration, and a write of a row.
LEMMA DatabaseSteps ==
    ASSUME NEW d, VersionOK(d)
    PROVE  /\ Grows(d, Migrated(d)) /\ Migrated(d).rows = d.rows
           /\ d.version <= databaseSchemaVersion =>
                 Migrated(d).version = databaseSchemaVersion
           /\ \A rows : /\ Grows(d, [d EXCEPT !.rows = rows])
                        /\ [d EXCEPT !.rows = rows].rows = rows
  <1>1. ASSUME NEW rows
        PROVE  /\ Grows(d, [d EXCEPT !.rows = rows])
               /\ [d EXCEPT !.rows = rows].rows = rows
    BY Versions DEF VersionOK, Grows
  <1>2. CASE d.version >= databaseSchemaVersion
    <2>1. Migrated(d) = d
      BY <1>2 DEF Migrated
    <2> QED BY <1>1, <1>2, <2>1, Versions DEF Grows, VersionOK
  <1>3. CASE ~(d.version >= databaseSchemaVersion)
    <2> DEFINE e == Migrated(d)
    <2>1. e = [applySchemaV0_1(d) EXCEPT !.version = databaseSchemaVersion]
      BY <1>3 DEF Migrated
    <2>2. /\ e.version = databaseSchemaVersion /\ e.table /\ e.index = "right"
          /\ e.rows = d.rows
          /\ e \in [version : {0, NewSchemaVersion(1, 0)} \cup Served,
                    table : BOOLEAN, index : {"none", "wrong", "other", "right"},
                    rows : {e.rows}]
      BY <2>1 DEF applySchemaV0_1, VersionOK, Served
    <2> HIDE DEF e
    <2> QED BY <1>1, <2>2, Versions DEF VersionOK, Grows, e
  <1> QED BY <1>2, <1>3

\* A change of the database of one node's cluster.
LEMMA SetDbIs ==
    ASSUME ServerInv, NEW n \in Nodes, pc[n] \in CreatedPc, dir' = dir,
           NEW e, Grows(Db(n), e), SetDb(n, e)
    PROVE  /\ DOMAIN db' = Nodes /\ \A c \in Nodes : Grows(db[c], db'[c])
           /\ \A c \in Nodes : db'[c] = IF c = Cluster(n) THEN e ELSE db[c]
           /\ Db(n)' = e
  <1>1. Cluster(n) \in Nodes /\ Db(n) = db[Cluster(n)]
    BY HasCluster
  <1>2. DOMAIN db = Nodes /\ \A c \in Nodes : Grows(db[c], db[c])
    BY DEF ServerInv, Grows
  <1>3. db' = [db EXCEPT ![Cluster(n)] = e]
    BY DEF SetDb
  <1>4. \A c \in Nodes : db'[c] = IF c = Cluster(n) THEN e ELSE db[c]
    BY <1>2, <1>3
  <1>5. DOMAIN db' = Nodes
    BY <1>2, <1>3
  <1>6. \A c \in Nodes : Grows(db[c], db'[c])
    BY <1>1, <1>2, <1>4
  <1>7. Cluster(n)' = Cluster(n)
    BY DEF Cluster
  <1>8. Db(n)' = e
    BY <1>1, <1>4, <1>7 DEF Db
  <1> QED BY <1>4, <1>5, <1>6, <1>8

\* A row that is created is not one of the old ones.
LEMMA WithKeyIs ==
    ASSUME NEW d, NEW e, NEW name, e.rows = WithKey(d.rows, name)
    PROVE  CopiedRows(e) = CopiedRows(d)
  <1>1. CASE e.rows = d.rows
    BY <1>1 DEF CopiedRows
  <1>2. CASE e.rows = d.rows \cup {[id |-> NextId(d.rows), name |-> name, old |-> FALSE]}
    BY <1>2 DEF CopiedRows
  <1> QED BY <1>1, <1>2 DEF WithKey

\* The steps of Start.
LEMMA KeptBySetup ==
    ASSUME ServerInv, NEW n \in Nodes, SetupStep(n), UNCHANGED runVars
    PROVE  ServerInv'
  <1>1. /\ mem[n] \in Locals /\ mem = [mem EXCEPT ![n] = mem[n]]
        /\ pc = [pc EXCEPT ![n] = pc[n]]
    BY OfNode
  <1>2. /\ DOMAIN left = Nodes /\ DOMAIN watcher' = Nodes
        /\ mustStop' \in [Nodes -> [len : {0, 1}, closed : BOOLEAN]]
        /\ \A k \in Nodes : mustStop'[k] = mustStop[k]
        /\ pc[n] \notin {"wait", "hung"} => ~mustStop'[n].closed
    BY DEF ServerInv, TypesOK, runVars
  <1>3. SchemaOK(pc[n], mem[n], Db(n))
    BY DEF ServerInv
  <1>4. dir' = dir => Cluster(n)' = Cluster(n)
    BY DEF Cluster
  <1>5. CASE Ready(n)
    <2>1. SchemaOK("setup", mem[n], Db(n)')
      BY DEF SchemaOK, RunPc, ShutdownPc
    <2>2. /\ pc[n] = "ready" /\ pc' = [pc EXCEPT ![n] = "setup"]
          /\ UNCHANGED <<dir, mem, asked, mishap, db, left>>
      BY <1>5 DEF Ready, At, Goto
    <2>3. pc[n] \in CreatedPc \ {"copy"} /\ "setup" \in CreatedPc \ {"copy"}
      BY <2>2 DEF CreatedPc, SetupPc
    <2> QED BY <1>1, <1>2, <2>1, <2>2, <2>3, SameDatabases, KeptLater
  <1>6. CASE CheckVersion(n)
    <2> DEFINE p == IF Db(n).version >= databaseSchemaVersion THEN "migrate" ELSE "apply"
    <2>1. /\ pc[n] = "setup" /\ pc' = [pc EXCEPT ![n] = p]
          /\ CompatibleWith(Db(n).version, databaseSchemaVersion)
          /\ UNCHANGED <<dir, mem, asked, mishap, db, left>>
      BY <1>6 DEF CheckVersion, At, Goto
    <2>2. pc[n] \in CreatedPc \ {"copy"} /\ p \in CreatedPc \ {"copy"}
      BY <2>1 DEF CreatedPc, SetupPc
    <2>3. Db(n)' = Db(n)
      BY <1>4, <2>1 DEF Db
    <2>4. Db(n).version \in {0} \cup Served
      BY <2>1, <2>2, HasCluster, Versions DEF VersionOK
    <2>5. SchemaOK(p, mem[n], Db(n)')
      BY <2>3, <2>4, Versions DEF SchemaOK, RunPc, ShutdownPc
    <2>6. p \notin {"down", "panicked"}
      OBVIOUS
    <2> HIDE DEF p
    <2> QED BY <1>1, <1>2, <2>1, <2>2, <2>5, <2>6, SameDatabases, KeptLater
  <1>7. CASE ApplySchema(n)
    <2>1. /\ pc[n] = "apply" /\ pc' = [pc EXCEPT ![n] = "migrate"]
          /\ SetDb(n, Migrated(Db(n)))
          /\ UNCHANGED <<dir, mem, asked, mishap, left>>
      BY <1>7 DEF ApplySchema, At, Goto
    <2>2. pc[n] \in CreatedPc \ {"copy"} /\ "migrate" \in CreatedPc \ {"copy"}
      BY <2>1 DEF CreatedPc, SetupPc
    <2>3. VersionOK(Db(n)) /\ Db(n) = db[Cluster(n)] /\ Cluster(n) \in Nodes
      BY <2>2, HasCluster
    <2>4. /\ Grows(Db(n), Migrated(Db(n))) /\ Migrated(Db(n)).rows = Db(n).rows
          /\ Migrated(Db(n)).version = databaseSchemaVersion
      BY <1>3, <2>1, <2>3, DatabaseSteps DEF SchemaOK
    <2>5. /\ DOMAIN db' = Nodes /\ \A c \in Nodes : Grows(db[c], db'[c])
          /\ \A c \in Nodes : db'[c] = IF c = Cluster(n) THEN Migrated(Db(n)) ELSE db[c]
          /\ Db(n)' = Migrated(Db(n))
      BY <2>1, <2>2, <2>4, SetDbIs
    <2>6. \A c \in Nodes : CopiedRows(db'[c]) = CopiedRows(db[c])
      BY <2>3, <2>4, <2>5 DEF CopiedRows
    <2>7. SchemaOK("migrate", mem[n], Db(n)')
      BY <2>4, <2>5 DEF SchemaOK, RunPc, ShutdownPc, Served
    <2> QED BY <1>1, <1>2, <2>1, <2>2, <2>5, <2>6, <2>7, KeptLater
  <1>8. CASE GiveUp(n)
    <2> DEFINE m == [mem[n] EXCEPT !.gaveUp = TRUE]
    <2>1. /\ pc[n] = "setup" /\ pc' = [pc EXCEPT ![n] = "migrate"]
          /\ mem' = [mem EXCEPT ![n] = m]
          /\ UNCHANGED <<dir, asked, mishap, db, left>>
      BY <1>8 DEF GiveUp, At, Goto
    <2>2. m \in Locals /\ m.opts = mem[n].opts /\ m.gaveUp
      BY <1>1 DEF Locals
    <2> HIDE DEF m
    <2>3. pc[n] \in CreatedPc \ {"copy"} /\ "migrate" \in CreatedPc \ {"copy"}
      BY <2>1 DEF CreatedPc, SetupPc
    <2>4. SchemaOK("migrate", m, Db(n)')
      BY <2>2 DEF SchemaOK, RunPc, ShutdownPc
    <2> QED BY <1>2, <2>1, <2>2, <2>3, <2>4, SameDatabases, KeptLater
  <1>9. CASE CountRows(n)
    <2>1. /\ pc[n] = "migrate" /\ UNCHANGED <<dir, asked, mishap, db>>
          /\ pc[n] \in CreatedPc \ {"copy"}
      BY <1>9 DEF CountRows, At, CreatedPc, SetupPc
    <2>2. Db(n)' = Db(n)
      BY <1>4, <2>1 DEF Db
    <2>3. CASE Exit(n) /\ UNCHANGED left
      <3>1. pc' = [pc EXCEPT ![n] = "down"] /\ mem' = [mem EXCEPT ![n] = Blank]
        BY <2>3 DEF Exit, Goto
      <3>2. SchemaOK("down", Blank, Db(n)')
        BY DEF SchemaOK, RunPc, ShutdownPc
      <3> QED BY <1>2, <2>1, <2>3, <3>1, <3>2, BlankIsLocal, SameDatabases, KeptLater
    <2>4. CASE Db(n).table /\ Goto(n, "start") /\ UNCHANGED <<left, mem>>
      <3>1. pc' = [pc EXCEPT ![n] = "start"] /\ "start" \in CreatedPc \ {"copy"}
        BY <2>4 DEF Goto, CreatedPc, SetupPc
      <3>2. SchemaOK("start", mem[n], Db(n)')
        BY <1>3, <2>1, <2>2, <2>4 DEF SchemaOK
      <3> QED BY <1>1, <1>2, <2>1, <2>4, <3>1, <3>2, SameDatabases, KeptLater
    <2>5. CASE /\ Db(n).table /\ Goto(n, "copy") /\ UNCHANGED mem
               /\ left' = [left EXCEPT ![n] = OldRows] /\ Db(n).rows = {}
      <3>1. pc' = [pc EXCEPT ![n] = "copy"] /\ "copy" \in CreatedPc
        BY <2>5 DEF Goto, CreatedPc, SetupPc
      <3>2. SchemaOK("copy", mem[n], Db(n)')
        BY <1>3, <2>1, <2>2, <2>5 DEF SchemaOK
      <3>3. /\ left'[n] = OldRows /\ \A k \in Nodes \ {n} : left'[k] = left[k]
            /\ DOMAIN left' = Nodes
        BY <1>2, <2>5
      <3>4. Moves(n, "copy", dir[n], mem[n])
        BY <1>1, <2>1, <2>5, <3>1, LaterStep
      <3>5. \A c \in Nodes : CopyOK(c)'
        BY <2>1, <2>5, <3>3, <3>4, CopyBegins
      <3> QED BY <1>2, <2>1, <3>2, <3>3, <3>4, <3>5, SameDatabases, Together
    <2> QED BY <1>9, <2>3, <2>4, <2>5 DEF CountRows
  <1>12. CASE OldDataUnreadable(n)
    <2>1. /\ pc[n] = "migrate" /\ pc' = [pc EXCEPT ![n] = "start"] /\ Db(n).table
          /\ UNCHANGED <<dir, mem, asked, mishap, db, left>>
      BY <1>12 DEF OldDataUnreadable, At, Goto
    <2>2. pc[n] \in CreatedPc \ {"copy"} /\ "start" \in CreatedPc \ {"copy"}
      BY <2>1 DEF CreatedPc, SetupPc
    <2>3. Db(n)' = Db(n)
      BY <1>4, <2>1 DEF Db
    <2>4. SchemaOK("start", mem[n], Db(n)')
      BY <1>3, <2>1, <2>3 DEF SchemaOK
    <2> QED BY <1>1, <1>2, <2>1, <2>2, <2>4, SameDatabases, KeptLater
  <1>10. CASE CopyRow(n)
    <2>1. /\ pc[n] = "copy" /\ UNCHANGED <<dir, asked>> /\ pc[n] \in CreatedPc
      BY <1>10 DEF CopyRow, At, CreatedPc, SetupPc
    <2>2. ASSUME left' = [left EXCEPT ![n] = {}]
          PROVE  DOMAIN left' = Nodes /\ \A k \in Nodes \ {n} : left'[k] = left[k]
      BY <1>2, <2>2
    <2>3. CASE /\ CopiedAll(left[n]) /\ Goto(n, "start")
               /\ left' = [left EXCEPT ![n] = {}] /\ UNCHANGED <<mem, mishap, db>>
      <3>1. pc' = [pc EXCEPT ![n] = "start"] /\ "start" \in CreatedPc
        BY <2>3 DEF Goto, CreatedPc, SetupPc
      <3>2. Db(n)' = Db(n)
        BY <1>4, <2>1, <2>3 DEF Db
      <3>3. SchemaOK("start", mem[n], Db(n)')
        BY <1>3, <2>1, <3>2 DEF SchemaOK
      <3>4. Moves(n, "start", dir[n], mem[n])
        BY <1>1, <2>1, <2>3, <3>1, LaterStep
      <3>5. left[n] = {}
        BY <2>3 DEF CopiedAll
      <3>6. \A c \in Nodes : CopyOK(c)'
        BY <2>1, <2>2, <2>3, <3>4, <3>5, CopyEnds
      <3> QED BY <1>2, <2>1, <2>2, <2>3, <3>3, <3>4, <3>6, SameDatabases, Together
    <2>4. ASSUME NEW row \in left[n], \A r \in left[n] : row.id <= r.id,
                 \E r \in Db(n).rows : r.id = row.id,
                 Exit(n), mishap' = mishap \cup Cut(n),
                 left' = [left EXCEPT ![n] = {}], UNCHANGED db
          PROVE  ServerInv'
      <3>1. pc' = [pc EXCEPT ![n] = "down"] /\ mem' = [mem EXCEPT ![n] = Blank]
        BY <2>4 DEF Exit, Goto
      <3>2. SchemaOK("down", Blank, Db(n)')
        BY DEF SchemaOK, RunPc, ShutdownPc
      <3>3. Moves(n, "down", dir[n], Blank)
        BY <2>1, <2>4, <3>1, BlankIsLocal, LaterStep
      <3>4. \A c \in Nodes : CopyOK(c)'
        BY <2>1, <2>2, <2>4, <3>3, CopyEnds
      <3> QED BY <1>2, <2>1, <2>2, <2>4, <3>2, <3>3, <3>4, SameDatabases, Together
    <2>5. ASSUME NEW row \in left[n], \A r \in left[n] : row.id <= r.id,
                 ~\E r \in Db(n).rows : r.id = row.id,
                 SetDb(n, [Db(n) EXCEPT !.rows = @ \cup {row}]),
                 left' = [left EXCEPT ![n] = @ \ {row}],
                 UNCHANGED <<pc, mem, mishap>>
          PROVE  ServerInv'
      <3> DEFINE e == [Db(n) EXCEPT !.rows = Db(n).rows \cup {row}]
      <3>1. VersionOK(Db(n)) /\ Db(n) = db[Cluster(n)] /\ Cluster(n) \in Nodes
        BY <2>1, HasCluster
      <3>2. Grows(Db(n), e) /\ e.rows = Db(n).rows \cup {row} /\ SetDb(n, e)
        BY <2>5, <3>1, DatabaseSteps
      <3> HIDE DEF e
      <3>3. /\ DOMAIN db' = Nodes /\ \A c \in Nodes : Grows(db[c], db'[c])
            /\ \A c \in Nodes : db'[c] = IF c = Cluster(n) THEN e ELSE db[c]
            /\ Db(n)' = e
        BY <2>1, <3>2, SetDbIs
      <3>4. \A c \in Nodes : db'[c].rows =
               IF c = Cluster(n) THEN db[c].rows \cup {row} ELSE db[c].rows
        BY <3>1, <3>2, <3>3
      <3>5. \A c \in Nodes : CopyOK(c)'
        BY <2>1, <2>5, <3>4, CopyGoesOn
      <3>6. Moves(n, pc[n], dir[n], mem[n])
        BY <1>1, <2>1, <2>5, LaterStep
      <3>7. SchemaOK(pc[n], mem[n], Db(n)')
        BY <1>3, <2>1, <3>2, <3>3 DEF SchemaOK, Grows
      <3>8. DOMAIN left' = Nodes
        BY <1>2, <2>5
      <3> QED BY <1>2, <2>1, <3>3, <3>5, <3>6, <3>7, <3>8, Together
    <2> QED BY <1>10, <2>3, <2>4, <2>5 DEF CopyRow
  <1>11. CASE StartBackend(n)
    <2> DEFINE e == [Db(n) EXCEPT !.rows = WithKey(Db(n).rows, CompactKey)]
    <2>1. /\ pc[n] = "start" /\ pc' = [pc EXCEPT ![n] = "health"]
          /\ SetDb(n, e)
          /\ UNCHANGED <<dir, mem, asked, mishap, left>>
      BY <1>11 DEF StartBackend, At, Goto
    <2>2. pc[n] \in CreatedPc \ {"copy"} /\ "health" \in CreatedPc \ {"copy"}
      BY <2>1 DEF CreatedPc, SetupPc
    <2>3. VersionOK(Db(n)) /\ Db(n) = db[Cluster(n)] /\ Cluster(n) \in Nodes
      BY <2>2, HasCluster
    <2>4. Grows(Db(n), e) /\ e.rows = WithKey(Db(n).rows, CompactKey)
      BY <2>3, DatabaseSteps
    <2> HIDE DEF e
    <2>5. /\ DOMAIN db' = Nodes /\ \A c \in Nodes : Grows(db[c], db'[c])
          /\ \A c \in Nodes : db'[c] = IF c = Cluster(n) THEN e ELSE db[c]
          /\ Db(n)' = e
      BY <2>1, <2>2, <2>4, SetDbIs
    <2>6. CopiedRows(e) = CopiedRows(Db(n))
      BY <2>4, WithKeyIs
    <2>7. \A c \in Nodes : CopiedRows(db'[c]) = CopiedRows(db[c])
      BY <2>3, <2>5, <2>6
    <2>8. SchemaOK("health", mem[n], Db(n)')
      BY <1>3, <2>1, <2>4, <2>5 DEF SchemaOK, Grows
    <2> QED BY <1>1, <1>2, <2>1, <2>2, <2>5, <2>7, <2>8, KeptLater
  <1> QED BY <1>5, <1>6, <1>7, <1>8, <1>9, <1>10, <1>11, <1>12 DEF SetupStep

\* A crash or an error in Start.
LEMMA KeptByCrash ==
    ASSUME ServerInv, NEW n \in Nodes, CrashInSetup(n), UNCHANGED runVars
    PROVE  ServerInv'
  <1>1. /\ pc[n] \in CreatedPc /\ pc[n] \notin {"wait", "hung"}
        /\ pc' = [pc EXCEPT ![n] = "down"] /\ mem' = [mem EXCEPT ![n] = Blank]
        /\ mishap' = mishap \cup Cut(n) /\ left' = [left EXCEPT ![n] = {}]
        /\ UNCHANGED <<dir, asked, db>>
    BY DEF CrashInSetup, Exit, Goto, CreatedPc, SetupPc
  <1>2. /\ DOMAIN left' = Nodes /\ DOMAIN watcher' = Nodes
        /\ mustStop' \in [Nodes -> [len : {0, 1}, closed : BOOLEAN]]
        /\ \A k \in Nodes : mustStop'[k] = mustStop[k]
        /\ ~mustStop'[n].closed
        /\ \A k \in Nodes \ {n} : left'[k] = left[k]
    BY <1>1 DEF ServerInv, TypesOK, runVars
  <1>3. SchemaOK("down", Blank, Db(n)')
    BY DEF SchemaOK, RunPc, ShutdownPc
  <1>4. Moves(n, "down", dir[n], Blank)
    BY <1>1, BlankIsLocal, LaterStep
  <1>5. \A c \in Nodes : CopyOK(c)'
    <2>1. CASE pc[n] = "copy"
      BY <1>1, <1>2, <1>4, <2>1, CopyEnds
    <2>2. CASE pc[n] # "copy"
      BY <1>1, <1>2, <1>4, <2>2, CopyKept
    <2> QED BY <2>1, <2>2
  <1> QED BY <1>1, <1>2, <1>3, <1>4, <1>5, SameDatabases, Together

\* The listener opens.
LEMMA KeptByListen ==
    ASSUME ServerInv, NEW n \in Nodes, Listen(n)
    PROVE  ServerInv'
  <1> DEFINE e == [Db(n) EXCEPT !.rows = WithKey(Db(n).rows, HealthKey)]
  <1>1. /\ pc[n] = "health" /\ pc' = [pc EXCEPT ![n] = "serving"]
        /\ SetDb(n, e) \/ UNCHANGED db
        /\ UNCHANGED <<dir, mem, asked, mishap, left, mustStop>>
    BY DEF Listen, CreateHealth, At, Goto
  <1>2. /\ DOMAIN left' = Nodes /\ DOMAIN watcher' = Nodes
        /\ mustStop' \in [Nodes -> [len : {0, 1}, closed : BOOLEAN]]
        /\ \A k \in Nodes : mustStop'[k] = mustStop[k] /\ left'[k] = left[k]
        /\ ~mustStop'[n].closed
    BY <1>1 DEF ServerInv, TypesOK, Listen
  <1>3. pc[n] \in CreatedPc \ {"copy"} /\ "serving" \in CreatedPc \ {"copy"}
    BY <1>1 DEF CreatedPc, SetupPc, RunPc, ShutdownPc
  <1>4. VersionOK(Db(n)) /\ Db(n) = db[Cluster(n)] /\ Cluster(n) \in Nodes
    BY <1>3, HasCluster
  <1>5. Grows(Db(n), e) /\ e.rows = WithKey(Db(n).rows, HealthKey)
    BY <1>4, DatabaseSteps
  <1> HIDE DEF e
  <1>6. SchemaOK(pc[n], mem[n], Db(n)) /\ mem[n] \in Locals
        /\ mem = [mem EXCEPT ![n] = mem[n]]
    BY OfNode DEF ServerInv
  <1>7. CASE SetDb(n, e)
    <2>1. /\ DOMAIN db' = Nodes /\ \A c \in Nodes : Grows(db[c], db'[c])
          /\ \A c \in Nodes : db'[c] = IF c = Cluster(n) THEN e ELSE db[c]
          /\ Db(n)' = e
      BY <1>1, <1>3, <1>5, <1>7, SetDbIs
    <2>2. CopiedRows(e) = CopiedRows(Db(n))
      BY <1>5, WithKeyIs
    <2>3. \A c \in Nodes : CopiedRows(db'[c]) = CopiedRows(db[c])
      BY <1>4, <2>1, <2>2
    <2>4. SchemaOK("serving", mem[n], Db(n)')
      BY <1>1, <1>5, <1>6, <2>1 DEF SchemaOK, Grows
    <2> QED BY <1>1, <1>2, <1>3, <1>6, <2>1, <2>3, <2>4, KeptLater
  <1>8. CASE UNCHANGED db
    <2>1. Db(n)' = Db(n)
      BY <1>1, <1>8 DEF Db, Cluster
    <2>2. SchemaOK("serving", mem[n], Db(n)')
      BY <1>1, <1>6, <2>1 DEF SchemaOK
    <2> QED BY <1>1, <1>2, <1>3, <1>6, <1>8, <2>2, SameDatabases, KeptLater
  <1> QED BY <1>1, <1>7, <1>8

\* A process that serves or stops ends.
LEMMA KeptByDie ==
    ASSUME ServerInv, NEW n \in Nodes, pc[n] \in RunPc,
           NEW how \in {"down", "panicked"}, Die(n, how)
    PROVE  ServerInv'
  <1>1. /\ pc' = [pc EXCEPT ![n] = how] /\ mem' = [mem EXCEPT ![n] = Blank]
        /\ watcher' = [watcher EXCEPT ![n] = "off"]
        /\ mustStop' = [mustStop EXCEPT ![n] = NewChannel]
        /\ UNCHANGED <<dir, asked, mishap, db, left>>
    BY DEF Die, Goto
  <1>2. /\ DOMAIN left' = Nodes /\ DOMAIN watcher' = Nodes
        /\ mustStop' \in [Nodes -> [len : {0, 1}, closed : BOOLEAN]]
        /\ \A k \in Nodes \ {n} : mustStop'[k] = mustStop[k]
        /\ ~mustStop'[n].closed
        /\ \A k \in Nodes : left'[k] = left[k]
    BY <1>1 DEF ServerInv, TypesOK, NewChannel
  <1>3. SchemaOK(how, Blank, Db(n)')
    BY DEF SchemaOK, RunPc, ShutdownPc
  <1>4. pc[n] \in CreatedPc \ {"copy"} /\ how \in ({"down", "panicked"} \cup CreatedPc) \ {"copy"}
    BY DEF CreatedPc, RunPc, ShutdownPc
  <1> QED BY <1>1, <1>2, <1>3, <1>4, BlankIsLocal, SameDatabases, KeptLater

\* A process that serves goes on to stop, or a step further.
LEMMA KeptByStop ==
    ASSUME ServerInv, NEW n \in Nodes, pc[n] \in RunPc, NEW p \in RunPc,
           Goto(n, p), UNCHANGED <<dir, mem, asked, mishap, db, left, watcher>>,
           mustStop' \in [Nodes -> [len : {0, 1}, closed : BOOLEAN]],
           \A k \in Nodes \ {n} : mustStop'[k] = mustStop[k],
           mustStop'[n].closed => p \in {"wait", "hung"}
    PROVE  ServerInv'
  <1>1. pc' = [pc EXCEPT ![n] = p]
    BY DEF Goto
  <1>2. /\ DOMAIN left' = Nodes /\ DOMAIN watcher' = Nodes
        /\ \A k \in Nodes : left'[k] = left[k]
    BY DEF ServerInv, TypesOK
  <1>3. SchemaOK(pc[n], mem[n], Db(n)) /\ mem[n] \in Locals
        /\ mem = [mem EXCEPT ![n] = mem[n]]
    BY OfNode DEF ServerInv
  <1>4. /\ pc[n] \in CreatedPc \ {"copy"} /\ p \in CreatedPc \ {"copy"}
        /\ p \notin {"down", "panicked", "apply"}
    BY DEF CreatedPc, RunPc, ShutdownPc
  <1>5. Db(n)' = Db(n)
    BY DEF Db, Cluster
  <1>6. SchemaOK(p, mem[n], Db(n)')
    BY <1>3, <1>4, <1>5 DEF SchemaOK
  <1> QED BY <1>1, <1>2, <1>3, <1>4, <1>6, SameDatabases, KeptLater

\* The watch of the storage changes nothing that the invariant is about.
LEMMA KeptByWatcher ==
    ASSUME ServerInv, UNCHANGED setupVars, DOMAIN watcher' = Nodes,
           mustStop' \in [Nodes -> [len : {0, 1}, closed : BOOLEAN]],
           \A k \in Nodes : mustStop'[k].closed => mustStop[k].closed
    PROVE  ServerInv'
  <1>1. UNCHANGED <<pc, dir, mem, asked, mishap, db, left>>
    BY DEF setupVars, dirVars
  <1>2. TypesOK'
    BY <1>1 DEF ServerInv, TypesOK
  <1>3. ASSUME NEW c \in Nodes PROVE CopyOK(c)'
    <2>1. CopyingTo(c)' = CopyingTo(c)
      BY <1>1 DEF CopyingTo, Cluster
    <2>2. CopyOK(c)
      BY DEF ServerInv
    <2> QED BY <1>1, <2>1, <2>2 DEF CopyOK
  <1>4. \A n \in Nodes : SchemaOK(pc[n], mem[n], Db(n))'
    BY <1>1 DEF ServerInv, Db, Cluster
  <1> QED BY <1>1, <1>2, <1>3, <1>4 DEF ServerInv

\* The steps of a process that serves or stops.
LEMMA KeptByRun ==
    ASSUME ServerInv, NEW n \in Nodes,
           \/ SendMustStop(n) \/ StopStep(n) \/ FindLowStorage(n)
           \/ EndWatcher(n) \/ Signal(n) \/ CrashInRun(n) \/ Kill(n)
    PROVE  ServerInv'
  <1>1. /\ mustStop \in [Nodes -> [len : {0, 1}, closed : BOOLEAN]]
        /\ DOMAIN watcher = Nodes /\ (mustStop[n].closed => pc[n] \in {"wait", "hung"})
    BY DEF ServerInv, TypesOK
  <1>2. CASE FindLowStorage(n) \/ EndWatcher(n)
    <2>1. UNCHANGED <<setupVars, mustStop>> /\ DOMAIN watcher' = Nodes
      BY <1>1, <1>2 DEF FindLowStorage, EndWatcher
    <2> QED BY <1>1, <2>1, KeptByWatcher
  <1>3. CASE SendMustStop(n)
    <2>1. CASE mustStop[n].closed /\ Die(n, "panicked")
      <3>1. pc[n] \in RunPc
        BY <1>1, <2>1 DEF RunPc, ShutdownPc
      <3> QED BY <2>1, <3>1, KeptByDie
    <2>2. CASE /\ ~mustStop[n].closed
               /\ mustStop' = [mustStop EXCEPT ![n].len = 1]
               /\ watcher' = [watcher EXCEPT ![n] = "sleep"]
               /\ UNCHANGED setupVars
      <3>1. /\ DOMAIN watcher' = Nodes
            /\ mustStop' \in [Nodes -> [len : {0, 1}, closed : BOOLEAN]]
            /\ \A k \in Nodes : mustStop'[k].closed => mustStop[k].closed
        BY <1>1, <2>2
      <3> QED BY <2>2, <3>1, KeptByWatcher
    <2> QED BY <1>3, <2>1, <2>2 DEF SendMustStop
  <1>4. CASE Signal(n) \/ Handover(n)
    <2>1. pc[n] \in RunPc /\ pc[n] \notin {"wait", "hung"}
      BY <1>4 DEF Signal, Handover, At, RunPc, ShutdownPc
    <2>2. \E p \in RunPc : Goto(n, p)
      BY <1>4 DEF Signal, Handover, RunPc, ShutdownPc
    <2>3. UNCHANGED <<dir, mem, asked, mishap, db, left, watcher, mustStop>>
      BY <1>4 DEF Signal, Handover, runVars
    <2> QED BY <1>1, <2>1, <2>2, <2>3, KeptByStop
  <1>5. CASE ReceiveMustStop(n)
    <2>1. /\ pc[n] = "serving" /\ Goto(n, "handover")
          /\ mustStop' = [mustStop EXCEPT ![n].len = 0]
          /\ UNCHANGED <<dir, mem, asked, mishap, db, left, watcher>>
      BY <1>5 DEF ReceiveMustStop, At
    <2>2. pc[n] \in RunPc /\ "handover" \in RunPc
      BY <2>1 DEF RunPc, ShutdownPc
    <2>3. /\ mustStop' \in [Nodes -> [len : {0, 1}, closed : BOOLEAN]]
          /\ \A k \in Nodes \ {n} : mustStop'[k] = mustStop[k]
          /\ ~mustStop'[n].closed
      BY <1>1, <2>1
    <2> QED BY <2>1, <2>2, <2>3, KeptByStop
  <1>6. CASE CloseApp(n)
    <2>1. pc[n] = "close app" /\ pc[n] \in RunPc
      BY <1>6 DEF CloseApp, At, RunPc, ShutdownPc
    <2>2. CASE Die(n, "down")
      BY <2>1, <2>2, KeptByDie
    <2>3. CASE /\ Goto(n, "close channel")
               /\ UNCHANGED <<dir, mem, asked, mishap, db, left, runVars>>
      <3>1. "close channel" \in RunPc
        BY DEF RunPc, ShutdownPc
      <3> QED BY <1>1, <2>1, <2>3, <3>1, KeptByStop DEF runVars
    <2> QED BY <1>6, <2>2, <2>3 DEF CloseApp
  <1>7. CASE CloseChannel(n)
    <2>1. pc[n] = "close channel" /\ pc[n] \in RunPc /\ "wait" \in RunPc
      BY <1>7 DEF CloseChannel, At, RunPc, ShutdownPc
    <2>2. CASE Die(n, "panicked")
      BY <2>1, <2>2, KeptByDie
    <2>3. CASE /\ mustStop' = [mustStop EXCEPT ![n].closed = TRUE]
               /\ Goto(n, "wait")
               /\ UNCHANGED <<dir, mem, asked, mishap, db, left, watcher>>
      <3>1. /\ mustStop' \in [Nodes -> [len : {0, 1}, closed : BOOLEAN]]
            /\ \A k \in Nodes \ {n} : mustStop'[k] = mustStop[k]
        BY <1>1, <2>3
      <3> QED BY <2>1, <2>3, <3>1, KeptByStop
    <2> QED BY <1>7, <2>2, <2>3 DEF CloseChannel
  <1>8. CASE CrashInRun(n) \/ Kill(n)
    <2>1. pc[n] \in RunPc /\ Die(n, "down")
      BY <1>8 DEF Kill, CrashInRun, At, RunPc, ShutdownPc
    <2> QED BY <2>1, KeptByDie
  <1>9. CASE WaitBackend(n)
    <2>1. pc[n] = "wait" /\ pc[n] \in RunPc /\ "hung" \in RunPc
      BY <1>9 DEF WaitBackend, At, RunPc, ShutdownPc
    <2>2. CASE Die(n, "down")
      BY <2>1, <2>2, KeptByDie
    <2>3. CASE /\ Goto(n, "hung")
               /\ UNCHANGED <<dir, mem, asked, mishap, db, left, runVars>>
      BY <1>1, <2>1, <2>3, KeptByStop DEF runVars
    <2> QED BY <1>9, <2>2, <2>3 DEF WaitBackend
  <1> QED BY <1>2, <1>3, <1>4, <1>5, <1>6, <1>7, <1>8, <1>9 DEF StopStep

\* Every step keeps the invariant.
LEMMA ServerStep ==
    ASSUME ServerInv, [ServerNext]_vars PROVE ServerInv'
  <1>1. CASE ServerNext
    <2>1. PICK n \in Nodes :
             \/ Run(n)
             \/ FindLowStorage(n)
             \/ EndWatcher(n)
             \/ Signal(n)
             \/ PutUpdate(n) /\ UNCHANGED <<db, left, runVars>>
             \/ CrashInNew(n) /\ UNCHANGED <<db, left, runVars>>
             \/ CrashInSetup(n) /\ UNCHANGED runVars
             \/ CrashInRun(n)
             \/ Kill(n)
      BY <1>1 DEF ServerNext
    <2>2. CASE StartStep(n)
      BY <2>2, KeptByNew, KeptBySetup, KeptByListen DEF StartStep
    <2> QED BY <2>1, <2>2, KeptByNew, KeptByCrash, KeptByRun DEF Run
  <1>2. CASE UNCHANGED vars
    <2>1. UNCHANGED setupVars /\ UNCHANGED <<watcher, mustStop>>
      BY <1>2 DEF vars
    <2>2. mustStop \in [Nodes -> [len : {0, 1}, closed : BOOLEAN]]
          /\ DOMAIN watcher = Nodes
      BY DEF ServerInv, TypesOK
    <2> QED BY <2>1, <2>2, KeptByWatcher
  <1> QED BY <1>1, <1>2

\* What the operator may have prepared satisfies the invariant.
LEMMA ServerStarts ==
    ASSUME ServerInit PROVE ServerInv
  <1>1. /\ pc = [n \in Nodes |-> "down"] /\ mem = [n \in Nodes |-> Blank]
        /\ mishap = {} /\ left = [n \in Nodes |-> {}]
        /\ asked = [n \in Nodes |-> IF n = First THEN "bootstrap" ELSE dir[n].init]
        /\ watcher = [n \in Nodes |-> "off"]
        /\ mustStop = [n \in Nodes |-> NewChannel]
    BY DEF ServerInit, DbInit, DirInit
  <1>2. Absent \in NodeInfo /\ Own("given") \in NodeInfo
        /\ Own("given").addr = "given" /\ Own("given").id = "own"
        /\ Own("given") # Absent
    BY DEF Absent, Own, NodeInfo, Addrs
  <1>3. ASSUME NEW i \in {"absent", "bootstrap", "join"}
        PROVE  /\ Fresh(i) \in Files /\ Fresh(i).init = i /\ ~Fresh(i).update
               /\ Unused(Fresh(i))
    BY <1>2 DEF Fresh, Files, Unused, Addrs
  <1>4. PICK first \in {Fresh("bootstrap"), Used(First),
                        [Used(First) EXCEPT !.init = "bootstrap"],
                        [Fresh("absent") EXCEPT !.update = TRUE]},
             init \in [Nodes -> {"absent", "join"}] :
          dir = [n \in Nodes |-> IF n = First THEN first ELSE Fresh(init[n])]
    BY DEF ServerInit, DbInit, DirInit
  <1>5. /\ first \in Files /\ first.init \in {"absent", "bootstrap"}
        /\ \/ Unused(first) /\ (first.update \/ first.init = "bootstrap")
           \/ /\ Agrees(first) /\ first.info = Own("given")
              /\ first.cluster = {First}
    <2>1. CASE first = Fresh("bootstrap")
      BY <1>3, <2>1
    <2>2. CASE first = Used(First)
      BY <1>2, <2>2, StateDirAssumption DEF Used, Fresh, Files, Agrees, Addrs
    <2>3. CASE first = [Used(First) EXCEPT !.init = "bootstrap"]
      BY <1>2, <2>3, StateDirAssumption DEF Used, Fresh, Files, Agrees, Addrs
    <2>4. CASE first = [Fresh("absent") EXCEPT !.update = TRUE]
      BY <1>2, <2>4 DEF Fresh, Files, Unused, Addrs
    <2> QED BY <1>4, <2>1, <2>2, <2>3, <2>4
  <1>6. ASSUME NEW n \in Nodes
        PROVE  /\ dir[n] \in Files /\ asked[n] \in {"absent", "bootstrap", "join"}
               /\ FilesOK(n, "down", dir[n], Blank, mishap)
               /\ OriginOK(n, "down", dir[n], Blank, asked[n], mishap)
    <2>1. "down" \notin Updating \cup CreatedPc
      BY DEF Updating, CreatedPc, SetupPc, RunPc, ShutdownPc
    <2>2. CASE n = First
      <3>1. dir[n] = first /\ asked[n] = "bootstrap"
        BY <1>1, <1>4, <2>2
      <3>2. FilesOK(n, "down", first, Blank, mishap)
        BY <1>2, <1>5, <2>1 DEF FilesOK, Updating, Unused, Agrees
      <3>3. OriginOK(n, "down", first, Blank, "bootstrap", mishap)
        BY <1>2, <1>5, <2>1, <2>2, BlankIsLocal DEF OriginOK, Updating, Unused, Agrees
      <3> QED BY <1>5, <3>1, <3>2, <3>3
    <2>3. CASE n # First
      <3> DEFINE i == init[n]
      <3>1. i \in {"absent", "join"} /\ dir[n] = Fresh(i)
        BY <1>4, <2>3
      <3> HIDE DEF i
      <3>2. asked[n] = i
        BY <1>1, <1>3, <2>3, <3>1
      <3>3. FilesOK(n, "down", Fresh(i), Blank, mishap)
        BY <1>3, <2>1, <3>1 DEF FilesOK, Updating, Unused
      <3>4. OriginOK(n, "down", Fresh(i), Blank, i, mishap)
        BY <1>3, <2>1, <3>1, BlankIsLocal DEF OriginOK, Updating, Unused
      <3> QED BY <1>3, <3>1, <3>2, <3>3, <3>4
    <2> QED BY <2>2, <2>3
  <1>7. TypesOK
    <2>1. dir \in [Nodes -> Files]
      BY <1>4, <1>6
    <2>2. asked \in [Nodes -> {"absent", "bootstrap", "join"}]
      BY <1>1, <1>6
    <2> QED BY <1>1, <2>1, <2>2, BlankIsLocal DEF TypesOK, Pcs, NewChannel
  <1>8. db \in [Nodes -> {NoDb, UpstreamDb, LaterMinorDb, LaterDb}]
    BY DEF ServerInit, DbInit
  <1>9. ASSUME NEW d \in {NoDb, UpstreamDb, LaterMinorDb, LaterDb}
        PROVE  VersionOK(d) /\ CopiedRows(d) = {}
    <2>1. CASE d = NoDb
      BY <2>1, Versions DEF NoDb, VersionOK, CopiedRows
    <2>2. CASE d = UpstreamDb
      <3>1. d = [version |-> 0, table |-> TRUE, index |-> "wrong", rows |-> {}]
        BY <2>2 DEF NoDb, UpstreamDb
      <3> QED BY <3>1, Versions DEF VersionOK, CopiedRows
    <2>3. CASE d = LaterDb
      BY <2>3, Versions DEF LaterDb, VersionOK, CopiedRows
    <2>4. CASE d = LaterMinorDb
      <3>1. /\ d = [version |-> NewSchemaVersion(0, 2), table |-> TRUE,
                    index |-> "right", rows |-> {}]
            /\ NewSchemaVersion(0, 2) \in Served
        BY <2>4 DEF LaterMinorDb, Served
      <3> QED BY <3>1 DEF VersionOK, CopiedRows
    <2> QED BY <2>1, <2>2, <2>3, <2>4
  <1>10. \A c \in Nodes : CopyOK(c)
    <2>1. \A c \in Nodes : CopyingTo(c) = {} /\ CopiedRows(db[c]) = {}
      BY <1>1, <1>8, <1>9 DEF CopyingTo
    <2> QED BY <2>1 DEF CopyOK
  <1>11. \A n \in Nodes : SchemaOK(pc[n], mem[n], Db(n))
    BY <1>1 DEF SchemaOK, RunPc, ShutdownPc
  <1> QED BY <1>1, <1>6, <1>7, <1>8, <1>9, <1>10, <1>11 DEF ServerInv, NewChannel

-----------------------------------------------------------------------------
(* The theorems *)

\* The inductive invariant holds whatever crashes at which step.
THEOREM ServerInvariance == ServerSpec => []ServerInv
  BY ServerStarts, ServerStep, PTL DEF ServerSpec

\* A node that comes up is the node it was, under one address in its three
\* files, unless the write of info.yaml was cut short.
THEOREM IdentityKept == ServerSpec => []NodeKeepsItsIdentity
  <1>1. ServerInv => NodeKeepsItsIdentity
    <2> SUFFICES ASSUME ServerInv, NEW n \in Nodes, Created(n)
                 PROVE  /\ dir[n].raft = dir[n].info
                        /\ dir[n].store = dir[n].info.addr
                        /\ dir[n].info.id = "own" \/ <<n, "info lost">> \in mishap
      BY DEF NodeKeepsItsIdentity
    <2>1. pc[n] \in CreatedPc
      BY OfNode DEF Created, Stopped, Pcs
    <2> QED BY <2>1, OfNode DEF FilesOK, Agrees, Unused
  <1> QED BY <1>1, ServerInvariance, PTL

\* A node serves where its init.yaml said, unless New died between the removal
\* of the file and app.New.
THEOREM ConfigurationKept == ServerSpec => []ServesAsConfigured
  <1>1. ServerInv => ServesAsConfigured
    <2> SUFFICES ASSUME ServerInv, NEW n \in Nodes, Created(n)
                 PROVE  \/ /\ dir[n].info.addr # "default"
                           /\ dir[n].cluster = {IF asked[n] = "join" THEN First ELSE n}
                        \/ <<n, "init lost">> \in mishap
      BY DEF ServesAsConfigured
    <2>1. pc[n] \in CreatedPc
      BY OfNode DEF Created, Stopped, Pcs
    <2>2. dir[n].info # Absent
      BY <2>1, OfNode DEF FilesOK
    <2> QED BY <2>2, OfNode DEF OriginOK
  <1> QED BY <1>1, ServerInvariance, PTL

\* A node that serves has the table, and a schema of its version or of a later
\* minor one unless it gave the setup up.
THEOREM SchemaServed == ServerSpec => []ServingMeansSchema
  <1>1. ServerInv => ServingMeansSchema
    <2> SUFFICES ASSUME ServerInv, NEW n \in Nodes, pc[n] \in RunPc
                 PROVE  /\ Db(n).table
                        /\ \/ /\ Db(n).index = "right"
                              /\ Db(n).version >= databaseSchemaVersion
                              /\ CompatibleWith(Db(n).version, databaseSchemaVersion)
                           \/ mem[n].gaveUp
      BY DEF ServingMeansSchema, RunPc
    <2>1. VersionOK(Db(n))
      BY HasCluster DEF CreatedPc
    <2>2. SchemaOK(pc[n], mem[n], Db(n))
      BY DEF ServerInv
    <2>3. \A v \in Served : v >= databaseSchemaVersion
      BY Versions
    <2> QED BY <2>1, <2>2, <2>3, Versions DEF VersionOK, SchemaOK
  <1> QED BY <1>1, ServerInvariance, PTL

\* The old data are in the database as a whole once nobody copies them, unless
\* a copy was cut, however many nodes have started to copy.
THEOREM OldDataKept == ServerSpec => []OldDataIsWhole
  <1>1. ServerInv => OldDataIsWhole
    <2> SUFFICES ASSUME ServerInv, NEW c \in Nodes
                 PROVE  \/ CopiedRows(db[c]) \in {{}, OldRows}
                        \/ \E n \in Nodes : At(n, "copy") /\ Cluster(n) = c
                        \/ <<c, "copy cut">> \in mishap
      BY DEF OldDataIsWhole, CopiedRows
    <2>1. CopyOK(c)
      BY DEF ServerInv
    <2> QED BY <2>1 DEF CopyOK, CopyingTo, At
  <1> QED BY <1>1, ServerInvariance, PTL

\* Only the watch of the storage can panic a process, and only when dqlite is
\* closed.
THEOREM PanicsLate == ServerSpec => PanicsOnlyWhenClosed
  <1>1. ASSUME ServerInv, ServerNext, NEW n \in Nodes,
               pc'[n] = "panicked", pc[n] # "panicked"
        PROVE  pc[n] \in {"close channel", "wait", "hung"}
    <2>1. PICK k \in Nodes :
             \/ Run(k)
             \/ FindLowStorage(k)
             \/ EndWatcher(k)
             \/ Signal(k)
             \/ PutUpdate(k) /\ UNCHANGED <<db, left, runVars>>
             \/ CrashInNew(k) /\ UNCHANGED <<db, left, runVars>>
             \/ CrashInSetup(k) /\ UNCHANGED runVars
             \/ CrashInRun(k)
             \/ Kill(k)
      BY <1>1 DEF ServerNext
    <2>2. pc \in [Nodes -> Pcs]
      BY <1>1 DEF ServerInv, TypesOK
    <2>3. ASSUME NEW p, p # "panicked", pc' = [pc EXCEPT ![k] = p] PROVE FALSE
      BY <1>1, <2>2, <2>3
    <2>4. CASE Boot(k) \/ NewStep(k)
      BY <2>3, <2>4 DEF Boot, NewStep, ReadInit, RemoveInit, ReadUpdate, NothingToDo,
         Reconfigure, WriteInfo, WriteCluster, RemoveUpdate, AppNew, Exit, Goto
    <2>5. CASE PutUpdate(k) \/ FindLowStorage(k) \/ EndWatcher(k)
      BY <1>1, <2>5 DEF PutUpdate, FindLowStorage, EndWatcher, setupVars, dirVars
    <2>6. CASE CrashInNew(k) \/ CrashInSetup(k) \/ CrashInRun(k) \/ Signal(k) \/ Kill(k)
      BY <2>3, <2>6 DEF CrashInNew, CrashInSetup, CrashInRun, Signal, Kill, Exit, Die,
         Goto
    <2>7. CASE SetupStep(k)
      <3>1. CASE CopyRow(k)
        BY <1>1, <2>3, <3>1 DEF CopyRow, Exit, Goto
      <3>2. CASE CountRows(k) \/ OldDataUnreadable(k) \/ CheckVersion(k)
        BY <2>3, <3>2 DEF CountRows, OldDataUnreadable, CheckVersion, Exit, Goto
      <3> QED BY <2>3, <2>7, <3>1, <3>2
         DEF SetupStep, Ready, ApplySchema, GiveUp, StartBackend, Goto
    <2>8. CASE Listen(k)
      BY <2>3, <2>8 DEF Listen, CreateHealth, Goto
    <2>9. CASE SendMustStop(k)
      <3>1. CASE mustStop[k].closed /\ Die(k, "panicked")
        <4>1. pc[k] \in {"wait", "hung"}
          BY <1>1, <3>1 DEF ServerInv
        <4>2. k = n
          BY <1>1, <2>2, <3>1 DEF Die, Goto
        <4> QED BY <4>1, <4>2
      <3>2. CASE UNCHANGED setupVars
        BY <1>1, <3>2 DEF setupVars, dirVars
      <3> QED BY <2>9, <3>1, <3>2 DEF SendMustStop
    <2>10. CASE CloseChannel(k)
      <3>1. pc[k] = "close channel"
        BY <2>10 DEF CloseChannel, At
      <3>2. \A j \in Nodes \ {k} : pc'[j] = pc[j]
        BY <2>2, <2>10 DEF CloseChannel, Die, Goto
      <3> QED BY <1>1, <3>1, <3>2
    <2>11. CASE ReceiveMustStop(k) \/ Handover(k) \/ CloseApp(k) \/ WaitBackend(k)
      BY <2>3, <2>11 DEF ReceiveMustStop, Handover, CloseApp, WaitBackend, Die, Goto
    <2> QED BY <2>1, <2>4, <2>5, <2>6, <2>7, <2>8, <2>9, <2>10, <2>11
       DEF Run, StartStep, StopStep
  <1>2. ServerInv /\ [ServerNext]_vars =>
          [\A n \in Nodes : pc'[n] = "panicked" /\ pc[n] # "panicked" =>
              pc[n] \in {"close channel", "wait", "hung"}]_vars
    BY <1>1
  <1> QED BY <1>2, ServerInvariance, PTL DEF ServerSpec, PanicsOnlyWhenClosed
=============================================================================
