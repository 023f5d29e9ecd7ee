------------------------------ MODULE StateDir ------------------------------
(***************************************************************************)
(* server.New of pkg/server: the files of a node's storage directory, the  *)
(* one-time configuration in init.yaml and update.yaml, and the creation   *)
(* of the dqlite node, with a crash and a restart at every step.           *)
(*                                                                         *)
(* An error of New ends the process (cmd/root.go), so it leaves the files  *)
(* as a crash at that point would.                                         *)
(***************************************************************************)
EXTENDS Naturals

CONSTANTS
    Nodes,
    First,        \* the node whose cluster the others may be told to join
    MaxCrashes    \* bound: crashes and I/O errors of all nodes together

ASSUME StateDirAssumption == First \in Nodes /\ MaxCrashes \in Nat

VARIABLES
    pc,       \* per node, the next step of its process
    dir,      \* per node, what its storage directory holds
    mem,      \* per node, the local variables of New
    crashes,
    asked,    \* history: per node, what its init.yaml said
    mishap    \* history: what a crash at a bad moment has destroyed

dirVars == <<pc, dir, mem, crashes, asked, mishap>>

\* A client.NodeInfo.  Empty is the zero value, which is also what an empty
\* file unmarshals to.
Absent == [id |-> "none", addr |-> "absent"]
Empty == [id |-> "zero", addr |-> "empty"]
Own(addr) == [id |-> "own", addr |-> addr]

(***************************************************************************)
(* init     init.yaml: no file, without a Cluster, or with one             *)
(* update   update.yaml is there                                           *)
(* info     info.yaml                                                      *)
(* store    cluster.yaml: the address it lists for this node               *)
(* raft     the entry of this node in the membership dqlite has stored     *)
(* cluster  the node that founded the cluster whose data this is           *)
(***************************************************************************)
Fresh(init) == [init |-> init, update |-> FALSE, info |-> Absent,
                store |-> "absent", raft |-> Absent, cluster |-> {}]

Used(n) == [Fresh("absent") EXCEPT !.info = Own("given"), !.store = "given",
                                   !.raft = Own("given"), !.cluster = {n}]

Blank == [opts |-> "none", info |-> Absent, gaveUp |-> FALSE]

\* What the operator may have prepared: the first node is new or was set up by
\* an earlier version, with or without a leftover init.yaml, or an update.yaml
\* came too early; the others are told to join it, or not set up at all.
DirInit ==
    /\ pc = [n \in Nodes |-> "down"]
    /\ \E first \in {Fresh("bootstrap"), Used(First),
                     [Used(First) EXCEPT !.init = "bootstrap"],
                     [Fresh("absent") EXCEPT !.update = TRUE]},
          init \in [Nodes -> {"absent", "join"}] :
             dir = [n \in Nodes |-> IF n = First THEN first ELSE Fresh(init[n])]
    /\ mem = [n \in Nodes |-> Blank]
    /\ crashes = 0
    /\ asked = [n \in Nodes |-> IF n = First THEN "bootstrap" ELSE dir[n].init]
    /\ mishap = {}

-----------------------------------------------------------------------------

\* The steps of New.
NewPc == {"new", "remove init", "reconfigure", "write info", "write cluster",
          "remove update", "app"}

At(n, step) == pc[n] = step

Goto(n, step) == pc' = [pc EXCEPT ![n] = step]

\* logrus.Fatal: the process ends, its files stay.
Exit(n) ==
    /\ Goto(n, "down")
    /\ mem' = [mem EXCEPT ![n] = Blank]

Stopped(n) == pc[n] \in {"down", "panicked"}

\* The service manager starts the process, and starts it again.
Boot(n) ==
    /\ Stopped(n) /\ asked[n] # "absent"
    /\ Goto(n, "new")
    /\ UNCHANGED <<dir, mem, crashes, asked, mishap>>

\* Files that are not in expectedFilesDuringInitialization.
HasState(d) ==
    d.update \/ d.info # Absent \/ d.store # "absent" \/ d.raft # Absent

\* New refuses the files until the operator has put them right.
Refused(d) == (d.init # "absent" /\ HasState(d)) \/ (d.update /\ d.info = Absent)

\* init.yaml is read, unless the directory holds more than it should.
ReadInit(n) ==
    /\ At(n, "new")
    /\ dir[n].init # "absent"
    /\ \/ HasState(dir[n]) /\ Exit(n)
       \/ /\ ~HasState(dir[n])
          /\ mem' = [mem EXCEPT ![n].opts = dir[n].init]
          /\ Goto(n, "remove init")
    /\ UNCHANGED <<dir, crashes, asked, mishap>>

\* Mutant: the options are made only for a node that joins others, and the
\* address alone is not passed on.
RemoveInitDropsOptions(n) ==
    /\ At(n, "remove init")
    /\ dir' = [dir EXCEPT ![n].init = "absent"]
    /\ mem' = [mem EXCEPT ![n].opts = "none"]
    /\ Goto(n, "app")
    /\ UNCHANGED <<crashes, asked, mishap>>

\* init.yaml is deleted; what it said is only in the options of app.New now.
RemoveInit(n) ==
    /\ At(n, "remove init")
    /\ dir' = [dir EXCEPT ![n].init = "absent"]
    /\ Goto(n, "app")
    /\ UNCHANGED <<mem, crashes, asked, mishap>>

\* Mutant: the node information is made from update.yaml alone.
ReadUpdateAlone(n) ==
    /\ At(n, "new")
    /\ dir[n].init = "absent" /\ dir[n].update
    /\ mem' = [mem EXCEPT ![n].info = [Empty EXCEPT !.addr = "updated"]]
    /\ Goto(n, "reconfigure")
    /\ UNCHANGED <<dir, crashes, asked, mishap>>

\* update.yaml and info.yaml are read.
ReadUpdate(n) ==
    /\ At(n, "new")
    /\ dir[n].init = "absent" /\ dir[n].update
    /\ \/ dir[n].info = Absent /\ Exit(n)
       \/ /\ dir[n].info # Absent
          /\ mem' = [mem EXCEPT ![n].info = [dir[n].info EXCEPT !.addr = "updated"]]
          /\ Goto(n, "reconfigure")
    /\ UNCHANGED <<dir, crashes, asked, mishap>>

\* Neither file is there: a restart.
NothingToDo(n) ==
    /\ At(n, "new")
    /\ dir[n].init = "absent" /\ ~dir[n].update
    /\ Goto(n, "app")
    /\ UNCHANGED <<dir, mem, crashes, asked, mishap>>

\* dqlite.ReconfigureMembership: this node is the only member.
Reconfigure(n) ==
    /\ At(n, "reconfigure")
    /\ dir' = [dir EXCEPT ![n].raft = mem[n].info]
    /\ Goto(n, "write info")
    /\ UNCHANGED <<mem, crashes, asked, mishap>>

\* Mutant: update.yaml is dropped as soon as info.yaml has the address.
WriteInfoAndForget(n) ==
    /\ At(n, "write info")
    /\ dir' = [dir EXCEPT ![n].info = mem[n].info, ![n].update = FALSE]
    /\ Goto(n, "write cluster")
    /\ UNCHANGED <<mem, crashes, asked, mishap>>

WriteInfo(n) ==
    /\ At(n, "write info")
    /\ dir' = [dir EXCEPT ![n].info = mem[n].info]
    /\ Goto(n, "write cluster")
    /\ UNCHANGED <<mem, crashes, asked, mishap>>

WriteCluster(n) ==
    /\ At(n, "write cluster")
    /\ dir' = [dir EXCEPT ![n].store = mem[n].info.addr]
    /\ Goto(n, "remove update")
    /\ UNCHANGED <<mem, crashes, asked, mishap>>

\* update.yaml is deleted last, so all of it is done again after a crash.
RemoveUpdate(n) ==
    /\ At(n, "remove update")
    /\ dir' = [dir EXCEPT ![n].update = FALSE]
    /\ Goto(n, "app")
    /\ UNCHANGED <<mem, crashes, asked, mishap>>

\* app.New of go-dqlite: a new directory gets an identity, by the options or
\* by defaults; in a used one, info.yaml and cluster.yaml have to agree.
AppNew(n) ==
    LET d == dir[n]
        info == Own(IF mem[n].opts = "none" THEN "default" ELSE "given")
        isNew == d.info = Absent /\ d.store = "absent"
    IN  /\ At(n, "app")
        /\ \/ /\ isNew
              /\ dir' = [dir EXCEPT ![n].info = info, ![n].store = info.addr,
                                    ![n].raft = info,
                            ![n].cluster = {IF mem[n].opts = "join" THEN First ELSE n}]
              /\ Goto(n, "ready")
              /\ UNCHANGED mem
           \/ /\ ~isNew /\ d.info.addr = d.store
              /\ Goto(n, "ready")
              /\ UNCHANGED <<dir, mem>>
           \/ /\ ~isNew /\ d.info.addr # d.store
              /\ Exit(n)
              /\ UNCHANGED dir
        /\ UNCHANGED <<crashes, asked, mishap>>

-----------------------------------------------------------------------------

\* The node is alone in its cluster and nobody is about to join it, which is
\* what the membership of one node that New writes is made for.
Alone(n) ==
    \A m \in Nodes \ {n} :
        /\ dir[m].cluster # dir[n].cluster
        /\ "join" \notin {dir[m].init, mem[m].opts}

\* The operator gives a node that is down a new address.
PutUpdate(n) ==
    /\ Stopped(n) /\ Alone(n)
    /\ dir[n].info.addr \in {"given", "default"}
    /\ dir' = [dir EXCEPT ![n].update = TRUE]
    /\ UNCHANGED <<pc, mem, crashes, asked, mishap>>

\* What is left of a file that was being written: the old contents, or none.
AfterCrash(n, d) ==
    CASE At(n, "write info") -> {d, [d EXCEPT !.info = Empty]}
      [] At(n, "write cluster") -> {d, [d EXCEPT !.store = "empty"]}
      [] OTHER -> {d}

\* A crash or an error in New.
CrashInNew(n) ==
    /\ crashes < MaxCrashes
    /\ pc[n] \in NewPc
    /\ \E d \in AfterCrash(n, dir[n]) :
          /\ dir' = [dir EXCEPT ![n] = d]
          /\ mishap' = mishap
                \cup (IF d.info = Empty THEN {<<n, "info lost">>} ELSE {})
                \cup (IF At(n, "app") /\ mem[n].opts # "none" /\ d.info = Absent
                      THEN {<<n, "init lost">>} ELSE {})
    /\ Exit(n)
    /\ crashes' = crashes + 1
    /\ UNCHANGED asked

NewStep(n) ==
    \/ ReadInit(n)
    \/ RemoveInit(n)
    \/ ReadUpdate(n)
    \/ NothingToDo(n)
    \/ Reconfigure(n)
    \/ WriteInfo(n)
    \/ WriteCluster(n)
    \/ RemoveUpdate(n)
    \/ AppNew(n)
=============================================================================
