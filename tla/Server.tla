------------------------------- MODULE Server -------------------------------
(***************************************************************************)
(* The life of a k8s-dqlite process, from cmd/root.go and pkg/server:      *)
(* New (StateDir), Start (DbSetup), then serving, the watch of the         *)
(* available storage with --low-available-storage-action=terminate, and    *)
(* the shutdown.  The other two actions on low storage, none and handover, *)
(* change nothing that is kept here.                                       *)
(***************************************************************************)
EXTENDS DbSetup

CONSTANT Watched   \* the nodes whose storage is checked at an interval

ASSUME ServerAssumption == Watched \subseteq Nodes

VARIABLES
    watcher,    \* per node, the goroutine of watchAvailableStorageSize
    mustStop    \* per node, the channel mustStopCh of capacity 1

vars == <<setupVars, watcher, mustStop>>

runVars == <<watcher, mustStop>>

NewChannel == [len |-> 0, closed |-> FALSE]

ServerInit ==
    /\ DbInit
    /\ watcher = [n \in Nodes |-> "off"]
    /\ mustStop = [n \in Nodes |-> NewChannel]

\* The steps of Shutdown.
ShutdownPc == {"handover", "close app", "close channel", "wait", "hung"}

\* The context of Start is cancelled before Shutdown.
Cancelled(n) == pc[n] \in ShutdownPc

-----------------------------------------------------------------------------

\* The process is gone, with its goroutines and channels.
Die(n, how) ==
    /\ Goto(n, how)
    /\ mem' = [mem EXCEPT ![n] = Blank]
    /\ watcher' = [watcher EXCEPT ![n] = "off"]
    /\ mustStop' = [mustStop EXCEPT ![n] = NewChannel]
    /\ UNCHANGED <<dir, asked, mishap, db, left>>

\* Start returns: the listener is open and the storage is watched.
Listen(n) ==
    /\ CreateHealth(n)
    /\ watcher' = [watcher EXCEPT ![n] = IF n \in Watched THEN "sleep" ELSE "off"]
    /\ UNCHANGED mustStop

\* The interval is over and the storage is low.  When the context is done as
\* well, the select takes either.
FindLowStorage(n) ==
    /\ watcher[n] = "sleep"
    /\ watcher' = [watcher EXCEPT ![n] = "send"]
    /\ UNCHANGED <<setupVars, mustStop>>

\* A send blocks on a full channel and panics on a closed one.
SendMustStop(n) ==
    /\ watcher[n] = "send"
    /\ \/ /\ mustStop[n].closed
          /\ Die(n, "panicked")
          /\ UNCHANGED crashes
       \/ /\ ~mustStop[n].closed /\ mustStop[n].len = 0
          /\ mustStop' = [mustStop EXCEPT ![n].len = 1]
          /\ watcher' = [watcher EXCEPT ![n] = "sleep"]
          /\ UNCHANGED setupVars

EndWatcher(n) ==
    /\ watcher[n] = "sleep" /\ Cancelled(n)
    /\ watcher' = [watcher EXCEPT ![n] = "off"]
    /\ UNCHANGED <<setupVars, mustStop>>

\* SIGTERM and the like.
Signal(n) ==
    /\ At(n, "serving")
    /\ Goto(n, "handover")
    /\ UNCHANGED <<dir, mem, crashes, asked, mishap, db, left, runVars>>

\* Mutant: the answer of MustStop is only looked at, as a log line would.
ReceiveMustStopOnly(n) ==
    /\ At(n, "serving") /\ mustStop[n].len > 0
    /\ mustStop' = [mustStop EXCEPT ![n].len = 0]
    /\ UNCHANGED <<setupVars, watcher>>

\* The other case of the select in root.go.
ReceiveMustStop(n) ==
    /\ At(n, "serving") /\ mustStop[n].len > 0
    /\ mustStop' = [mustStop EXCEPT ![n].len = 0]
    /\ Goto(n, "handover")
    /\ UNCHANGED <<dir, mem, crashes, asked, mishap, db, left, watcher>>

\* Mutant: the channel is closed first.
HandoverLast(n) ==
    /\ At(n, "handover")
    /\ IF watcher[n] = "send"
       THEN Die(n, "panicked")
       ELSE /\ mustStop' = [mustStop EXCEPT ![n].closed = TRUE]
            /\ Goto(n, "close app")
            /\ UNCHANGED <<dir, mem, asked, mishap, db, left, watcher>>
    /\ UNCHANGED crashes

\* app.Handover: the result is only logged, and it has 30 seconds.
Handover(n) ==
    /\ At(n, "handover")
    /\ Goto(n, "close app")
    /\ UNCHANGED <<dir, mem, crashes, asked, mishap, db, left, runVars>>

\* app.Close; an error is fatal.
CloseApp(n) ==
    /\ At(n, "close app")
    /\ \/ /\ Goto(n, "close channel")
          /\ UNCHANGED <<dir, mem, asked, mishap, db, left, runVars>>
       \/ Die(n, "down")
    /\ UNCHANGED crashes

\* Closing the channel panics a sender that is blocked in it.
CloseChannel(n) ==
    /\ At(n, "close channel")
    /\ \/ /\ watcher[n] = "send" /\ mustStop[n].len = 1
          /\ Die(n, "panicked")
       \/ /\ ~(watcher[n] = "send" /\ mustStop[n].len = 1)
          /\ mustStop' = [mustStop EXCEPT ![n].closed = TRUE]
          /\ Goto(n, "wait")
          /\ UNCHANGED <<dir, mem, asked, mishap, db, left, watcher>>
    /\ UNCHANGED crashes

\* backend.Wait returns, and with it main: unless a compaction has interrupted
\* the list of ttlEvents, and ttl waits for ever (LastOneCloses of KineLease).
WaitBackend(n) ==
    /\ At(n, "wait")
    /\ \/ Die(n, "down")
       \/ /\ Goto(n, "hung")
          /\ UNCHANGED <<dir, mem, asked, mishap, db, left, runVars>>
    /\ UNCHANGED crashes

\* The operator may kill a process that does not end, and need not.
Kill(n) ==
    /\ At(n, "hung")
    /\ Die(n, "down")
    /\ UNCHANGED crashes

\* A crash of a node that serves or stops.
CrashInRun(n) ==
    /\ crashes < MaxCrashes
    /\ pc[n] \in {"serving"} \cup ShutdownPc
    /\ Die(n, "down")
    /\ crashes' = crashes + 1

-----------------------------------------------------------------------------

StartStep(n) ==
    \/ (Boot(n) \/ NewStep(n)) /\ UNCHANGED <<db, left, runVars>>
    \/ SetupStep(n) /\ UNCHANGED runVars
    \/ Listen(n)

StopStep(n) ==
    \/ ReceiveMustStop(n)
    \/ Handover(n)
    \/ CloseApp(n)
    \/ CloseChannel(n)
    \/ WaitBackend(n)

\* What the process does by itself.
Run(n) == StartStep(n) \/ SendMustStop(n) \/ StopStep(n)

ServerNext ==
    \E n \in Nodes :
        \/ Run(n)
        \/ FindLowStorage(n)
        \/ EndWatcher(n)
        \/ Signal(n)
        \/ PutUpdate(n) /\ UNCHANGED <<db, left, runVars>>
        \/ CrashInNew(n) /\ UNCHANGED <<db, left, runVars>>
        \/ CrashInSetup(n) /\ UNCHANGED runVars
        \/ CrashInRun(n)
        \/ Kill(n)

\* Processes run, and the service manager starts one that has ended.  A join that
\* is tried again and again finds its cluster in the end, and the statements of
\* setup succeed in the end if they can.
ServerFairness ==
    \A n \in Nodes :
        /\ WF_vars(Run(n))
        /\ SF_vars(Ready(n) /\ UNCHANGED runVars)
        /\ SF_vars(CheckVersion(n) /\ UNCHANGED runVars)

ServerSpec == ServerInit /\ [][ServerNext]_vars /\ ServerFairness

-----------------------------------------------------------------------------
(* Properties *)

\* The node has gone past app.New.
Created(n) == ~Stopped(n) /\ pc[n] \notin NewPc

\* However often an update of the address is cut short and done again, a node
\* that comes up has one address in its membership, info.yaml and cluster.yaml,
\* and it is the node it was before: unless the process died while it wrote
\* info.yaml, whose empty rest New reads as the zero identity.
NodeKeepsItsIdentity ==
    \A n \in Nodes : Created(n) =>
        /\ dir[n].raft = dir[n].info
        /\ dir[n].store = dir[n].info.addr
        /\ dir[n].info.id = "own" \/ <<n, "info lost">> \in mishap

\* A node serves at the address and in the cluster that its init.yaml named:
\* unless it died after it had removed init.yaml and before app.New, and then
\* founds a cluster of its own.
ServesAsConfigured ==
    \A n \in Nodes : Created(n) =>
        \/ /\ dir[n].info.addr # "default"
           /\ dir[n].cluster = {IF asked[n] = "join" THEN First ELSE n}
        \/ <<n, "init lost">> \in mishap

\* A node that serves has the table, with the indexes of this version, in a
\* database of this version or a later minor one: unless every attempt at setup
\* failed and it went on nevertheless.
ServingMeansSchema ==
    \A n \in Nodes : pc[n] \in {"serving"} \cup ShutdownPc =>
        /\ Db(n).table
        /\ \/ /\ Db(n).index = "right"
              /\ Db(n).version >= databaseSchemaVersion
              /\ CompatibleWith(Db(n).version, databaseSchemaVersion)
           \/ mem[n].gaveUp

\* The old rows are in the database all or not at all once nobody copies any
\* more: unless a copy died or met a row of a node that had started meanwhile.
\* Its inserts are outside of its transaction, and nobody takes it up again.
OldDataIsWhole ==
    \A c \in Nodes :
        LET copied == {r \in db[c].rows : r.old}
        IN  \/ copied \in {{}, OldRows}
            \/ \E n \in Nodes : At(n, "copy") /\ Cluster(n) = c
            \/ <<c, "copy cut">> \in mishap

\* The race of a low storage with the shutdown panics a process only when
\* dqlite is closed already and has had its chance to hand over.
PanicsOnlyWhenClosed ==
    [][\A n \in Nodes : pc'[n] = "panicked" /\ pc[n] # "panicked" =>
           pc[n] \in {"close channel", "wait", "hung"}]_vars

\* Wherever a process died, the restarted one serves again, unless info.yaml was
\* lost, New refuses the files it was given, or the process, its own or that of
\* the node to join, waits for its backend for ever.
Recovers ==
    \A n \in Nodes : asked[n] # "absent" =>
        []<>(\/ At(n, "serving") \/ <<n, "info lost">> \in mishap
             \/ \E m \in {n, First} : Refused(dir[m]) \/ At(m, "hung"))

\* A process that has found its storage low ends, or closes dqlite and waits for
\* its backend for ever.
LowStorageStops ==
    \A n \in Nodes : watcher[n] = "send" ~> (Stopped(n) \/ At(n, "hung"))
=============================================================================
