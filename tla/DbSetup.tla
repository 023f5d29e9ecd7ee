------------------------------ MODULE DbSetup -------------------------------
(***************************************************************************)
(* Start of a node, from app.Ready to the listener: the schema migration   *)
(* of drivers/sqlite, the copy of an old sqlite database of                *)
(* drivers/dqlite, and the rows that the backend's Start creates.          *)
(*                                                                         *)
(* All nodes of a cluster do this with the same database, at any time and  *)
(* as often as they are started.  A statement or a transaction is one step.*)
(***************************************************************************)
EXTENDS StateDir, Sequences, FiniteSetsExt

CONSTANT OldNodes   \* the nodes that have a ./db/state.db to copy

ASSUME DbSetupAssumption == OldNodes \subseteq Nodes

VARIABLES
    db,     \* per founder, the database of its cluster
    left    \* per node, the rows of ./db/state.db it has still to copy

setupVars == <<dirVars, db, left>>

\* SchemaVersion: the major version in the high 16 bits.
NewSchemaVersion(major, minor) == major * 2^16 + minor
Major(sv) == sv \div 2^16
databaseSchemaVersion == NewSchemaVersion(0, 1)

CompatibleWith(sv, target) == Major(sv) = Major(target)

\* The rows that every kine database begins with, and one of a client.
CompactKey == "compact_rev_key"
HealthKey == "/registry/health"
Names == <<CompactKey, HealthKey, "key">>

OldRow(i) == [id |-> i, name |-> Names[i], old |-> TRUE]
OldRows == {OldRow(i) : i \in DOMAIN Names}

\* index is the pair of indexes: none, those of upstream kine, or the right ones.
NoDb == [version |-> 0, table |-> FALSE, index |-> "none", rows |-> {}]

\* What an earlier, a later minor or a later major version has left behind.
UpstreamDb == [NoDb EXCEPT !.table = TRUE, !.index = "wrong"]
LaterMinorDb == [version |-> NewSchemaVersion(0, 2), table |-> TRUE,
                 index |-> "right", rows |-> {}]
LaterDb == [version |-> NewSchemaVersion(1, 0), table |-> TRUE,
            index |-> "other", rows |-> {}]

DbInit ==
    /\ DirInit
    /\ db \in {d \in [Nodes -> {NoDb, UpstreamDb, LaterMinorDb, LaterDb}] :
                 /\ \A n \in Nodes \ {First} : d[n] = NoDb
                 /\ dir[First].raft = Absent => d[First] = NoDb}
    /\ left = [n \in Nodes |-> {}]

\* The cluster of a node, once app.New has found or made one.
Cluster(n) == CHOOSE c \in Nodes : dir[n].cluster = {c}

Db(n) == db[Cluster(n)]

SetDb(n, d) == db' = [db EXCEPT ![Cluster(n)] = d]

\* Steps that end in front of the listener.
SetupPc == {"setup", "apply", "migrate", "copy", "start", "health"}

\* AUTOINCREMENT
NextId(rows) == IF rows = {} THEN 1 ELSE Max({r.id : r \in rows}) + 1

\* A create of a key that is not there.
WithKey(rows, name) ==
    IF \E r \in rows : r.name = name THEN rows
    ELSE rows \cup {[id |-> NextId(rows), name |-> name, old |-> FALSE]}

-----------------------------------------------------------------------------

\* app.Ready and generic.Open return: the node has joined its cluster, which for
\* a new member takes the founder.
Ready(n) ==
    /\ At(n, "ready")
    /\ Cluster(n) # n =>
          pc[Cluster(n)] \in SetupPc \cup {"serving", "handover", "close app"}
    /\ Goto(n, "setup")
    /\ UNCHANGED <<dir, mem, crashes, asked, mishap, db, left>>

\* setup, before its transaction.  An incompatible version is an error; it, a
\* failed statement and a transaction that is rolled back change nothing, and
\* the loop of NewVariant tries again.
CheckVersion(n) ==
    LET version == Db(n).version
    IN  /\ At(n, "setup")
        /\ CompatibleWith(version, databaseSchemaVersion)
        /\ Goto(n, IF version >= databaseSchemaVersion THEN "migrate" ELSE "apply")
        /\ UNCHANGED <<dir, mem, crashes, asked, mishap, db, left>>

\* The statements of applySchemaV0_1.
applySchemaV0_1(d) == [d EXCEPT !.table = TRUE, !.index = "right"]

\* Mutant: the indexes are made only together with the table.
MigratedNewOnly(d) ==
    IF d.version >= databaseSchemaVersion THEN d
    ELSE [d EXCEPT !.table = TRUE, !.version = databaseSchemaVersion,
                   !.index = IF d.table THEN d.index ELSE "right"]

\* What migrate does to the database, with the version as the transaction sees
\* it: another node may have been faster.
Migrated(d) ==
    IF d.version >= databaseSchemaVersion THEN d
    ELSE [applySchemaV0_1(d) EXCEPT !.version = databaseSchemaVersion]

\* The transaction of setup commits.
ApplySchema(n) ==
    /\ At(n, "apply")
    /\ SetDb(n, Migrated(Db(n)))
    /\ Goto(n, "migrate")
    /\ UNCHANGED <<dir, mem, crashes, asked, mishap, left>>

\* The last of the attempts has failed; NewVariant goes on all the same.
GiveUp(n) ==
    /\ At(n, "setup")
    /\ Goto(n, "migrate")
    /\ mem' = [mem EXCEPT ![n].gaveUp = TRUE]
    /\ UNCHANGED <<dir, crashes, asked, mishap, db, left>>

\* migrate of drivers/dqlite asks whether there is something to do.
CountRows(n) ==
    /\ At(n, "migrate")
    /\ \/ /\ ~Db(n).table
          /\ Exit(n)
          /\ UNCHANGED left
       \/ /\ Db(n).table
          /\ IF Db(n).rows = {} /\ n \in OldNodes
             THEN Goto(n, "copy") /\ left' = [left EXCEPT ![n] = OldRows]
             ELSE Goto(n, "start") /\ UNCHANGED left
          /\ UNCHANGED mem
    /\ UNCHANGED <<dir, crashes, asked, mishap, db>>

\* The old database cannot be queried: that is logged, and nothing is copied.
OldDataUnreadable(n) ==
    /\ crashes < MaxCrashes
    /\ At(n, "migrate")
    /\ Db(n).table /\ Db(n).rows = {} /\ n \in OldNodes
    /\ Goto(n, "start")
    /\ crashes' = crashes + 1
    /\ UNCHANGED <<dir, mem, asked, mishap, db, left>>

\* Mutant: the loop ends one row early.
CopiedAllBut(rows) == \E r \in rows : rows = {r}

\* oldData.Next() has no more rows.
CopiedAll(rows) == rows = {}

\* A copy that ends now has put some of the rows into the database, not all.
Cut(n) == IF At(n, "copy") /\ left[n] \notin {{}, OldRows}
          THEN {<<Cluster(n), "copy cut">>} ELSE {}

\* One row is inserted, not in the transaction that was begun but on its own.
\* A row with its id may be there already: then the start fails.
CopyRow(n) ==
    /\ At(n, "copy")
    /\ \/ /\ CopiedAll(left[n])
          /\ Goto(n, "start")
          /\ left' = [left EXCEPT ![n] = {}]
          /\ UNCHANGED <<mem, mishap, db>>
       \/ \E row \in left[n] :
             /\ ~CopiedAll(left[n])
             /\ \A r \in left[n] : row.id <= r.id
             /\ IF \E r \in Db(n).rows : r.id = row.id
                THEN /\ Exit(n)
                     /\ mishap' = mishap \cup Cut(n)
                     /\ left' = [left EXCEPT ![n] = {}]
                     /\ UNCHANGED db
                ELSE /\ SetDb(n, [Db(n) EXCEPT !.rows = @ \cup {row}])
                     /\ left' = [left EXCEPT ![n] = @ \ {row}]
                     /\ UNCHANGED <<pc, mem, mishap>>
    /\ UNCHANGED <<dir, crashes, asked>>

\* SQLLog.Start: compactStart makes sure of its row.
StartBackend(n) ==
    /\ At(n, "start")
    /\ SetDb(n, [Db(n) EXCEPT !.rows = WithKey(@, CompactKey)])
    /\ Goto(n, "health")
    /\ UNCHANGED <<dir, mem, crashes, asked, mishap, left>>

\* LogStructured.Start creates the health key; an error is ignored.
CreateHealth(n) ==
    /\ At(n, "health")
    /\ \/ /\ SetDb(n, [Db(n) EXCEPT !.rows = WithKey(@, HealthKey)])
          /\ UNCHANGED crashes
       \/ /\ crashes < MaxCrashes
          /\ crashes' = crashes + 1
          /\ UNCHANGED db
    /\ Goto(n, "serving")
    /\ UNCHANGED <<dir, mem, asked, mishap, left>>

\* A crash or an error on the way.  What was copied stays.
CrashInSetup(n) ==
    /\ crashes < MaxCrashes
    /\ pc[n] \in SetupPc \cup {"ready"}
    /\ mishap' = mishap \cup Cut(n)
    /\ Exit(n)
    /\ crashes' = crashes + 1
    /\ left' = [left EXCEPT ![n] = {}]
    /\ UNCHANGED <<dir, asked, db>>

SetupStep(n) ==
    \/ Ready(n)
    \/ CheckVersion(n)
    \/ ApplySchema(n)
    \/ GiveUp(n)
    \/ CountRows(n)
    \/ OldDataUnreadable(n)
    \/ CopyRow(n)
    \/ StartBackend(n)
=============================================================================
