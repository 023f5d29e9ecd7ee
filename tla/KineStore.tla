----------------------------- MODULE KineStore -----------------------------
(***************************************************************************)
(* The kine table shared by all nodes of a cluster, the conditional writes *)
(* of the generic driver, and the background compaction that every node    *)
(* runs on it (generic.go and the compaction half of sqllog/sql.go).       *)
(*                                                                         *)
(* A SQL statement or transaction is one step: dqlite executes them one    *)
(* after the other.  Compaction is many steps: DoCompact reads the         *)
(* compact_rev_key row, creates it, reads the revision interval, reads it  *)
(* again for every batch and only then opens the transaction that deletes  *)
(* rows, so everything it read may be stale by then.                       *)
(***************************************************************************)
EXTENDS KineTable

CONSTANTS
    Nodes,             \* the processes that share the table
    SupersededCount,   \* newest revisions that DoCompact leaves alone
    CompactBatchSize,  \* revisions compacted by one transaction
    MaxRev             \* bound: no client write once this many rows exist

ASSUME CompactionAssumption ==
    /\ SupersededCount \in Nat \ {0}
    /\ CompactBatchSize \in Nat \ {0}
    /\ MaxRev \in Nat

VARIABLES
    kine,       \* the table
    seq,        \* sqlite_sequence: the AUTOINCREMENT counter of the table
    log,        \* history: every row the driver inserted under a fresh id
    compactor   \* per node, where its DoCompact is and what it has read

storeVars == <<kine, seq, log, compactor>>

CompactionState ==
    [pc : {"idle", "create", "interval", "batch", "tx"},
     start : Nat, target : Int, batch : Nat, low : Nat]

Idle == [pc |-> "idle", start |-> 0, target |-> 0, batch |-> 0, low |-> 0]

Init ==
    /\ kine = {}
    /\ seq = 0
    /\ log = {}
    /\ compactor = [n \in Nodes |-> Idle]

-----------------------------------------------------------------------------
(* Client writes.  A statement that inserts no row changes nothing and is  *)
(* not a step; a row the indexes reject is a statement error.              *)

Insert(row) ==
    /\ Accepts(kine, row)
    /\ kine' = kine \cup {row}
    /\ seq' = seq + 1
    /\ log' = log \cup {row}

NextId == seq + 1

Create(k, v, lease) ==
    /\ seq < MaxRev
    /\ \E row \in CreateSQL(kine, NextId, k, v, lease) : Insert(row)
    /\ UNCHANGED compactor

\* The revision is one a client may hold, current or stale.
Update(k, v, rev, lease) ==
    /\ seq < MaxRev
    /\ \E row \in UpdateSQL(kine, NextId, k, v, rev, lease) : Insert(row)
    /\ UNCHANGED compactor

Delete(k, rev) ==
    /\ seq < MaxRev
    /\ \E row \in DeleteSQL(kine, NextId, k, rev) : Insert(row)
    /\ UNCHANGED compactor

\* A poller plugs a revision it finds missing below one it has read.
Fill(rev) ==
    /\ rev < MaxId(kine)
    /\ Accepts(kine, FillRow(rev))
    /\ kine' = kine \cup {FillRow(rev)}
    /\ UNCHANGED <<seq, log, compactor>>

-----------------------------------------------------------------------------
(* DoCompact on node n *)

At(n, pc) == compactor[n].pc = pc

\* compactStart: look for the compact_rev_key row.  With exactly one row
\* there is nothing to do; SingleCompactRow shows there are never two.  A cursor
\* that is lost before the row looks as if there were none (RowsToEvents).
CompactStart(n) ==
    /\ At(n, "idle")
    /\ \E pc \in {"create", "interval"} :
          /\ pc = "interval" => After(kine, {CompactRevKey}, 0) # {}
          /\ compactor' = [compactor EXCEPT ![n].pc = pc]
    /\ UNCHANGED <<kine, seq, log>>

\* Mutant: inserts without looking for the row of another node.
CreateCompactKeyBlindly(n) ==
    /\ At(n, "create")
    /\ \E row \in CreateSQL({}, NextId, CompactRevKey, NoValue, 0) : Insert(row)
    /\ compactor' = [compactor EXCEPT ![n].pc = "interval"]

\* compactStart: create the row, unless another node has done so meanwhile.
CreateCompactKey(n) ==
    LET rows == CreateSQL(kine, NextId, CompactRevKey, NoValue, 0)
    IN  /\ At(n, "create")
        /\ \/ \E row \in rows : Insert(row)
           \/ rows = {} /\ UNCHANGED <<kine, seq, log>>
        /\ compactor' = [compactor EXCEPT ![n].pc = "interval"]

\* Mutant: keeps no newest revisions.
ReadIntervalToNewest(n) ==
    /\ At(n, "interval")
    /\ compactor' = [compactor EXCEPT ![n] =
           [pc |-> "batch", start |-> CompactRev(kine), target |-> MaxId(kine),
            batch |-> 0, low |-> 0]]
    /\ UNCHANGED <<kine, seq, log>>

\* Mutant: subtracts the kept revisions from the wrong end.
ReadIntervalFromBelow(n) ==
    /\ At(n, "interval")
    /\ compactor' = [compactor EXCEPT ![n] =
           [pc |-> "batch", start |-> CompactRev(kine) - SupersededCount,
            target |-> MaxId(kine), batch |-> 0, low |-> 0]]
    /\ UNCHANGED <<kine, seq, log>>

\* DoCompact: the interval that is due.
ReadInterval(n) ==
    /\ At(n, "interval")
    /\ compactor' = [compactor EXCEPT ![n] =
           [pc |-> "batch", start |-> CompactRev(kine),
            target |-> MaxId(kine) - SupersededCount, batch |-> 0, low |-> 0]]
    /\ UNCHANGED <<kine, seq, log>>

\* Mutant: the last batch is not cut off at the target.
BatchRevisionUncut(c) == c.start + CompactBatchSize

BatchRevision(c) ==
    IF c.start + CompactBatchSize > c.target
    THEN c.target ELSE c.start + CompactBatchSize

\* Generic.Compact for the next batch: nothing to do if another node has
\* compacted that far, otherwise remember the interval for tryCompact.
StartBatch(n) ==
    LET c == compactor[n]
        batch == BatchRevision(c)
        low == CompactRev(kine)
        high == MaxId(kine)
    IN  /\ At(n, "batch")
        /\ c.start < c.target
        /\ compactor' = [compactor EXCEPT ![n] =
               IF low >= batch
               THEN [c EXCEPT !.start = batch]
               ELSE [c EXCEPT !.pc = "tx", !.low = low,
                              !.batch = IF batch > high THEN high ELSE batch]]
        /\ UNCHANGED <<kine, seq, log>>

\* Mutant: waits for a batch beyond the target.
EndCompactLate(n) ==
    /\ At(n, "batch")
    /\ compactor[n].start > compactor[n].target
    /\ compactor' = [compactor EXCEPT ![n] = Idle]
    /\ UNCHANGED <<kine, seq, log>>

EndCompact(n) ==
    /\ At(n, "batch")
    /\ compactor[n].start >= compactor[n].target
    /\ compactor' = [compactor EXCEPT ![n] = Idle]
    /\ UNCHANGED <<kine, seq, log>>

\* tryCompact commits.  When the reply is lost to a "bad connection" the
\* retry loop of Compact runs the same transaction again.
CommitBatch(n) ==
    LET c == compactor[n]
    IN  /\ At(n, "tx")
        /\ kine' = TryCompact(kine, c.low, c.batch)
        /\ \/ compactor' = [compactor EXCEPT ![n] =
                  [c EXCEPT !.pc = "batch", !.start = BatchRevision(c),
                            !.low = 0, !.batch = 0]]
           \/ UNCHANGED compactor
        /\ UNCHANGED <<seq, log>>

\* A query or the transaction fails, or the node restarts: DoCompact is
\* abandoned, a transaction that did not commit is rolled back.
AbortCompact(n) ==
    /\ ~At(n, "idle")
    /\ compactor' = [compactor EXCEPT ![n] = Idle]
    /\ UNCHANGED <<kine, seq, log>>

-----------------------------------------------------------------------------

\* A node listens for clients after Start, which runs compactStart first.
Serving == Named(kine, {CompactRevKey}) # {}

ClientStep ==
    /\ Serving
    /\ \/ \E k \in Keys, v \in Values, lease \in Leases :
             \/ Create(k, v, lease)
             \/ \E rev \in 1..seq : Update(k, v, rev, lease)
       \/ \E k \in Keys, rev \in 1..seq : Delete(k, rev)

DoCompactStep(n) ==
    \/ CompactStart(n)
    \/ CreateCompactKey(n)
    \/ ReadInterval(n)
    \/ StartBatch(n)
    \/ CommitBatch(n)
    \/ EndCompact(n)

Next ==
    \/ ClientStep
    \/ \E rev \in 1..seq : Fill(rev)
    \/ \E n \in Nodes : DoCompactStep(n) \/ AbortCompact(n)

Spec == Init /\ [][Next]_storeVars

(***************************************************************************)
(* The ticker of every node starts DoCompact again and again, and a        *)
(* statement that is retried for ever is not refused for ever.             *)
(***************************************************************************)
CompactionFairness ==
    \A n \in Nodes : /\ SF_storeVars(CompactStart(n))
                     /\ SF_storeVars(CreateCompactKey(n))
                     /\ SF_storeVars(ReadInterval(n))
                     /\ SF_storeVars(StartBatch(n))
                     /\ SF_storeVars(CommitBatch(n) /\ compactor' # compactor)
                     /\ SF_storeVars(EndCompact(n))

-----------------------------------------------------------------------------
(* Properties *)

compactRev == CompactRev(kine)

\* What a client sees of a table at a revision.
Snapshot(t, rev) == {KV(r) : r \in List(t, Keys, rev)}

\* Types of the table, the counter, the history and the compaction records.
TypeOK ==
    /\ kine \subseteq Row
    /\ log \subseteq Row
    /\ seq \in Nat
    /\ compactor \in [Nodes -> CompactionState]

\* The row of the same key that a row followed, in the history.
Predecessor(r) == Latest({q \in log : q.id < r.id}, {r.name})

\* A row that an update or a delete at or before rev has replaced.
Superseded(r, rev) == \E q \in log : ~q.created /\ q.prev = r.id /\ q.id <= rev

\* Compaction (generic.go tryCompact) removes exactly the client rows that no
\* read at or after the compact revision can see, whatever stale interval the
\* nodes' transactions work on: nothing readable is lost, nothing is leaked.
TableIsCompactedLog ==
    Named(kine, Keys) =
        {r \in log : /\ r.name \in Keys
                     /\ ~Superseded(r, compactRev)
                     /\ ~(r.deleted /\ r.id <= compactRev)}

\* Every snapshot from the compact revision on (listSQL) is the one the
\* history gives, as if no row had ever been compacted or filled.
SnapshotsPreserved ==
    \A rev \in compactRev..seq : Snapshot(kine, rev) = Snapshot(log, rev)

\* MAX(id) is the newest revision ever issued: the current revision that
\* revSQL reports never goes backwards, because the newest row survives every
\* compaction and no fill overtakes it.
CurrentRevisionIsNewest == MaxId(kine) = seq

\* UpdateSQL, DeleteSQL and CreateSQL compare and swap on the table, yet they
\* agree with the history: an update or delete directly follows the live
\* version it names, with its value and creation, and a create follows a
\* deletion or nothing.  So no update is lost and none applies to a stale or
\* deleted version, compacted or not.
EventChain ==
    \A r \in Named(log, Keys) :
        IF r.created
        THEN \A p \in Predecessor(r) : p.deleted
        ELSE \E p \in Predecessor(r) :
                 /\ ~p.deleted
                 /\ r.prev = p.id
                 /\ r.oldValue = p.value
                 /\ r.createRev = CreateRevOf(p)

\* The conditional inserts never run into the unique indexes of schema.go, so
\* the driver's translation of a UNIQUE error to ErrKeyExists is never needed.
InsertsNeverConflict ==
    \A k \in Keys, v \in Values, lease \in Leases :
        /\ \A row \in CreateSQL(kine, NextId, k, v, lease) : Accepts(kine, row)
        /\ \A rev \in 1..seq :
               /\ \A row \in UpdateSQL(kine, NextId, k, v, rev, lease) : Accepts(kine, row)
               /\ \A row \in DeleteSQL(kine, NextId, k, rev) : Accepts(kine, row)

\* Nodes that race through compactStart create a single compact_rev_key row,
\* and no compaction or fill removes or doubles it.
SingleCompactRow ==
    \A r, q \in Named(kine, {CompactRevKey}) : r = q

\* Two nodes compacting different intervals never move the compact revision
\* backwards (UpdateCompactSQL).
CompactRevMonotone == [][compactRev' >= compactRev]_storeVars

\* Compaction keeps up: every revision that DoCompact may compact is
\* eventually compacted by some node.
CompactionCatchesUp ==
    \A rev \in 1..MaxRev :
        (seq >= rev + SupersededCount) ~> (compactRev >= rev)

\* The table implements the versioned store: read it from the compact
\* revision on and every step is a write, a compaction or invisible.
Store == INSTANCE Mvcc
    WITH compactRev <- compactRev,
         currentRev <- MaxId(kine),
         at <- [rev \in compactRev..MaxId(kine) |-> Snapshot(kine, rev)]

ImplementsMvcc == Store!Spec

-----------------------------------------------------------------------------
(* The inductive invariant behind the safety properties *)

\* The history: one row per revision issued, every update or delete names an
\* earlier live row of its key, and a live row that its key has moved past
\* was moved past by an update or delete that names it.
LogInv ==
    /\ \A r \in log : /\ r.id \in 1..seq
                      /\ r.prev < r.id
                      /\ r.name \in Keys \/ (r.name = CompactRevKey /\ r.created)
                      /\ r.created => ~r.deleted
    /\ \A r, q \in log : r.id = q.id => r = q
    /\ \A r \in log : ~r.created =>
           \E p \in log : p.id = r.prev /\ p.name = r.name /\ ~p.deleted
    /\ \A i, m \in Named(log, Keys) :
           i.name = m.name /\ i.id < m.id /\ ~i.deleted =>
               \E j \in log : ~j.created /\ j.prev = i.id /\ j.id <= m.id

\* The rows of the table that are not client rows, and the newest row.
KineInv ==
    /\ \A r \in kine : r.id \in 1..seq
    /\ \A r, q \in kine : r.id = q.id => r = q
    /\ \A r \in kine : r.name \notin Keys =>
           \/ r.name = CompactRevKey /\ r.created /\ ~r.deleted
           \/ r = FillRow(r.id)
    /\ \A r \in kine : r.name = CompactRevKey =>
           \E q \in log : q.id = r.id /\ q.name = CompactRevKey
    /\ \A q \in log : q.name = CompactRevKey =>
           \E r \in kine : r.id = q.id /\ r.name = CompactRevKey
    /\ SingleCompactRow
    /\ seq > 0 => \E r \in kine : r.id = seq
    /\ compactRev \in Nat
    /\ compactRev = 0 \/ compactRev < seq

\* What a compaction in progress may rely on: the compact_rev_key row is
\* there, and its interval starts at or below the compact revision and leaves
\* the newest revision alone.
CompactionOK(c) ==
    /\ c.pc \in {"interval", "batch", "tx"} => Named(kine, {CompactRevKey}) # {}
    /\ c.pc \in {"batch", "tx"} => c.target < seq
    /\ c.pc = "tx" => /\ c.start < c.target
                      /\ c.low <= compactRev
                      /\ c.batch < seq

CompactorInv == \A n \in Nodes : CompactionOK(compactor[n])

IInv == /\ TypeOK
        /\ LogInv
        /\ KineInv
        /\ CompactorInv
        /\ TableIsCompactedLog
        /\ EventChain
=============================================================================
