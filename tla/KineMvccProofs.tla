--------------------------- MODULE KineMvccProofs ---------------------------
(***************************************************************************)
(* The table implements the versioned store of Mvcc: what clients can read *)
(* from the compact revision on changes only by a compare-and-swap write,  *)
(* by a revision the store uses for itself, or by forgetting the oldest    *)
(* snapshots.                                                              *)
(*                                                                         *)
(* The argument goes through the history: under the invariant of KineStore *)
(* the readable snapshots of the table are those of the history, and a row *)
(* that is appended to the history changes no snapshot before it.          *)
(***************************************************************************)
EXTENDS KineStoreProofs

-----------------------------------------------------------------------------
(* The state that the store shows, in terms of the history *)

\* The variables of Mvcc, as the history has them.
ShownAsHistory ==
    /\ compactRev \in Nat /\ seq \in Nat /\ compactRev <= seq
    /\ MaxId(kine) = seq
    /\ [rev \in compactRev..MaxId(kine) |-> Snapshot(kine, rev)] =
          [rev \in compactRev..seq |-> Snapshot(log, rev)]

\* What the table shows from the compact revision on is what the history shows.
LEMMA ShownIsHistory == IInv => ShownAsHistory
  <1> SUFFICES ASSUME IInv PROVE ShownAsHistory
    OBVIOUS
  <1>1. compactRev \in Nat /\ seq \in Nat /\ compactRev <= seq
    BY DEF IInv, KineInv, TypeOK
  <1>2. MaxId(kine) = seq
    BY MaxIdIsSeq
  <1>3. ASSUME NEW rev \in compactRev..seq
        PROVE  Snapshot(kine, rev) = Snapshot(log, rev)
    <2>1. rev \in Nat /\ compactRev <= rev
      BY <1>1
    <2>2. List(kine, Keys, rev) = List(log, Keys, rev)
      BY <1>1, <2>1, ListsAgree DEF IInv
    <2> QED BY <2>2 DEF Snapshot
  <1> QED BY <1>1, <1>2, <1>3 DEF ShownAsHistory

LEMMA ShownIsHistoryNext == IInv' => ShownAsHistory'
  BY ShownIsHistory, PTL

\* At its own revision a new row takes the place of the live row of its key.
LEMMA NewListIs ==
    ASSUME NEW t, NEW row, NEW n \in Nat, row.id = n + 1,
           \A q \in t : q.id \in Nat /\ q.id <= n,
           NEW names
    PROVE  List(t \cup {row}, names, n + 1) =
               {r \in List(t, names, n) : r.name # row.name}
                 \cup {r \in {row} : r.name \in names /\ ~r.deleted}
  <1>1. UpTo(t \cup {row}, n + 1) = t \cup {row}
    BY DEF UpTo
  <1>2. UpTo(t, n) = t
    BY DEF UpTo
  <1>3. ASSUME NEW r \in t
        PROVE  r \in ListCurrent(t \cup {row}, names) <=>
                  r \in ListCurrent(t, names) /\ r.name # row.name
    <2>1. r # row /\ ~(row.id <= r.id)
      OBVIOUS
    <2> QED BY <1>3, <2>1 DEF ListCurrent, Latest, Named
  <1>4. row \in ListCurrent(t \cup {row}, names) <=> row.name \in names /\ ~row.deleted
    <2>1. \A q \in t \cup {row} : q.id <= row.id
      OBVIOUS
    <2> QED BY <2>1 DEF ListCurrent, Latest, Named
  <1>5. /\ \A r \in ListCurrent(t \cup {row}, names) : r \in t \cup {row}
        /\ \A r \in ListCurrent(t, names) : r \in t
    BY DEF ListCurrent, Latest, Named
  <1>6. ListCurrent(t \cup {row}, names) =
            {r \in ListCurrent(t, names) : r.name # row.name}
              \cup {r \in {row} : r.name \in names /\ ~r.deleted}
    BY <1>3, <1>4, <1>5
  <1> QED BY <1>1, <1>2, <1>6 DEF List

\* The newest snapshot after a row was appended to the history.
LEMMA NewSnapshotIs ==
    ASSUME NEW t, NEW row, NEW n \in Nat, row.id = n + 1,
           \A q \in t : q.id \in Nat /\ q.id <= n
    PROVE  Snapshot(t \cup {row}, n + 1) =
               {kv \in Snapshot(t, n) : kv.key # row.name}
                 \cup {KV(r) : r \in {q \in {row} : q.name \in Keys /\ ~q.deleted}}
  <1> DEFINE L == List(t, Keys, n)
             N == {q \in {row} : q.name \in Keys /\ ~q.deleted}
  <1>1. List(t \cup {row}, Keys, n + 1) = {r \in L : r.name # row.name} \cup N
    BY NewListIs
  <1> HIDE DEF L, N
  <1>2. \A r : KV(r).key = r.name
    BY DEF KV
  <1>3. {kv \in {KV(r) : r \in L} : kv.key # row.name} =
        {KV(r) : r \in {q \in L : q.name # row.name}}
    BY <1>2
  <1>4. {KV(r) : r \in {q \in L : q.name # row.name} \cup N} =
        {KV(r) : r \in {q \in L : q.name # row.name}} \cup {KV(r) : r \in N}
    OBVIOUS
  <1> QED BY <1>1, <1>3, <1>4 DEF Snapshot, L, N

-----------------------------------------------------------------------------
(* Steps *)

\* The new row of a write is shown by the next revision and nothing else changes.
LEMMA InsertAppends ==
    ASSUME IInv, IInv', NEW row, Insert(row), row.id = seq + 1,
           compactRev' = compactRev,
           NEW snapshot,
           snapshot = {kv \in Snapshot(log, seq) : kv.key # row.name}
                 \cup {KV(r) : r \in {q \in {row} : q.name \in Keys /\ ~q.deleted}}
    PROVE  Store!Append(snapshot)
  <1>1. /\ seq' = seq + 1 /\ log' = log \cup {row}
        /\ \A q \in log : q.id \in Nat /\ q.id <= seq
    BY DEF Insert, IInv, LogInv, TypeOK
  <1>2. /\ compactRev \in Nat /\ seq \in Nat /\ compactRev <= seq
        /\ MaxId(kine) = seq
        /\ [rev \in compactRev..MaxId(kine) |-> Snapshot(kine, rev)] =
           [rev \in compactRev..seq |-> Snapshot(log, rev)]
    BY ShownIsHistory DEF ShownAsHistory
  <1>3. /\ MaxId(kine') = seq'
        /\ [rev \in compactRev'..MaxId(kine') |-> Snapshot(kine', rev)] =
           [rev \in compactRev'..seq' |-> Snapshot(log', rev)]
    BY ShownIsHistoryNext DEF ShownAsHistory
  <1>4. ASSUME NEW rev \in compactRev..seq
        PROVE  Snapshot(log', rev) = Snapshot(log, rev)
    <2>1. rev \in Nat /\ rev <= seq
      BY <1>2
    <2> QED BY <1>1, <1>2, <2>1, OldListsStay DEF Snapshot
  <1>5. Snapshot(log', seq + 1) = snapshot
    BY <1>1, <1>2, NewSnapshotIs
  <1>6. [rev \in compactRev'..seq' |-> Snapshot(log', rev)] =
        [rev \in compactRev..seq + 1 |->
            IF rev <= seq THEN [r \in compactRev..seq |-> Snapshot(log, r)][rev]
                          ELSE snapshot]
    <2>1. ASSUME NEW rev \in compactRev..seq + 1
          PROVE  Snapshot(log', rev) =
                 IF rev <= seq THEN [r \in compactRev..seq |-> Snapshot(log, r)][rev]
                               ELSE snapshot
      BY <1>2, <1>4, <1>5
    <2> QED BY <1>1, <2>1
  <1> QED BY <1>1, <1>2, <1>3, <1>6 DEF Store!Append

\* A row of a client key does not touch the compact revision.
LEMMA KeyRowKeepsCompactRev ==
    ASSUME NEW row, row.name \in Keys, Insert(row)
    PROVE  compactRev' = compactRev
  <1>1. Named(kine', {CompactRevKey}) = Named(kine, {CompactRevKey})
    BY NamesAssumption DEF Insert, Named
  <1> QED BY <1>1, CompactRevSame DEF compactRev

\* The current version of a key is the live newest row of the table.
LEMMA VersionsAre ==
    ASSUME IInv, NEW k \in Keys
    PROVE  /\ Store!Versions(k) =
                 {KV(r) : r \in {q \in Latest(kine, {k}) : ~q.deleted}}
           /\ Store!Others(k) = {kv \in Snapshot(log, seq) : kv.key # k}
  <1>1. [rev \in compactRev..MaxId(kine) |-> Snapshot(kine, rev)][MaxId(kine)]
            = Snapshot(log, seq)
    BY ShownIsHistory DEF ShownAsHistory
  <1>2. Store!Versions(k) = {kv \in Snapshot(log, seq) : kv.key = k}
    BY <1>1 DEF Store!Versions
  <1>3. Store!Others(k) = {kv \in Snapshot(log, seq) : kv.key # k}
    BY <1>1, <1>2 DEF Store!Others
  <1>4. UpTo(log, seq) = log
    BY DEF IInv, LogInv, UpTo
  <1>5. Snapshot(log, seq) = {KV(r) : r \in ListCurrent(log, Keys)}
    BY <1>4 DEF Snapshot, List
  <1>6. {r \in ListCurrent(log, Keys) : r.name = k} = {q \in Latest(log, {k}) : ~q.deleted}
    BY DEF ListCurrent, Latest, Named
  <1>7. {q \in Latest(log, {k}) : ~q.deleted} = {q \in Latest(kine, {k}) : ~q.deleted}
    BY LatestAgree
  <1>8. {kv \in {KV(r) : r \in ListCurrent(log, Keys)} : kv.key = k} =
        {KV(r) : r \in {q \in ListCurrent(log, Keys) : q.name = k}}
    <2>1. \A r : KV(r).key = r.name
      BY DEF KV
    <2> QED BY <2>1
  <1> QED BY <1>2, <1>3, <1>5, <1>6, <1>7, <1>8

LEMMA CreateRefines ==
    ASSUME IInv, IInv', NEW k \in Keys, NEW v \in Values, NEW lease \in Leases,
           Create(k, v, lease)
    PROVE  Store!Create(k, v, lease)
  <1>1. PICK row \in CreateSQL(kine, NextId, k, v, lease) : Insert(row)
    BY DEF Create
  <1>2. seq \in Nat /\ NextId = seq + 1 /\ MaxId(kine) = seq
    BY MaxIdIsSeq DEF IInv, TypeOK, NextId
  <1>3. /\ row.id = seq + 1 /\ row.name = k /\ row.created /\ ~row.deleted
        /\ row.value = v /\ row.lease = lease
    BY <1>1, <1>2 DEF CreateSQL
  <1>4. ASSUME NEW q \in Latest(kine, {k}), ~q.deleted PROVE FALSE
    <2>1. q \in kine /\ q \in Named(kine, {k})
      BY DEF Latest, Named
    <2>2. PICK r \in Latest(kine, {k}) : r.deleted
      BY <1>1, <2>1 DEF CreateSQL
    <2>3. q.id <= r.id /\ r.id <= q.id /\ r \in kine /\ q.id \in Nat /\ r.id \in Nat
      BY <2>1 DEF Latest, Named, IInv, KineInv
    <2>4. q = r
      BY <2>1, <2>3 DEF IInv, KineInv
    <2> QED BY <1>4, <2>2, <2>4
  <1>5. Store!Versions(k) = {}
    BY <1>4, VersionsAre
  <1>6. KV(row) = Store!Version(k, v, lease, MaxId(kine) + 1)
    BY <1>2, <1>3 DEF KV, CreateRevOf, Store!Version
  <1>7. {KV(r) : r \in {q \in {row} : q.name \in Keys /\ ~q.deleted}} = {KV(row)}
    BY <1>3
  <1>8. Store!Append(Store!Others(k) \cup {KV(row)})
    BY <1>1, <1>3, <1>7, VersionsAre, KeyRowKeepsCompactRev, InsertAppends
  <1> QED BY <1>5, <1>6, <1>8 DEF Store!Create

LEMMA UpdateRefines ==
    ASSUME IInv, IInv', NEW k \in Keys, NEW v \in Values, NEW lease \in Leases,
           NEW rev, Update(k, v, rev, lease)
    PROVE  Store!Update(k, v, rev, lease)
  <1>1. PICK row \in UpdateSQL(kine, NextId, k, v, rev, lease) : Insert(row)
    BY DEF Update
  <1>2. seq \in Nat /\ NextId = seq + 1 /\ MaxId(kine) = seq
    BY MaxIdIsSeq DEF IInv, TypeOK, NextId
  <1>3. PICK p \in Latest(kine, {k}) :
           /\ ~p.deleted /\ p.id = rev
           /\ row = [id |-> NextId, name |-> k, created |-> FALSE,
                     deleted |-> FALSE, createRev |-> CreateRevOf(p),
                     prev |-> p.id, lease |-> lease, value |-> v,
                     oldValue |-> p.value]
    BY <1>1 DEF UpdateSQL, Current
  <1>4. /\ row.id = seq + 1 /\ row.name = k /\ ~row.created /\ ~row.deleted
        /\ row.value = v /\ row.lease = lease /\ row.createRev = CreateRevOf(p)
    BY <1>2, <1>3
  <1>5. KV(p) \in Store!Versions(k) /\ KV(p).modRev = rev
    BY <1>3, VersionsAre DEF KV
  <1>6. KV(row) = Store!Version(k, v, lease, KV(p).createRev)
    <2>1. KV(p).createRev = CreateRevOf(p) /\ CreateRevOf(row) = CreateRevOf(p)
      BY <1>4 DEF KV, CreateRevOf
    <2> QED BY <1>2, <1>4, <2>1 DEF KV, Store!Version
  <1>7. {KV(r) : r \in {q \in {row} : q.name \in Keys /\ ~q.deleted}} = {KV(row)}
    BY <1>4
  <1>8. Store!Append(Store!Others(k) \cup {KV(row)})
    BY <1>1, <1>4, <1>7, VersionsAre, KeyRowKeepsCompactRev, InsertAppends
  <1> QED BY <1>5, <1>6, <1>8 DEF Store!Update

LEMMA DeleteRefines ==
    ASSUME IInv, IInv', NEW k \in Keys, NEW rev, Delete(k, rev)
    PROVE  Store!Delete(k, rev)
  <1>1. PICK row \in DeleteSQL(kine, NextId, k, rev) : Insert(row)
    BY DEF Delete
  <1>2. seq \in Nat /\ NextId = seq + 1
    BY DEF IInv, TypeOK, NextId
  <1>3. PICK p \in Latest(kine, {k}) : ~p.deleted /\ p.id = rev
    BY <1>1 DEF DeleteSQL, Current
  <1>4. row.id = seq + 1 /\ row.name = k /\ row.deleted
    BY <1>1, <1>2 DEF DeleteSQL
  <1>5. KV(p) \in Store!Versions(k) /\ KV(p).modRev = rev
    BY <1>3, VersionsAre DEF KV
  <1>6. {KV(r) : r \in {q \in {row} : q.name \in Keys /\ ~q.deleted}} = {}
    BY <1>4
  <1>7. Store!Append(Store!Others(k))
    BY <1>1, <1>4, <1>6, VersionsAre, KeyRowKeepsCompactRev, InsertAppends
  <1> QED BY <1>5, <1>7 DEF Store!Delete

\* The compact_rev_key row uses a revision and shows nothing.
LEMMA InternalRefines ==
    ASSUME IInv, IInv', NEW row \in CreateSQL(kine, NextId, CompactRevKey, NoValue, 0),
           Insert(row)
    PROVE  Store!Internal
  <1>1. seq \in Nat /\ row.id = seq + 1 /\ row.name = CompactRevKey /\ ~row.deleted
    BY DEF CreateSQL, NextId, IInv, TypeOK
  <1>2. /\ \A r \in kine : r.name = CompactRevKey => ~r.deleted
        /\ \A r \in kine : r.id \in Nat
    <2>1. \A r \in Nat : FillRow(r).name # CompactRevKey
      BY NamesAssumption DEF FillRow, GapName
    <2>2. \A r \in kine : r.id \in Nat
      BY DEF IInv, KineInv
    <2> QED BY <2>1, <2>2, NamesAssumption DEF IInv, KineInv
  <1>3. Named(kine, {CompactRevKey}) = {} /\ row.prev = 0
    <2>1. {q \in Latest(kine, {CompactRevKey}) : q.deleted} = {}
      BY <1>2 DEF Latest, Named
    <2> QED BY <2>1 DEF CreateSQL
  <1>4. compactRev' = compactRev
    <2>1. compactRev = 0
      BY <1>3, CompactRevNone DEF compactRev
    <2>2. \A q \in kine' : q.name = CompactRevKey => q = row
      BY <1>3 DEF Named, Insert
    <2>3. row \in kine' /\ row.prev \in Nat
      BY <1>3 DEF Insert
    <2>4. CompactRev(kine') = 0
      BY <1>1, <1>3, <2>2, <2>3, CompactRevIs
    <2> QED BY <2>1, <2>4 DEF compactRev
  <1>5. {kv \in Snapshot(log, seq) : kv.key # row.name} = Snapshot(log, seq)
    <2>1. \A r \in List(log, Keys, seq) : KV(r).key \in Keys
      BY DEF List, ListCurrent, Latest, Named, KV
    <2> QED BY <1>1, <2>1, NamesAssumption DEF Snapshot
  <1>6. {KV(r) : r \in {q \in {row} : q.name \in Keys /\ ~q.deleted}} = {}
    BY <1>1, NamesAssumption
  <1>7. Store!Append(Snapshot(log, seq))
    BY <1>1, <1>4, <1>5, <1>6, InsertAppends
  <1>8. [rev \in compactRev..MaxId(kine) |-> Snapshot(kine, rev)][MaxId(kine)]
            = Snapshot(log, seq)
    BY ShownIsHistory DEF ShownAsHistory
  <1> QED BY <1>7, <1>8 DEF Store!Internal

\* A step that appends nothing to the history is invisible or a compaction.
LEMMA OthersRefine ==
    ASSUME IInv, IInv', log' = log, seq' = seq, compactRev <= compactRev'
    PROVE  Store!Next \/ UNCHANGED Store!vars
  <1>1. /\ compactRev \in Nat /\ seq \in Nat /\ compactRev <= seq
        /\ MaxId(kine) = seq
        /\ [rev \in compactRev..MaxId(kine) |-> Snapshot(kine, rev)] =
           [rev \in compactRev..seq |-> Snapshot(log, rev)]
    BY ShownIsHistory DEF ShownAsHistory
  <1>2. /\ compactRev' \in Nat /\ compactRev' <= seq
        /\ MaxId(kine') = seq
        /\ [rev \in compactRev'..MaxId(kine') |-> Snapshot(kine', rev)] =
           [rev \in compactRev'..seq |-> Snapshot(log, rev)]
    BY ShownIsHistoryNext DEF ShownAsHistory
  <1>3. CASE compactRev' = compactRev
    BY <1>1, <1>2, <1>3 DEF Store!vars
  <1>4. CASE compactRev < compactRev'
    <2>1. compactRev' \in 0..MaxId(kine) - 1
      BY <1>1, <1>2, <1>4 DEF IInv, KineInv
    <2>2. [rev \in compactRev'..seq |-> Snapshot(log, rev)] =
          [rev \in compactRev'..seq |-> [r \in compactRev..seq |-> Snapshot(log, r)][rev]]
      BY <1>1, <1>2, <1>4
    <2>3. Store!Compact(compactRev')
      BY <1>1, <1>2, <1>4, <2>2 DEF Store!Compact
    <2> QED BY <2>1, <2>3 DEF Store!Next
  <1> QED BY <1>1, <1>2, <1>3, <1>4

\* Every step of the store is a step of Mvcc or invisible.
LEMMA NextRefines ==
    ASSUME IInv, IInv', compactRev <= compactRev', Next
    PROVE  Store!Next \/ UNCHANGED Store!vars
  <1>1. MaxId(kine) = seq /\ MaxId(kine') = seq' /\ seq \in Nat
    BY ShownIsHistory, ShownIsHistoryNext DEF ShownAsHistory
  <1>2. ASSUME NEW k \in Keys, NEW v \in Values, NEW lease \in Leases,
               Create(k, v, lease)
        PROVE  Store!Next
    <2>1. Store!Create(k, v, lease)
      BY <1>2, CreateRefines
    <2>2. seq' = seq + 1
      BY <1>2 DEF Create, Insert
    <2> QED BY <1>1, <2>1, <2>2 DEF Store!Next, Store!Write
  <1>3. ASSUME NEW k \in Keys, NEW v \in Values, NEW lease \in Leases,
               NEW rev \in 1..seq, Update(k, v, rev, lease)
        PROVE  Store!Next
    <2>1. Store!Update(k, v, rev, lease)
      BY <1>3, UpdateRefines
    <2>2. seq' = seq + 1
      BY <1>3 DEF Update, Insert
    <2> QED BY <1>1, <2>1, <2>2 DEF Store!Next, Store!Write
  <1>4. ASSUME NEW k \in Keys, NEW rev \in 1..seq, Delete(k, rev)
        PROVE  Store!Next
    <2>1. Store!Delete(k, rev)
      BY <1>4, DeleteRefines
    <2>2. seq' = seq + 1
      BY <1>4 DEF Delete, Insert
    <2> QED BY <1>1, <2>1, <2>2 DEF Store!Next, Store!Write
  <1>5. CASE ClientStep
    BY <1>2, <1>3, <1>4, <1>5 DEF ClientStep
  <1>6. ASSUME NEW n \in Nodes, CreateCompactKey(n)
        PROVE  Store!Next \/ UNCHANGED Store!vars
    <2>1. ASSUME NEW row \in CreateSQL(kine, NextId, CompactRevKey, NoValue, 0),
                 Insert(row)
          PROVE  Store!Next
      <3>1. Store!Internal
        BY <2>1, InternalRefines
      <3>2. seq' = seq + 1
        BY <2>1 DEF Insert
      <3> QED BY <1>1, <3>1, <3>2 DEF Store!Next
    <2>2. CASE UNCHANGED <<kine, seq, log>>
      BY <2>2, OthersRefine
    <2> QED BY <1>6, <2>1, <2>2 DEF CreateCompactKey
  <1>7. ASSUME NEW n \in Nodes,
               \/ CompactStart(n) \/ ReadInterval(n) \/ StartBatch(n)
               \/ CommitBatch(n) \/ EndCompact(n) \/ AbortCompact(n)
        PROVE  Store!Next \/ UNCHANGED Store!vars
    <2>1. log' = log /\ seq' = seq
      BY <1>7 DEF CompactStart, ReadInterval, StartBatch, CommitBatch, EndCompact,
                  AbortCompact
    <2> QED BY <2>1, OthersRefine
  <1>8. ASSUME NEW rev \in 1..seq, Fill(rev)
        PROVE  Store!Next \/ UNCHANGED Store!vars
    <2>1. log' = log /\ seq' = seq
      BY <1>8 DEF Fill
    <2> QED BY <2>1, OthersRefine
  <1> QED BY <1>5, <1>6, <1>7, <1>8 DEF Next, DoCompactStep

-----------------------------------------------------------------------------

\* Whatever clients, pollers and compactors do to the table, what can be read
\* of it behaves as a versioned store: snapshots never change, writes are
\* compare-and-swap on the newest one, compaction forgets only the oldest.
THEOREM Refinement == Spec => ImplementsMvcc
  <1>1. Init => Store!Init
    <2> SUFFICES ASSUME Init PROVE Store!Init
      OBVIOUS
    <2>1. IInv /\ seq = 0 /\ log = {}
      BY InitStep DEF Init
    <2>2. /\ compactRev = 0 /\ MaxId(kine) = 0
          /\ [rev \in compactRev..MaxId(kine) |-> Snapshot(kine, rev)] =
             [rev \in 0..0 |-> Snapshot(log, rev)]
      BY <2>1, ShownIsHistory DEF ShownAsHistory
    <2>3. \A rev : Snapshot(log, rev) = {}
      BY <2>1 DEF Snapshot, List, ListCurrent, Latest, UpTo, Named
    <2> QED BY <2>2, <2>3 DEF Store!Init
  <1>2. IInv /\ [Next]_storeVars => [Store!Next]_(Store!vars)
    <2>1. IInv /\ Next => [Store!Next]_(Store!vars)
      BY NextStep, NextRefines
    <2>2. UNCHANGED storeVars => UNCHANGED Store!vars
      BY DEF storeVars, Store!vars, compactRev
    <2> QED BY <2>1, <2>2
  <1> QED BY <1>1, <1>2, Invariance, PTL DEF Spec, ImplementsMvcc, Store!Spec
=============================================================================
