-------------------------- MODULE KineStoreProofs --------------------------
(***************************************************************************)
(* Proofs about KineStore, for every set of keys, values, leases and nodes *)
(* and every batch size, and every positive number of revisions that       *)
(* DoCompact leaves alone.                                                 *)
(***************************************************************************)
EXTENDS KineStore, FiniteSetTheorems, TLAPS

-----------------------------------------------------------------------------
(* Facts about the aggregate queries *)

\* A set of naturals has a least element.
LEMMA LeastExists ==
    ASSUME NEW T \in SUBSET Nat, T # {}
    PROVE  \E x \in T : \A y \in T : x <= y
  <1> DEFINE R == OpToRel(<, Nat)
  <1>1. \A x, y \in Nat : y < x => <<y, x>> \in R
    BY DEF OpToRel
  <1>2. IsWellFoundedOn(R, Nat)
    BY NatLessThanWellFounded
  <1> HIDE DEF R
  <1>3. PICK x \in T : \A y \in T : ~(<<y, x>> \in R)
    BY <1>2, WFMin
  <1>4. ASSUME NEW y \in T PROVE x <= y
    <2>1. x \in Nat /\ y \in Nat
      OBVIOUS
    <2>2. ~(y < x)
      BY <1>1, <1>3, <2>1, Zenon
    <2> QED BY <2>1, <2>2
  <1> QED BY <1>4

\* A table with unique ids up to some number is finite.
LEMMA TableFinite ==
    ASSUME NEW t, NEW n \in Nat, \A r \in t : r.id \in 1..n,
           \A r, q \in t : r.id = q.id => r = q
    PROVE  IsFiniteSet(t)
  <1> DEFINE f == [r \in t |-> r.id]
  <1>1. f \in Injection(t, 1..n)
    BY DEF Injection, IsInjective
  <1>2. IsFiniteSet(1..n)
    BY FS_Interval
  <1> HIDE DEF f
  <1> QED BY <1>1, <1>2, FS_Injection

\* MAX over a set that has a largest element is that element.
LEMMA MaxOfIs ==
    ASSUME NEW S \in SUBSET Int, NEW m \in S, \A n \in S : n <= m
    PROVE  MaxOf(S) = m
  <1> DEFINE x == CHOOSE y \in S : \A n \in S : n <= y
  <1>1. x \in S /\ \A n \in S : n <= x
    OBVIOUS
  <1>2. x \in Int /\ m \in Int /\ x <= m /\ m <= x
    BY <1>1
  <1>3. MaxOf(S) = x
    BY DEF MaxOf
  <1> QED BY <1>2, <1>3

\* A bounded set of naturals has a largest element, and MaxOf is it.
LEMMA MaxOfBounded ==
    ASSUME NEW n \in Nat, NEW T \in SUBSET Nat, T # {}, \A x \in T : x <= n
    PROVE  MaxOf(T) \in T /\ \A x \in T : x <= MaxOf(T)
  <1> DEFINE U == {n - x : x \in T}
  <1>1. U \in SUBSET Nat /\ U # {}
    <2>1. \A x \in T : n - x \in Nat
      OBVIOUS
    <2>2. PICK x \in T : TRUE
      OBVIOUS
    <2>3. n - x \in U
      OBVIOUS
    <2> QED BY <2>1, <2>3
  <1>2. PICK u \in U : \A y \in U : u <= y
    BY <1>1, LeastExists
  <1>3. PICK m \in T : u = n - m
    OBVIOUS
  <1>4. \A x \in T : n - m <= n - x
    BY <1>2, <1>3
  <1>5. \A x \in T : x <= m
    BY <1>4
  <1>6. MaxOf(T) = m
    <2>1. T \in SUBSET Int
      OBVIOUS
    <2> QED BY <1>5, <2>1, MaxOfIs
  <1> QED BY <1>5, <1>6

\* The current revision of a table with a row that no other row overtakes.
LEMMA MaxIdIs ==
    ASSUME NEW t, NEW r \in t, \A q \in t : q.id \in Nat /\ q.id <= r.id
    PROVE  MaxId(t) = r.id
  <1> DEFINE S == {q.id : q \in t}
  <1>1. S \in SUBSET Int /\ r.id \in S /\ \A n \in S : n <= r.id
    OBVIOUS
  <1>2. MaxOf(S) = r.id
    BY <1>1, MaxOfIs
  <1> QED BY <1>2 DEF MaxId

\* The compact revision of a table with a single compact_rev_key row.
LEMMA CompactRevIs ==
    ASSUME NEW t, NEW r \in t, r.name = CompactRevKey, r.prev \in Nat,
           \A q \in t : q.name = CompactRevKey => q = r
    PROVE  CompactRev(t) = r.prev
  <1> DEFINE S == {q.prev : q \in Named(t, {CompactRevKey})}
  <1>1. S = {r.prev}
    BY DEF Named
  <1> HIDE DEF S
  <1>2. S \in SUBSET Int /\ r.prev \in S /\ \A n \in S : n <= r.prev
    BY <1>1
  <1>3. MaxOf(S) = r.prev
    BY <1>2, MaxOfIs
  <1> QED BY <1>3 DEF CompactRev, S

\* A table without such a row counts as never compacted.
LEMMA CompactRevNone ==
    ASSUME NEW t, Named(t, {CompactRevKey}) = {}
    PROVE  CompactRev(t) = 0
  <1>1. {q.prev : q \in Named(t, {CompactRevKey})} = {}
    OBVIOUS
  <1> QED BY <1>1 DEF CompactRev, MaxOf

\* Only the compact_rev_key rows matter for the compact revision.
LEMMA CompactRevSame ==
    ASSUME NEW t, NEW u, Named(t, {CompactRevKey}) = Named(u, {CompactRevKey})
    PROVE  CompactRev(t) = CompactRev(u)
  BY DEF CompactRev

-----------------------------------------------------------------------------
(* Consequences of the invariant *)

\* A client row of the history that came after the compact revision is in
\* the table.
LEMMA NewRowsKept ==
    ASSUME LogInv, TypeOK, compactRev \in Nat, TableIsCompactedLog,
           NEW r \in log, r.name \in Keys, compactRev < r.id
    PROVE  r \in kine
  <1>1. ~Superseded(r, compactRev)
    <2> SUFFICES ASSUME NEW q \in log, q.prev = r.id, q.id <= compactRev
                 PROVE  FALSE
      BY DEF Superseded
    <2>1. q.prev < q.id /\ q.id \in Nat /\ r.id \in Nat
      BY DEF LogInv, TypeOK, Row
    <2> QED BY <2>1
  <1>2. ~(r.id <= compactRev)
    BY DEF LogInv
  <1>3. r \in Named(kine, Keys)
    BY <1>1, <1>2 DEF TableIsCompactedLog
  <1> QED BY <1>3 DEF Named

\* A client row of the table is a row of the history.
LEMMA KeptRows ==
    ASSUME TableIsCompactedLog, NEW r \in kine, r.name \in Keys
    PROVE  /\ r \in log
           /\ ~Superseded(r, compactRev)
           /\ ~(r.deleted /\ r.id <= compactRev)
  BY DEF TableIsCompactedLog, Named

\* A live client row of the history that the table no longer has was
\* superseded at or below the compact revision.
LEMMA LostRowsSuperseded ==
    ASSUME TableIsCompactedLog, NEW r \in log, r.name \in Keys,
           ~r.deleted, r \notin kine
    PROVE  Superseded(r, compactRev)
  BY DEF TableIsCompactedLog, Named

\* The newest row of a key, when live, is the same in the table and in the
\* history, at every revision from the compact revision on.
LEMMA ListsAgree ==
    ASSUME LogInv, TypeOK, compactRev \in Nat, TableIsCompactedLog,
           NEW rev \in Nat, compactRev <= rev
    PROVE  List(kine, Keys, rev) = List(log, Keys, rev)
  <1>1. ASSUME NEW i \in List(kine, Keys, rev)
        PROVE  i \in List(log, Keys, rev)
    <2>1. /\ i \in kine /\ i.id <= rev /\ i.name \in Keys /\ ~i.deleted
          /\ \A q \in kine : q.id <= rev /\ q.name = i.name => q.id <= i.id
      BY <1>1 DEF List, ListCurrent, Latest, UpTo, Named
    <2>2. i \in log /\ ~Superseded(i, compactRev)
      BY <2>1, KeptRows
    <2>3. ASSUME NEW m \in log, m.id <= rev, m.name = i.name, ~(m.id <= i.id)
          PROVE  FALSE
      <3>1. i.id \in Nat /\ m.id \in Nat /\ i.id < m.id
        BY <2>2, <2>3 DEF TypeOK, Row
      <3>2. i \in Named(log, Keys) /\ m \in Named(log, Keys)
        BY <2>1, <2>2, <2>3 DEF Named
      <3>3. PICK j \in log : ~j.created /\ j.prev = i.id /\ j.id <= m.id
        BY <2>1, <2>3, <3>1, <3>2 DEF LogInv
      <3>4. j.id \in Nat /\ compactRev < j.id
        BY <2>2, <3>3 DEF Superseded, TypeOK, Row
      <3>5. compactRev < m.id
        BY <3>1, <3>3, <3>4
      <3>6. m \in kine
        BY <2>1, <2>3, <3>5, NewRowsKept
      <3> QED BY <2>1, <2>3, <3>6
    <2> QED BY <2>1, <2>2, <2>3 DEF List, ListCurrent, Latest, UpTo, Named
  <1>2. ASSUME NEW i \in List(log, Keys, rev)
        PROVE  i \in List(kine, Keys, rev)
    <2>1. /\ i \in log /\ i.id <= rev /\ i.name \in Keys /\ ~i.deleted
          /\ \A q \in log : q.id <= rev /\ q.name = i.name => q.id <= i.id
      BY <1>2 DEF List, ListCurrent, Latest, UpTo, Named
    <2>2. ASSUME i \notin kine PROVE FALSE
      <3>1. PICK j \in log : ~j.created /\ j.prev = i.id /\ j.id <= compactRev
        BY <2>1, <2>2, LostRowsSuperseded DEF Superseded
      <3>2. PICK p \in log : p.id = j.prev /\ p.name = j.name
        BY <3>1 DEF LogInv
      <3>3. p = i
        BY <2>1, <3>1, <3>2 DEF LogInv
      <3>4. j.id \in Nat /\ i.id \in Nat /\ i.id < j.id /\ j.id <= rev
        BY <2>1, <3>1 DEF LogInv, TypeOK, Row
      <3> QED BY <2>1, <3>2, <3>3, <3>4
    <2>3. \A q \in kine : q.name = i.name => q \in log
      BY <2>1, KeptRows
    <2> QED BY <2>1, <2>2, <2>3 DEF List, ListCurrent, Latest, UpTo, Named
  <1> QED BY <1>1, <1>2

\* The row a conditional write finds is the newest of its key in the history
\* too, if it is live; if there is none, the history's newest is a deletion.
LEMMA LatestAgree ==
    ASSUME IInv, NEW k \in Keys
    PROVE  /\ \A p \in Latest(kine, {k}) : ~p.deleted => p \in Latest(log, {k})
           /\ \A p \in Latest(log, {k}) : ~p.deleted => p \in Latest(kine, {k})
  <1>1. seq \in Nat /\ compactRev \in Nat /\ compactRev <= seq
    BY DEF IInv, TypeOK, KineInv
  <1>2. List(kine, Keys, seq) = List(log, Keys, seq)
    BY <1>1, ListsAgree DEF IInv
  <1>3. UpTo(kine, seq) = kine
    BY DEF IInv, KineInv, UpTo
  <1>4. UpTo(log, seq) = log
    BY DEF IInv, LogInv, UpTo
  <1>5. ListCurrent(kine, Keys) = ListCurrent(log, Keys)
    BY <1>2, <1>3, <1>4 DEF List
  <1>6. ASSUME NEW t, NEW p \in t
        PROVE  p \in Latest(t, {k}) /\ ~p.deleted <=>
               p \in ListCurrent(t, Keys) /\ p.name = k
    BY DEF ListCurrent, Latest, Named
  <1>7. \A p \in Latest(kine, {k}) : p \in kine
    BY DEF Latest, Named
  <1>8. \A p \in Latest(log, {k}) : p \in log
    BY DEF Latest, Named
  <1>9. \A p \in ListCurrent(kine, Keys) : p \in kine /\ p \in log
    BY <1>5 DEF ListCurrent, Latest, Named
  <1> QED BY <1>5, <1>6, <1>7, <1>8, <1>9

\* MAX(id) is the newest revision.
LEMMA MaxIdIsSeq ==
    ASSUME IInv PROVE MaxId(kine) = seq
  <1>1. seq \in Nat
    BY DEF IInv, TypeOK
  <1>2. CASE seq = 0
    <2>1. kine = {}
      BY <1>2 DEF IInv, KineInv
    <2> QED BY <1>2, <2>1 DEF MaxId, MaxOf
  <1>3. CASE seq > 0
    <2>1. PICK r \in kine : r.id = seq
      BY <1>3 DEF IInv, KineInv
    <2>2. \A q \in kine : q.id \in Nat /\ q.id <= r.id
      BY <1>1, <2>1 DEF IInv, KineInv
    <2> QED BY <2>1, <2>2, MaxIdIs
  <1> QED BY <1>1, <1>2, <1>3

-----------------------------------------------------------------------------
(* The invariant is preserved *)

\* A compaction in progress keeps what it relies on while others write, fill
\* or compact: the counter and the compact revision only grow and the
\* compact_rev_key row stays.
LEMMA CompactionStays ==
    ASSUME NEW n \in Nodes, compactor'[n] = compactor[n],
           compactor[n] \in CompactionState, CompactionOK(compactor[n]),
           seq \in Nat, seq' \in Nat, seq <= seq',
           compactRev \in Nat, compactRev' \in Nat, compactRev <= compactRev',
           Named(kine, {CompactRevKey}) # {} => Named(kine', {CompactRevKey}) # {}
    PROVE  CompactionOK(compactor[n])'
  <1> DEFINE c == compactor[n]
  <1>1. c.target \in Int /\ c.batch \in Nat /\ c.low \in Nat
    BY DEF CompactionState
  <1>2. c.pc \in {"batch", "tx"} => c.target < seq'
    BY <1>1 DEF CompactionOK
  <1>3. c.pc = "tx" => /\ c.start < c.target
                      /\ c.low <= compactRev'
                      /\ c.batch < seq'
    BY <1>1 DEF CompactionOK
  <1> QED BY <1>2, <1>3 DEF CompactionOK

\* Inserting a client row keeps the invariant, provided that the row follows
\* what the table shows as the newest row of its key.
LEMMA InsertKeyRow ==
    ASSUME IInv,
           NEW row \in Row, row.name \in Keys, row.id = seq + 1,
           row.prev < row.id, row.created => ~row.deleted,
           row.created => \A p \in Latest(kine, {row.name}) : p.deleted,
           ~row.created => \E p \in Latest(kine, {row.name}) :
                              /\ ~p.deleted
                              /\ row.prev = p.id
                              /\ row.oldValue = p.value
                              /\ row.createRev = CreateRevOf(p),
           Insert(row), UNCHANGED compactor
    PROVE  IInv' /\ compactRev <= compactRev'
  <1> USE DEF Insert
  <1> DEFINE k == row.name
  <1>1. /\ kine' = kine \cup {row} /\ log' = log \cup {row} /\ seq' = seq + 1
        /\ seq \in Nat /\ compactor' = compactor
    BY DEF IInv, TypeOK
  <1>2. /\ \A q \in log : q.id \in Nat /\ q.id <= seq
        /\ \A q \in kine : q.id \in Nat /\ q.id <= seq
    BY DEF IInv, LogInv, KineInv, TypeOK, Row
  <1>3. row \notin log /\ row \notin kine
    BY <1>1, <1>2
  <1>4. Named(kine', {CompactRevKey}) = Named(kine, {CompactRevKey})
    BY <1>1, NamesAssumption DEF Named
  <1>5. compactRev' = compactRev /\ compactRev \in Nat /\ compactRev <= seq
    <2>1. compactRev' = compactRev
      BY <1>4, CompactRevSame DEF compactRev
    <2>2. compactRev \in Nat /\ (compactRev = 0 \/ compactRev < seq)
      BY DEF IInv, KineInv
    <2> QED BY <1>1, <2>1, <2>2
  <1>6. TypeOK'
    BY <1>1 DEF IInv, TypeOK
  <1>7. \A p \in Latest(kine, {k}) : p \in kine
    BY DEF Latest, Named
  <1>8. ASSUME ~row.created
        PROVE  \E p \in Latest(log, {k}) :
                  /\ p \in log /\ p.name = k /\ ~p.deleted
                  /\ row.prev = p.id
                  /\ row.oldValue = p.value
                  /\ row.createRev = CreateRevOf(p)
    <2>1. PICK p \in Latest(kine, {k}) : /\ ~p.deleted
                                         /\ row.prev = p.id
                                         /\ row.oldValue = p.value
                                         /\ row.createRev = CreateRevOf(p)
      BY <1>8
    <2>2. p \in Latest(log, {k})
      BY <2>1, LatestAgree
    <2>3. p \in log /\ p.name = k
      BY <2>2 DEF Latest, Named
    <2> QED BY <2>1, <2>2, <2>3
  <1>9. ASSUME row.created
        PROVE  \A p \in Latest(log, {k}) : p.deleted
    BY <1>9, LatestAgree
  <1>10. ASSUME NEW i \in log, i.name = k, ~i.deleted
         PROVE  \E j \in log' : ~j.created /\ j.prev = i.id /\ j.id <= row.id
    <2>1. CASE i \in Latest(log, {k})
      <3>1. ~row.created
        BY <1>9, <1>10, <2>1
      <3>2. PICK p \in Latest(log, {k}) : p \in log /\ row.prev = p.id
        BY <1>8, <3>1
      <3>3. p.id = i.id
        BY <1>2, <1>10, <2>1, <3>2 DEF Latest, Named
      <3> QED BY <1>1, <3>1, <3>2, <3>3
    <2>2. CASE i \notin Latest(log, {k})
      <3>1. PICK m \in log : m.name = k /\ ~(m.id <= i.id)
        BY <1>10, <2>2 DEF Latest, Named
      <3>2. i.id < m.id /\ m.id <= row.id
        BY <1>1, <1>2, <1>10, <3>1
      <3>3. i \in Named(log, Keys) /\ m \in Named(log, Keys)
        BY <1>10, <3>1 DEF Named
      <3>4. PICK j \in log : ~j.created /\ j.prev = i.id /\ j.id <= m.id
        BY <1>10, <3>1, <3>2, <3>3 DEF IInv, LogInv
      <3>5. j.id <= row.id
        BY <1>1, <1>2, <3>4
      <3> QED BY <1>1, <3>4, <3>5
    <2> QED BY <2>1, <2>2
  <1>11. LogInv'
    <2>1. \A r \in log' : /\ r.id \in 1..seq'
                          /\ r.prev < r.id
                          /\ r.name \in Keys \/ (r.name = CompactRevKey /\ r.created)
                          /\ r.created => ~r.deleted
      <3>1. \A r \in log : r.id \in 1..seq'
        BY <1>1 DEF IInv, LogInv
      <3>2. row.id \in 1..seq'
        BY <1>1
      <3> QED BY <1>1, <3>1, <3>2 DEF IInv, LogInv
    <2>2. \A r, q \in log' : r.id = q.id => r = q
      BY <1>1, <1>2 DEF IInv, LogInv
    <2>3. \A r \in log' : ~r.created =>
             \E p \in log' : p.id = r.prev /\ p.name = r.name /\ ~p.deleted
      BY <1>1, <1>8 DEF IInv, LogInv
    <2>4. ASSUME NEW i \in Named(log', Keys), NEW m \in Named(log', Keys),
                 i.name = m.name, i.id < m.id, ~i.deleted
          PROVE  \E j \in log' : ~j.created /\ j.prev = i.id /\ j.id <= m.id
      <3>1. i \in log /\ i.name \in Keys
        BY <1>1, <1>2, <2>4 DEF Named
      <3>2. CASE m = row
        BY <1>10, <2>4, <3>1, <3>2
      <3>3. CASE m \in log
        <4>1. i \in Named(log, Keys) /\ m \in Named(log, Keys)
          BY <2>4, <3>1, <3>3 DEF Named
        <4> QED BY <1>1, <2>4, <4>1 DEF IInv, LogInv
      <3> QED BY <1>1, <2>4, <3>2, <3>3 DEF Named
    <2> QED BY <2>1, <2>2, <2>3, <2>4 DEF LogInv
  <1>12. KineInv'
    <2>1. \A r \in kine' : r.id \in 1..seq'
      BY <1>1 DEF IInv, KineInv
    <2>2. \A r, q \in kine' : r.id = q.id => r = q
      BY <1>1, <1>2 DEF IInv, KineInv
    <2>3. \A r \in kine' : r.name \notin Keys =>
             \/ r.name = CompactRevKey /\ r.created /\ ~r.deleted
             \/ r = FillRow(r.id)
      BY <1>1 DEF IInv, KineInv
    <2>4. \A r \in kine' : r.name = CompactRevKey =>
             \E q \in log' : q.id = r.id /\ q.name = CompactRevKey
      BY <1>1, NamesAssumption DEF IInv, KineInv
    <2>5. SingleCompactRow'
      BY <1>4 DEF IInv, KineInv, SingleCompactRow
    <2>6. \E r \in kine' : r.id = seq'
      BY <1>1
    <2>7. compactRev' \in Nat /\ (compactRev' = 0 \/ compactRev' < seq')
      BY <1>1, <1>5
    <2>8. \A q \in log' : q.name = CompactRevKey =>
             \E r \in kine' : r.id = q.id /\ r.name = CompactRevKey
      BY <1>1, NamesAssumption DEF IInv, KineInv
    <2> QED BY <2>1, <2>2, <2>3, <2>4, <2>5, <2>6, <2>7, <2>8 DEF KineInv
  <1>13. CompactorInv'
    <2> SUFFICES ASSUME NEW n \in Nodes PROVE CompactionOK(compactor[n])'
      BY DEF CompactorInv
    <2>1. compactor[n] \in CompactionState /\ CompactionOK(compactor[n])
      BY DEF IInv, TypeOK, CompactorInv
    <2>2. compactRev <= compactRev' /\ compactRev' \in Nat
      BY <1>5
    <2>3. compactor'[n] = compactor[n] /\ seq' \in Nat /\ seq <= seq'
      BY <1>1
    <2> QED BY <1>1, <1>4, <1>5, <2>1, <2>2, <2>3, CompactionStays
  <1>14. \A r \in log' : Superseded(r, compactRev)' <=> Superseded(r, compactRev)
    <2>1. ~(row.id <= compactRev)
      BY <1>1, <1>5
    <2> QED BY <1>1, <1>5, <2>1 DEF Superseded
  <1>15. TableIsCompactedLog'
    <2>1. ~Superseded(row, compactRev)
      <3> SUFFICES ASSUME NEW q \in log, q.prev = row.id PROVE FALSE
        BY DEF Superseded
      <3>1. q.prev < q.id /\ q.id <= seq /\ q.id \in Nat
        BY <1>2 DEF IInv, LogInv
      <3> QED BY <1>1, <3>1
    <2>2. ~(row.id <= compactRev)
      BY <1>1, <1>5
    <2>3. Named(kine', Keys) = Named(kine, Keys) \cup {row}
      BY <1>1 DEF Named
    <2>4. {r \in log' : /\ r.name \in Keys
                        /\ ~Superseded(r, compactRev)'
                        /\ ~(r.deleted /\ r.id <= compactRev')} =
          {r \in log : /\ r.name \in Keys
                       /\ ~Superseded(r, compactRev)
                       /\ ~(r.deleted /\ r.id <= compactRev)} \cup {row}
      BY <1>1, <1>5, <1>14, <2>1, <2>2
    <2> QED BY <2>3, <2>4 DEF IInv, TableIsCompactedLog
  <1>16. EventChain'
    <2>1. {q \in log' : q.id < row.id} = log
      BY <1>1, <1>2
    <2>2. \A r \in log : {q \in log' : q.id < r.id} = {q \in log : q.id < r.id}
      BY <1>1, <1>2
    <2>3. \A r \in log : Predecessor(r)' = Predecessor(r)
      BY <2>2 DEF Predecessor
    <2>4. Predecessor(row)' = Latest(log, {k})
      BY <2>1 DEF Predecessor
    <2> SUFFICES ASSUME NEW r \in Named(log', Keys)
                 PROVE  IF r.created
                        THEN \A p \in Predecessor(r)' : p.deleted
                        ELSE \E p \in Predecessor(r)' :
                                 /\ ~p.deleted
                                 /\ r.prev = p.id
                                 /\ r.oldValue = p.value
                                 /\ r.createRev = CreateRevOf(p)
      BY DEF EventChain
    <2>5. CASE r = row
      BY <1>8, <1>9, <2>4, <2>5
    <2>6. CASE r \in log
      <3>1. r \in Named(log, Keys)
        BY <2>6 DEF Named
      <3> QED BY <2>3, <2>6, <3>1 DEF IInv, EventChain
    <2> QED BY <1>1, <2>5, <2>6 DEF Named
  <1> QED BY <1>5, <1>6, <1>11, <1>12, <1>13, <1>15, <1>16 DEF IInv

\* Create inserts after a deletion or on a key without rows.
LEMMA CreateStep ==
    ASSUME IInv, NEW k \in Keys, NEW v \in Values, NEW lease \in Leases,
           Create(k, v, lease)
    PROVE  IInv' /\ compactRev <= compactRev'
  <1>1. PICK row \in CreateSQL(kine, NextId, k, v, lease) : Insert(row)
    BY DEF Create
  <1>2. seq \in Nat /\ NextId = seq + 1 /\ lease \in Nat
    BY DataAssumption DEF IInv, TypeOK, NextId
  <1>3. \A q \in kine : q.id \in Nat /\ q.id <= seq
    BY DEF IInv, KineInv, TypeOK, Row
  <1>4. PICK p : /\ \/ Named(kine, {k}) = {} /\ p = 0
                    \/ \E r \in Latest(kine, {k}) : r.deleted /\ p = r.id
                 /\ row = [id |-> NextId, name |-> k, created |-> TRUE,
                           deleted |-> FALSE, createRev |-> 0, prev |-> p,
                           lease |-> lease, value |-> v, oldValue |-> NoValue]
    BY <1>1 DEF CreateSQL
  <1>5. p \in Nat /\ p <= seq
    BY <1>2, <1>3, <1>4 DEF Latest, Named
  <1>6. row \in Row /\ row.prev < row.id
    BY <1>2, <1>4, <1>5 DEF Row
  <1>7. \A q \in Latest(kine, {k}) : q.deleted
    <2> SUFFICES ASSUME NEW q \in Latest(kine, {k}) PROVE q.deleted
      OBVIOUS
    <2>1. q \in Named(kine, {k})
      BY DEF Latest
    <2>2. PICK r \in Latest(kine, {k}) : r.deleted
      BY <1>4, <2>1
    <2>3. q.id <= r.id /\ r.id <= q.id /\ q \in kine /\ r \in kine
      BY DEF Latest, Named
    <2>4. q = r
      BY <1>3, <2>3 DEF IInv, KineInv
    <2> QED BY <2>2, <2>4
  <1>8. /\ row.name = k /\ row.id = seq + 1
        /\ row.created /\ ~row.deleted
    BY <1>2, <1>4
  <1>9. UNCHANGED compactor
    BY DEF Create
  <1> QED BY <1>1, <1>6, <1>7, <1>8, <1>9, InsertKeyRow

\* Update and Delete insert after the live newest row of the table.
LEMMA UpdateStep ==
    ASSUME IInv, NEW k \in Keys, NEW v \in Values, NEW lease \in Leases, NEW rev,
           Update(k, v, rev, lease)
    PROVE  IInv' /\ compactRev <= compactRev'
  <1>1. PICK row \in UpdateSQL(kine, NextId, k, v, rev, lease) : Insert(row)
    BY DEF Update
  <1>2. seq \in Nat /\ NextId = seq + 1 /\ lease \in Nat
    BY DataAssumption DEF IInv, TypeOK, NextId
  <1>3. PICK p \in Latest(kine, {k}) :
           /\ ~p.deleted
           /\ row = [id |-> NextId, name |-> k, created |-> FALSE,
                     deleted |-> FALSE, createRev |-> CreateRevOf(p),
                     prev |-> p.id, lease |-> lease, value |-> v,
                     oldValue |-> p.value]
    BY <1>1 DEF UpdateSQL, Current
  <1>4. p \in kine
    BY DEF Latest, Named
  <1>5. p \in Row /\ p.id <= seq
    BY <1>4 DEF IInv, TypeOK, KineInv
  <1>6. CreateRevOf(p) \in Nat /\ p.id \in Nat /\ p.value \in Values \cup {NoValue}
    BY <1>5 DEF Row, CreateRevOf
  <1>7. row \in Row /\ row.prev < row.id
    BY <1>2, <1>3, <1>5, <1>6 DEF Row
  <1>8. /\ row.name = k /\ row.id = seq + 1 /\ ~row.created
        /\ row.prev = p.id /\ row.oldValue = p.value
        /\ row.createRev = CreateRevOf(p)
    BY <1>2, <1>3
  <1>9. UNCHANGED compactor
    BY DEF Update
  <1> QED BY <1>1, <1>3, <1>7, <1>8, <1>9, InsertKeyRow

LEMMA DeleteRowStep ==
    ASSUME IInv, NEW k \in Keys, NEW rev, NEW row \in DeleteSQL(kine, NextId, k, rev),
           Insert(row), UNCHANGED compactor
    PROVE  IInv' /\ compactRev <= compactRev'
  <1>1. seq \in Nat /\ NextId = seq + 1
    BY DEF IInv, TypeOK, NextId
  <1>2. PICK p \in Latest(kine, {k}) :
           /\ ~p.deleted
           /\ row = [id |-> NextId, name |-> k, created |-> FALSE,
                     deleted |-> TRUE, createRev |-> CreateRevOf(p),
                     prev |-> p.id, lease |-> p.lease, value |-> NoValue,
                     oldValue |-> p.value]
    BY DEF DeleteSQL, Current
  <1>3. p \in kine
    BY DEF Latest, Named
  <1>4. p \in Row /\ p.id <= seq
    BY <1>3 DEF IInv, TypeOK, KineInv
  <1>5. /\ CreateRevOf(p) \in Nat /\ p.id \in Nat /\ p.lease \in Nat
        /\ p.value \in Values \cup {NoValue}
    BY <1>4 DEF Row, CreateRevOf
  <1>6. row \in Row /\ row.prev < row.id
    BY <1>1, <1>2, <1>4, <1>5 DEF Row
  <1>7. /\ row.name = k /\ row.id = seq + 1 /\ ~row.created
        /\ row.prev = p.id /\ row.oldValue = p.value
        /\ row.createRev = CreateRevOf(p)
    BY <1>1, <1>2
  <1> QED BY <1>2, <1>6, <1>7, InsertKeyRow

LEMMA DeleteStep ==
    ASSUME IInv, NEW k \in Keys, NEW rev, Delete(k, rev)
    PROVE  IInv' /\ compactRev <= compactRev'
  BY DeleteRowStep DEF Delete

\* A fill row takes an unused revision.
LEMMA FillRowStep ==
    ASSUME IInv, NEW rev \in 1..seq, Accepts(kine, FillRow(rev)),
           kine' = kine \cup {FillRow(rev)}, UNCHANGED <<seq, log, compactor>>
    PROVE  IInv' /\ compactRev <= compactRev'
  <1> DEFINE row == FillRow(rev)
  <1>1. /\ kine' = kine \cup {row}
        /\ seq' = seq /\ log' = log /\ compactor' = compactor
        /\ \A q \in kine : q.id # rev
    BY DEF Accepts, FillRow
  <1>2. /\ row \in Row /\ row.id = rev /\ row.name \in {"gap"} \X Nat
        /\ seq \in Nat
    BY DEF FillRow, Row, GapName, IInv, TypeOK
  <1>3. row.name \notin Keys /\ row.name # CompactRevKey
    BY <1>2, NamesAssumption
  <1>4. /\ Named(kine', {CompactRevKey}) = Named(kine, {CompactRevKey})
        /\ Named(kine', Keys) = Named(kine, Keys)
    BY <1>1, <1>3 DEF Named
  <1>5. compactRev' = compactRev
    BY <1>4, CompactRevSame DEF compactRev
  <1> HIDE DEF row
  <1>6. TypeOK'
    BY <1>1, <1>2 DEF IInv, TypeOK
  <1>7. LogInv'
    BY <1>1 DEF IInv, LogInv
  <1>8. KineInv'
    <2>1. \A r \in kine' : r.id \in 1..seq'
      BY <1>1, <1>2 DEF IInv, KineInv
    <2>2. \A r, q \in kine' : r.id = q.id => r = q
      BY <1>1, <1>2 DEF IInv, KineInv
    <2>3. \A r \in kine' : r.name \notin Keys =>
             \/ r.name = CompactRevKey /\ r.created /\ ~r.deleted
             \/ r = FillRow(r.id)
      BY <1>1, <1>2 DEF IInv, KineInv, row
    <2>4. \A r \in kine' : r.name = CompactRevKey =>
             \E q \in log' : q.id = r.id /\ q.name = CompactRevKey
      BY <1>1, <1>3 DEF IInv, KineInv
    <2>5. SingleCompactRow'
      BY <1>4 DEF IInv, KineInv, SingleCompactRow
    <2>6. seq' > 0 => \E r \in kine' : r.id = seq'
      BY <1>1 DEF IInv, KineInv
    <2>7. compactRev' \in Nat /\ (compactRev' = 0 \/ compactRev' < seq')
      BY <1>1, <1>5 DEF IInv, KineInv
    <2>8. \A q \in log' : q.name = CompactRevKey =>
             \E r \in kine' : r.id = q.id /\ r.name = CompactRevKey
      BY <1>1 DEF IInv, KineInv
    <2> QED BY <2>1, <2>2, <2>3, <2>4, <2>5, <2>6, <2>7, <2>8 DEF KineInv
  <1>9. CompactorInv'
    BY <1>1, <1>4, <1>5 DEF IInv, CompactorInv, CompactionOK
  <1>10. TableIsCompactedLog'
    BY <1>1, <1>4, <1>5 DEF IInv, TableIsCompactedLog, Superseded
  <1>11. EventChain'
    BY <1>1 DEF IInv, EventChain, Predecessor
  <1>12. compactRev <= compactRev'
    BY <1>5 DEF IInv, KineInv
  <1> QED BY <1>6, <1>7, <1>8, <1>9, <1>10, <1>11, <1>12 DEF IInv

\* A poller fills below the newest revision.
LEMMA FillStep ==
    ASSUME IInv, NEW rev \in 1..seq, Fill(rev)
    PROVE  IInv' /\ compactRev <= compactRev'
  BY FillRowStep DEF Fill

\* The compact_rev_key row is inserted at most once and does not move the
\* compact revision.  A node may go on to read the interval afterwards.
LEMMA CompactRowStep ==
    ASSUME IInv,
           NEW rows, rows = CreateSQL(kine, NextId, CompactRevKey, NoValue, 0),
           \/ \E row \in rows : Insert(row)
           \/ rows = {} /\ UNCHANGED <<kine, seq, log>>,
           compactor' \in [Nodes -> CompactionState],
           \A m \in Nodes : \/ compactor'[m] = compactor[m]
                            \/ compactor'[m].pc = "interval"
    PROVE  IInv' /\ compactRev <= compactRev'
  <1>1. CASE rows = {} /\ UNCHANGED <<kine, seq, log>>
    <2>1. Named(kine, {CompactRevKey}) # {}
      BY <1>1 DEF CreateSQL
    <2>2. compactRev' = compactRev
      BY <1>1 DEF compactRev
    <2>3. CompactorInv'
      <3> SUFFICES ASSUME NEW m \in Nodes PROVE CompactionOK(compactor[m])'
        BY DEF CompactorInv
      <3>1. CASE compactor'[m].pc = "interval"
        BY <1>1, <2>1, <3>1 DEF CompactionOK
      <3>2. CASE compactor'[m] = compactor[m]
        BY <1>1, <2>2, <3>2 DEF IInv, CompactorInv, CompactionOK
      <3> QED BY <3>1, <3>2
    <2>4. TypeOK'
      BY <1>1 DEF IInv, TypeOK
    <2>5. LogInv'
      BY <1>1 DEF IInv, LogInv
    <2>6. KineInv'
      BY <1>1, <2>2 DEF IInv, KineInv, SingleCompactRow
    <2>7. TableIsCompactedLog' /\ EventChain'
      BY <1>1, <2>2 DEF IInv, TableIsCompactedLog, Superseded, EventChain, Predecessor
    <2>8. compactRev <= compactRev'
      BY <2>2 DEF IInv, KineInv
    <2> QED BY <2>3, <2>4, <2>5, <2>6, <2>7, <2>8 DEF IInv
  <1>2. CASE \E row \in rows : Insert(row)
    <2>1. PICK row \in rows : Insert(row)
      BY <1>2
    <2>2. seq \in Nat /\ NextId = seq + 1
      BY DEF IInv, TypeOK, NextId
    <2>3. \A r \in kine : r.name = CompactRevKey => ~r.deleted
      <3>1. \A r \in Nat : FillRow(r).name # CompactRevKey
        BY NamesAssumption DEF FillRow, GapName
      <3>2. \A r \in kine : r.id \in Nat
        BY DEF IInv, KineInv
      <3> QED BY <3>1, <3>2, NamesAssumption DEF IInv, KineInv
    <2>4. Named(kine, {CompactRevKey}) = {}
      <3>1. {q \in Latest(kine, {CompactRevKey}) : q.deleted} = {}
        BY <2>3 DEF Latest, Named
      <3> QED BY <2>1, <3>1 DEF CreateSQL
    <2>5. row = [id |-> seq + 1, name |-> CompactRevKey, created |-> TRUE,
                 deleted |-> FALSE, createRev |-> 0, prev |-> 0, lease |-> 0,
                 value |-> NoValue, oldValue |-> NoValue]
      BY <2>1, <2>2, <2>4 DEF CreateSQL
    <2>6. /\ row \in Row /\ row.id = seq + 1 /\ row.name = CompactRevKey
          /\ row.created /\ ~row.deleted /\ row.prev = 0
      BY <2>2, <2>5 DEF Row
    <2>7. /\ kine' = kine \cup {row} /\ log' = log \cup {row}
          /\ seq' = seq + 1
      BY <2>1 DEF Insert
    <2>8. /\ \A q \in log : q.id \in Nat /\ q.id <= seq
          /\ \A q \in kine : q.id \in Nat /\ q.id <= seq
      BY DEF IInv, LogInv, KineInv, TypeOK, Row
    <2>9. compactRev = 0
      BY <2>4, CompactRevNone DEF compactRev
    <2>10. \A q \in kine' : q.name = CompactRevKey => q = row
      BY <2>4, <2>7 DEF Named
    <2>11. CompactRev(kine') = row.prev
      <3>1. row \in kine' /\ row.prev \in Nat /\ row.name = CompactRevKey
        BY <2>6, <2>7
      <3> QED BY <2>10, <3>1, CompactRevIs
    <2>12. compactRev' = 0
      BY <2>6, <2>11 DEF compactRev
    <2>13. /\ Named(kine', Keys) = Named(kine, Keys)
           /\ Named(log', Keys) = Named(log, Keys)
      BY <2>6, <2>7, NamesAssumption DEF Named
    <2>14. TypeOK'
      BY <2>2, <2>6, <2>7 DEF IInv, TypeOK
    <2>15. LogInv'
      <3>1. \A r \in log' : /\ r.id \in 1..seq'
                            /\ r.prev < r.id
                            /\ r.name \in Keys \/ (r.name = CompactRevKey /\ r.created)
                            /\ r.created => ~r.deleted
        <4>1. \A r \in log : r.id \in 1..seq'
          BY <2>2, <2>7 DEF IInv, LogInv
        <4>2. row.id \in 1..seq' /\ row.prev < row.id
          BY <2>2, <2>6, <2>7
        <4> QED BY <2>6, <2>7, <4>1, <4>2 DEF IInv, LogInv
      <3>2. \A r, q \in log' : r.id = q.id => r = q
        BY <2>2, <2>6, <2>7, <2>8 DEF IInv, LogInv
      <3>3. \A r \in log' : ~r.created =>
               \E p \in log' : p.id = r.prev /\ p.name = r.name /\ ~p.deleted
        BY <2>6, <2>7 DEF IInv, LogInv
      <3>4. \A i, m \in Named(log', Keys) :
               i.name = m.name /\ i.id < m.id /\ ~i.deleted =>
                   \E j \in log' : ~j.created /\ j.prev = i.id /\ j.id <= m.id
        BY <2>7, <2>13 DEF IInv, LogInv
      <3> QED BY <3>1, <3>2, <3>3, <3>4 DEF LogInv
    <2>16. KineInv'
      <3>1. \A r \in kine' : r.id \in 1..seq'
        BY <2>2, <2>6, <2>7 DEF IInv, KineInv
      <3>2. \A r, q \in kine' : r.id = q.id => r = q
        BY <2>2, <2>6, <2>7, <2>8 DEF IInv, KineInv
      <3>3. \A r \in kine' : r.name \notin Keys =>
               \/ r.name = CompactRevKey /\ r.created /\ ~r.deleted
               \/ r = FillRow(r.id)
        BY <2>6, <2>7 DEF IInv, KineInv
      <3>4. \A r \in kine' : r.name = CompactRevKey =>
               \E q \in log' : q.id = r.id /\ q.name = CompactRevKey
        BY <2>6, <2>7, <2>10
      <3>5. SingleCompactRow'
        BY <2>10 DEF SingleCompactRow, Named
      <3>6. \E r \in kine' : r.id = seq'
        BY <2>6, <2>7
      <3>7. compactRev' \in Nat /\ (compactRev' = 0 \/ compactRev' < seq')
        BY <2>12
      <3>8. \A q \in log' : q.name = CompactRevKey =>
               \E r \in kine' : r.id = q.id /\ r.name = CompactRevKey
        BY <2>6, <2>7 DEF IInv, KineInv
      <3> QED BY <3>1, <3>2, <3>3, <3>4, <3>5, <3>6, <3>7, <3>8 DEF KineInv
    <2>17. CompactorInv'
      <3> SUFFICES ASSUME NEW m \in Nodes PROVE CompactionOK(compactor[m])'
        BY DEF CompactorInv
      <3>1. Named(kine', {CompactRevKey}) # {}
        BY <2>6, <2>7 DEF Named
      <3>2. CASE compactor'[m].pc = "interval"
        BY <3>1, <3>2 DEF CompactionOK
      <3>3. CASE compactor'[m] = compactor[m]
        <4>1. compactor[m] \in CompactionState /\ CompactionOK(compactor[m])
          BY DEF IInv, TypeOK, CompactorInv
        <4>2. seq' \in Nat /\ seq <= seq' /\ compactor'[m] = compactor[m]
          BY <2>2, <2>7, <3>3
        <4>3. compactRev \in Nat /\ compactRev' \in Nat /\ compactRev <= compactRev'
          BY <2>9, <2>12
        <4> QED BY <2>2, <3>1, <4>1, <4>2, <4>3, CompactionStays
      <3> QED BY <3>2, <3>3
    <2>18. TableIsCompactedLog'
      <3>1. \A r \in log' : Superseded(r, compactRev)' <=> Superseded(r, compactRev)
        BY <2>6, <2>7, <2>9, <2>12 DEF Superseded
      <3>2. {r \in log' : /\ r.name \in Keys
                          /\ ~Superseded(r, compactRev)'
                          /\ ~(r.deleted /\ r.id <= compactRev')} =
            {r \in log : /\ r.name \in Keys
                         /\ ~Superseded(r, compactRev)
                         /\ ~(r.deleted /\ r.id <= compactRev)}
        <4>1. row.name \notin Keys
          BY <2>6, NamesAssumption
        <4>2. compactRev' = compactRev
          BY <2>9, <2>12
        <4> QED BY <2>7, <3>1, <4>1, <4>2
      <3> QED BY <2>13, <3>2 DEF IInv, TableIsCompactedLog
    <2>19. EventChain'
      <3>1. \A r \in log : {q \in log' : q.id < r.id} = {q \in log : q.id < r.id}
        BY <2>2, <2>6, <2>7, <2>8
      <3>2. \A r \in log : Predecessor(r)' = Predecessor(r)
        BY <3>1 DEF Predecessor
      <3>3. \A r \in Named(log', Keys) : r \in log /\ r \in Named(log, Keys)
        BY <2>13 DEF Named
      <3> QED BY <3>2, <3>3 DEF IInv, EventChain
    <2> QED BY <2>9, <2>12, <2>14, <2>15, <2>16, <2>17, <2>18, <2>19 DEF IInv
  <1> QED BY <1>1, <1>2

\* compactStart creates the row.
LEMMA CreateCompactKeyStep ==
    ASSUME IInv, NEW n \in Nodes, CreateCompactKey(n)
    PROVE  IInv' /\ compactRev <= compactRev'
  <1>1. compactor' = [compactor EXCEPT ![n].pc = "interval"]
    BY DEF CreateCompactKey
  <1>2. compactor' \in [Nodes -> CompactionState]
    BY <1>1 DEF IInv, TypeOK, CompactionState
  <1>3. /\ \A m \in Nodes \ {n} : compactor'[m] = compactor[m]
        /\ compactor'[n].pc = "interval"
    BY <1>1 DEF IInv, TypeOK, CompactionState
  <1> QED BY <1>2, <1>3, CompactRowStep DEF CreateCompactKey

\* A step that only moves one node's compaction keeps the invariant if the
\* record it moves to is sound.
LEMMA CompactorStep ==
    ASSUME IInv, NEW n \in Nodes, NEW c \in CompactionState, CompactionOK(c),
           compactor' = [compactor EXCEPT ![n] = c],
           UNCHANGED <<kine, seq, log>>
    PROVE  IInv' /\ compactRev <= compactRev'
  <1>1. compactRev' = compactRev
    BY DEF compactRev
  <1>2. TypeOK'
    BY DEF IInv, TypeOK
  <1>3. CompactorInv'
    <2> SUFFICES ASSUME NEW m \in Nodes PROVE CompactionOK(compactor[m])'
      BY DEF CompactorInv
    <2>1. compactor'[m] = IF m = n THEN c ELSE compactor[m]
      BY DEF IInv, TypeOK
    <2>2. CompactionOK(compactor'[m])
      BY <2>1 DEF IInv, CompactorInv
    <2> QED BY <1>1, <2>2 DEF CompactionOK
  <1>4. LogInv'
    BY DEF IInv, LogInv
  <1>5. KineInv'
    BY <1>1 DEF IInv, KineInv, SingleCompactRow
  <1>6. TableIsCompactedLog' /\ EventChain'
    BY <1>1 DEF IInv, TableIsCompactedLog, Superseded, EventChain, Predecessor
  <1>7. compactRev <= compactRev'
    BY <1>1 DEF IInv, KineInv
  <1> QED BY <1>2, <1>3, <1>4, <1>5, <1>6, <1>7 DEF IInv

\* Reading the table: what the next record of a compaction relies on.
LEMMA ReadSteps ==
    ASSUME IInv, NEW n \in Nodes,
           \/ CompactStart(n) \/ ReadInterval(n) \/ StartBatch(n)
           \/ EndCompact(n) \/ AbortCompact(n)
    PROVE  IInv' /\ compactRev <= compactRev'
  <1> DEFINE c == compactor[n]
  <1>1. /\ c \in CompactionState /\ CompactionOK(c) /\ seq \in Nat
        /\ compactRev \in Nat
    BY DEF IInv, TypeOK, CompactorInv, KineInv
  <1>2. /\ c.start \in Nat /\ c.target \in Int /\ c.batch \in Nat /\ c.low \in Nat
        /\ c = [pc |-> c.pc, start |-> c.start, target |-> c.target,
                batch |-> c.batch, low |-> c.low]
    BY <1>1 DEF CompactionState
  <1>3. Idle \in CompactionState /\ CompactionOK(Idle)
    BY DEF Idle, CompactionState, CompactionOK
  <1>4. MaxId(kine) = seq
    BY MaxIdIsSeq
  <1>5. CASE CompactStart(n)
    <2>0. PICK pc \in {"create", "interval"} :
             /\ pc = "interval" => After(kine, {CompactRevKey}, 0) # {}
             /\ compactor' = [compactor EXCEPT ![n].pc = pc]
      BY <1>5 DEF CompactStart
    <2> DEFINE d == [c EXCEPT !.pc = pc]
    <2>1. /\ compactor' = [compactor EXCEPT ![n] = d]
          /\ UNCHANGED <<kine, seq, log>>
      BY <1>5, <2>0 DEF CompactStart
    <2>2. d \in CompactionState
      BY <1>1 DEF CompactionState
    <2>3. After(kine, {CompactRevKey}, 0) # {} => Named(kine, {CompactRevKey}) # {}
      BY DEF After
    <2>4. d.pc \in {"create", "interval"} /\ (d.pc = "interval" =>
              Named(kine, {CompactRevKey}) # {})
      BY <1>2, <2>0, <2>3
    <2> HIDE DEF d
    <2>5. CompactionOK(d)
      BY <2>4 DEF CompactionOK
    <2> QED BY <2>1, <2>2, <2>5, CompactorStep
  <1>6. CASE ReadInterval(n)
    <2> DEFINE d == [pc |-> "batch", start |-> compactRev,
                     target |-> seq - SupersededCount, batch |-> 0, low |-> 0]
    <2>1. /\ compactor' = [compactor EXCEPT ![n] = d]
          /\ UNCHANGED <<kine, seq, log>>
      BY <1>4, <1>6 DEF ReadInterval, compactRev
    <2>2. SupersededCount \in Nat \ {0}
      BY CompactionAssumption
    <2>3. /\ d.pc = "batch" /\ d.target = seq - SupersededCount
          /\ d.target \in Int /\ d.target < seq
      BY <1>1, <2>2
    <2>4. d \in CompactionState
      BY <1>1, <2>2 DEF CompactionState
    <2>5. Named(kine, {CompactRevKey}) # {}
      BY <1>1, <1>6 DEF ReadInterval, At, CompactionOK
    <2> HIDE DEF d
    <2>6. CompactionOK(d)
      BY <2>3, <2>5 DEF CompactionOK
    <2> QED BY <2>1, <2>4, <2>6, CompactorStep
  <1>7. CASE StartBatch(n)
    <2> DEFINE batch == BatchRevision(c)
    <2>1. c.pc = "batch" /\ c.start < c.target /\ UNCHANGED <<kine, seq, log>>
      BY <1>7 DEF StartBatch, At
    <2>2. Named(kine, {CompactRevKey}) # {} /\ c.target < seq
      BY <1>1, <2>1 DEF CompactionOK
    <2>3. batch \in Nat /\ batch <= c.target /\ batch < seq
      <3>1. CompactBatchSize \in Nat \ {0} /\ c.start + CompactBatchSize \in Nat
        BY <1>2, CompactionAssumption
      <3>2. batch = c.target \/ (batch = c.start + CompactBatchSize /\ batch <= c.target)
        BY <1>2, <3>1 DEF BatchRevision
      <3>3. c.target \in Nat
        BY <1>2, <2>1
      <3> QED BY <1>1, <2>2, <3>1, <3>2, <3>3
    <2>4. CASE compactRev >= batch
      <3> DEFINE d == [c EXCEPT !.start = batch]
      <3>1. compactor' = [compactor EXCEPT ![n] = d]
        BY <1>7, <2>4 DEF StartBatch, compactRev
      <3>2. d \in CompactionState
        BY <1>1, <2>3 DEF CompactionState
      <3>3. d.pc = "batch" /\ d.target = c.target
        BY <1>2, <2>1
      <3>4. CompactionOK(d)
        BY <2>2, <3>3 DEF CompactionOK
      <3> QED BY <2>1, <3>1, <3>2, <3>4, CompactorStep
    <2>5. CASE ~(compactRev >= batch)
      <3> DEFINE d == [c EXCEPT !.pc = "tx", !.low = compactRev, !.batch = batch]
      <3>1. compactor' = [compactor EXCEPT ![n] = d]
        <4>1. ~(CompactRev(kine) >= batch) /\ ~(batch > MaxId(kine))
          BY <1>1, <1>4, <2>3, <2>5 DEF compactRev
        <4> HIDE DEF batch
        <4>2. (IF batch > MaxId(kine) THEN MaxId(kine) ELSE batch) = batch
          BY <4>1
        <4> QED BY <1>7, <4>1, <4>2 DEF StartBatch, compactRev, batch
      <3>2. d \in CompactionState
        BY <1>1, <2>3 DEF CompactionState
      <3>3. /\ d.pc = "tx" /\ d.target = c.target /\ d.start = c.start
            /\ d.low = compactRev /\ d.batch = batch
        BY <1>2, <2>1
      <3>4. CompactionOK(d)
        BY <1>1, <2>1, <2>2, <2>3, <3>3 DEF CompactionOK
      <3> QED BY <2>1, <3>1, <3>2, <3>4, CompactorStep
    <2> QED BY <2>4, <2>5
  <1>8. CASE EndCompact(n)
    BY <1>3, <1>8, CompactorStep DEF EndCompact
  <1>9. CASE AbortCompact(n)
    BY <1>3, <1>9, CompactorStep DEF AbortCompact
  <1> QED BY <1>5, <1>6, <1>7, <1>8, <1>9

\* The compaction transaction.  The interval starts at or below the compact
\* revision, so together with the earlier compactions it removes every row
\* that is superseded or a tombstone at the new compact revision; it ends
\* below the newest revision, so that row stays.
LEMMA CommitStep ==
    ASSUME IInv, NEW n \in Nodes, CommitBatch(n)
    PROVE  IInv' /\ compactRev <= compactRev'
  <1> DEFINE c == compactor[n]
             s == c.low
             e == c.batch
             ids == SupersededIds(kine, s, e)
             T == DeleteTombstones(DeleteSuperseded(kine, s, e), s, e)
  <1>1. /\ c \in CompactionState /\ CompactionOK(c) /\ seq \in Nat
        /\ compactRev \in Nat /\ c.pc = "tx"
    BY DEF IInv, TypeOK, CompactorInv, KineInv, CommitBatch, At
  <1>2. /\ s \in Nat /\ e \in Nat /\ s <= compactRev /\ e < seq
        /\ c.start \in Nat /\ c.target \in Int /\ c.start < c.target /\ c.target < seq
    BY <1>1 DEF CompactionState, CompactionOK
  <1>3. PICK R \in kine : R.name = CompactRevKey
    BY <1>1 DEF CompactionOK, Named
  <1>4. \A q \in kine : q.name = CompactRevKey => q = R
    BY <1>3 DEF IInv, KineInv, SingleCompactRow, Named
  <1>5. /\ R \in Row /\ R.prev \in Nat /\ R.id \in Nat /\ R.created /\ ~R.deleted
    <2>1. R \in Row
      BY <1>3 DEF IInv, TypeOK
    <2>2. R.id \in Nat /\ R.prev \in Nat
      BY <2>1 DEF Row
    <2>3. R # FillRow(R.id)
      BY <1>3, <2>2, NamesAssumption DEF FillRow, GapName
    <2> QED BY <1>3, <2>1, <2>2, <2>3, NamesAssumption DEF IInv, KineInv
  <1>6. compactRev = R.prev
    BY <1>3, <1>4, <1>5, CompactRevIs DEF compactRev
  <1> DEFINE new == IF R.prev < e THEN [R EXCEPT !.prev = e] ELSE R
  <1>7. /\ new \in Row /\ new.id = R.id /\ new.name = CompactRevKey
        /\ new.created /\ ~new.deleted
        /\ new.prev \in Nat /\ R.prev <= new.prev /\ e <= new.prev
        /\ new.prev \in {R.prev, e}
    <2>1. CASE R.prev < e
      <3>1. new = [R EXCEPT !.prev = e]
        BY <2>1
      <3> QED BY <1>2, <1>3, <1>5, <2>1, <3>1 DEF Row
    <2>2. CASE ~(R.prev < e)
      BY <1>2, <1>3, <1>5, <2>2
    <2> QED BY <2>1, <2>2
  <1>8. /\ kine' = UpdateCompactSQL(T, e) /\ seq' = seq /\ log' = log
    BY DEF CommitBatch, TryCompact
  <1>9. T = {r \in kine : r.id \notin ids /\ ~(r.deleted /\ s < r.id /\ r.id <= e)}
    BY DEF DeleteTombstones, DeleteSuperseded
  <1>10. \A x \in ids : \E q \in log : /\ q \in kine /\ q.name \in Keys
                                       /\ ~q.created /\ q.prev = x
                                       /\ s < q.id /\ q.id <= e
    <2> SUFFICES ASSUME NEW q \in kine, q.name # CompactRevKey, ~q.created,
                        q.prev # 0
                 PROVE  q \in log /\ q.name \in Keys
      BY DEF SupersededIds
    <2>1. q # FillRow(q.id)
      BY DEF FillRow
    <2>2. q.name \in Keys
      BY <2>1 DEF IInv, KineInv
    <2> QED BY <2>2, KeptRows DEF IInv
  <1>11. R.id \notin ids
    <2> SUFFICES ASSUME R.id \in ids PROVE FALSE
      OBVIOUS
    <2>1. PICK q \in log : q.name \in Keys /\ ~q.created /\ q.prev = R.id
      BY <1>10
    <2>2. PICK p \in log : p.id = R.id /\ p.name = q.name
      BY <2>1 DEF IInv, LogInv
    <2>3. PICK l \in log : l.id = R.id /\ l.name = CompactRevKey
      BY <1>3 DEF IInv, KineInv
    <2>4. p = l
      BY <2>2, <2>3 DEF IInv, LogInv
    <2> QED BY <2>1, <2>2, <2>3, <2>4, NamesAssumption
  <1>12. R \in T
    BY <1>3, <1>5, <1>9, <1>11
  <1> HIDE DEF new, T, ids
  <1>13. \A r : r \in kine' <=> (r \in T /\ r.name # CompactRevKey) \/ r = new
    <2>1. \A r \in T : r.name = CompactRevKey => r = R
      BY <1>4, <1>9
    <2>2. \A r \in T : (IF r.name = CompactRevKey /\ r.prev < e
                       THEN [r EXCEPT !.prev = e] ELSE r)
                      = (IF r.name = CompactRevKey THEN new ELSE r)
      BY <2>1 DEF new
    <2>3. kine' = {IF r.name = CompactRevKey THEN new ELSE r : r \in T}
      BY <1>8, <2>2 DEF UpdateCompactSQL
    <2> QED BY <1>3, <1>12, <2>3
  <1>14. Named(kine', Keys) = Named(T, Keys)
    BY <1>7, <1>13, NamesAssumption DEF Named
  <1>15. compactRev' = new.prev
    <2>1. new \in kine' /\ \A q \in kine' : q.name = CompactRevKey => q = new
      BY <1>13
    <2>2. CompactRev(kine') = new.prev
      BY <1>7, <2>1, CompactRevIs
    <2> QED BY <2>2 DEF compactRev
  <1>16. /\ compactRev' \in Nat /\ compactRev <= compactRev' /\ e <= compactRev'
         /\ compactRev' \in {compactRev, e}
    BY <1>6, <1>7, <1>15
  <1>17. IInv'
    <2>1. kine' \subseteq Row
      BY <1>7, <1>9, <1>13 DEF IInv, TypeOK
    <2>2. BatchRevision(c) \in Nat
      BY <1>2, CompactionAssumption DEF BatchRevision
    <2> DEFINE d == [c EXCEPT !.pc = "batch", !.start = BatchRevision(c),
                              !.low = 0, !.batch = 0]
    <2>3. /\ d \in CompactionState /\ d.pc = "batch" /\ d.target = c.target
      BY <1>1, <2>2 DEF CompactionState
    <2>4. \A m \in Nodes : compactor'[m] = compactor[m] \/ (m = n /\ compactor'[m] = d)
      BY DEF IInv, TypeOK, CommitBatch
    <2>5. compactor' \in [Nodes -> CompactionState]
      BY <2>3 DEF IInv, TypeOK, CommitBatch
    <2> HIDE DEF d
    <2>6. TypeOK'
      BY <1>8, <2>1, <2>5 DEF IInv, TypeOK
    <2>7. LogInv' /\ EventChain'
      BY <1>8 DEF IInv, LogInv, EventChain, Predecessor
    <2>8. Named(kine', {CompactRevKey}) # {}
      BY <1>7, <1>13 DEF Named
    <2>9. CompactorInv'
      <3> SUFFICES ASSUME NEW m \in Nodes PROVE CompactionOK(compactor[m])'
        BY DEF CompactorInv
      <3>1. CASE compactor'[m] = d
        BY <1>2, <1>8, <2>3, <2>8, <3>1 DEF CompactionOK
      <3>2. CASE compactor'[m] = compactor[m]
        <4>1. compactor[m] \in CompactionState /\ CompactionOK(compactor[m])
          BY DEF IInv, TypeOK, CompactorInv
        <4>2. seq' \in Nat /\ seq <= seq'
          BY <1>1, <1>8
        <4> QED BY <1>1, <1>16, <2>8, <3>2, <4>1, <4>2, CompactionStays
      <3> QED BY <2>4, <3>1, <3>2
    <2>10. KineInv'
      <3>1. \A r \in kine' : r = new \/ (r \in kine /\ r.name # CompactRevKey)
        BY <1>9, <1>13
      <3>2. \A r \in kine' : r.id \in 1..seq'
        BY <1>3, <1>7, <1>8, <3>1 DEF IInv, KineInv
      <3>3. \A r, q \in kine' : r.id = q.id => r = q
        <4>1. \A r \in kine : r.id = new.id => r = R
          BY <1>3, <1>7 DEF IInv, KineInv
        <4> QED BY <1>3, <3>1, <4>1 DEF IInv, KineInv
      <3>4. \A r \in kine' : r.name \notin Keys =>
               \/ r.name = CompactRevKey /\ r.created /\ ~r.deleted
               \/ r = FillRow(r.id)
        BY <1>7, <3>1 DEF IInv, KineInv
      <3>5. \A r \in kine' : r.name = CompactRevKey =>
               \E q \in log' : q.id = r.id /\ q.name = CompactRevKey
        BY <1>3, <1>7, <1>8, <3>1 DEF IInv, KineInv
      <3>6. SingleCompactRow'
        BY <3>1 DEF SingleCompactRow, Named
      <3>7. \E r \in kine' : r.id = seq'
        <4>1. PICK u \in kine : u.id = seq
          BY <1>1, <1>2 DEF IInv, KineInv
        <4>2. u.id \notin ids
          <5> SUFFICES ASSUME NEW q \in log, q.prev = u.id PROVE FALSE
            BY <1>10
          <5>1. q.prev < q.id /\ q.id \in 1..seq
            BY DEF IInv, LogInv
          <5> QED BY <1>1, <4>1, <5>1
        <4>3. u \in T
          BY <1>1, <1>2, <1>9, <4>1, <4>2
        <4>4. CASE u.name = CompactRevKey
          BY <1>4, <1>7, <1>8, <1>13, <4>1, <4>4
        <4>5. CASE u.name # CompactRevKey
          BY <1>8, <1>13, <4>1, <4>3, <4>5
        <4> QED BY <4>4, <4>5
      <3>8. compactRev' = 0 \/ compactRev' < seq'
        BY <1>2, <1>8, <1>16 DEF IInv, KineInv
      <3>9. \A q \in log' : q.name = CompactRevKey =>
               \E r \in kine' : r.id = q.id /\ r.name = CompactRevKey
        <4>1. \A q \in log : q.name = CompactRevKey => R.id = q.id
          BY <1>3, <1>4 DEF IInv, KineInv
        <4> QED BY <1>7, <1>8, <1>13, <4>1
      <3> QED BY <1>16, <3>2, <3>3, <3>4, <3>5, <3>6, <3>7, <3>8, <3>9 DEF KineInv
    <2>11. TableIsCompactedLog'
      <3>1. \A r : Superseded(r, compactRev)' <=> Superseded(r, compactRev')
        BY <1>8 DEF Superseded
      <3>2. ASSUME NEW r \in Named(T, Keys)
            PROVE  /\ r \in log /\ ~Superseded(r, compactRev')
                   /\ ~(r.deleted /\ r.id <= compactRev')
        <4>1. r \in kine /\ r.name \in Keys /\ r.id \notin ids
          BY <1>9, <3>2 DEF Named
        <4>2. /\ r \in log /\ ~Superseded(r, compactRev)
              /\ ~(r.deleted /\ r.id <= compactRev)
          BY <4>1, KeptRows DEF IInv
        <4>3. r.id \in Nat /\ r.id # 0
          BY <4>2 DEF IInv, LogInv
        <4>4. ASSUME NEW j \in log, ~j.created, j.prev = r.id, j.id <= compactRev'
              PROVE  FALSE
          <5>1. j.id \in Nat /\ ~(j.id <= compactRev)
            BY <4>2, <4>4 DEF Superseded, IInv, TypeOK, Row
          <5>2. compactRev < j.id /\ j.id <= e /\ s < j.id
            BY <1>1, <1>2, <1>16, <4>4, <5>1
          <5>3. j.name \in Keys
            BY <4>4 DEF IInv, LogInv
          <5>4. j \in kine
            BY <1>1, <5>2, <5>3, NewRowsKept DEF IInv
          <5>5. j.name # CompactRevKey
            BY <5>3, NamesAssumption
          <5>6. r.id \in ids
            BY <4>3, <4>4, <5>2, <5>4, <5>5 DEF ids, SupersededIds
          <5> QED BY <4>1, <5>6
        <4>5. ~(r.deleted /\ r.id <= compactRev')
          <5> SUFFICES ASSUME r.deleted, r.id <= compactRev' PROVE FALSE
            OBVIOUS
          <5>1. compactRev < r.id /\ r.id <= e /\ s < r.id
            BY <1>1, <1>2, <1>16, <4>2, <4>3
          <5> QED BY <1>9, <3>2, <5>1 DEF Named
        <4> QED BY <4>2, <4>4, <4>5 DEF Superseded
      <3>3. ASSUME NEW r \in log, r.name \in Keys, ~Superseded(r, compactRev'),
                   ~(r.deleted /\ r.id <= compactRev')
            PROVE  r \in Named(T, Keys)
        <4>1. r.id \in Nat /\ \A q \in log : q.id \in Nat
          BY DEF IInv, LogInv
        <4>2. ~Superseded(r, compactRev)
          BY <1>1, <1>16, <3>3, <4>1 DEF Superseded
        <4>3. ~(r.deleted /\ r.id <= compactRev)
          BY <1>1, <1>16, <3>3, <4>1
        <4>4. r \in kine
          BY <3>3, <4>2, <4>3 DEF IInv, TableIsCompactedLog, Named
        <4>5. r.id \notin ids
          <5> SUFFICES ASSUME NEW q \in log, ~q.created, q.prev = r.id, q.id <= e
                       PROVE  FALSE
            BY <1>10
          <5>1. q.id <= compactRev'
            BY <1>2, <1>16, <4>1
          <5> QED BY <3>3, <5>1 DEF Superseded
        <4>6. ~(r.deleted /\ s < r.id /\ r.id <= e)
          BY <1>2, <1>16, <3>3, <4>1
        <4> QED BY <1>9, <3>3, <4>4, <4>5, <4>6 DEF Named
      <3>4. {r \in log' : /\ r.name \in Keys
                          /\ ~Superseded(r, compactRev)'
                          /\ ~(r.deleted /\ r.id <= compactRev')} = Named(T, Keys)
        <4>1. \A r \in Named(T, Keys) : r.name \in Keys
          BY DEF Named
        <4> QED BY <1>8, <3>1, <3>2, <3>3, <4>1
      <3> QED BY <1>14, <3>4 DEF TableIsCompactedLog
    <2> QED BY <2>6, <2>7, <2>9, <2>10, <2>11 DEF IInv
  <1> QED BY <1>16, <1>17

\* Every step keeps the invariant.
LEMMA NextStep ==
    ASSUME IInv, Next PROVE IInv' /\ compactRev <= compactRev'
  <1>1. ASSUME NEW k \in Keys, NEW v \in Values, NEW lease \in Leases,
               Create(k, v, lease)
        PROVE  IInv' /\ compactRev <= compactRev'
    BY <1>1, CreateStep
  <1>2. ASSUME NEW k \in Keys, NEW v \in Values, NEW lease \in Leases,
               NEW rev \in 1..seq, Update(k, v, rev, lease)
        PROVE  IInv' /\ compactRev <= compactRev'
    BY <1>2, UpdateStep
  <1>3. ASSUME NEW k \in Keys, NEW rev \in 1..seq, Delete(k, rev)
        PROVE  IInv' /\ compactRev <= compactRev'
    BY <1>3, DeleteStep
  <1>4. ASSUME NEW rev \in 1..seq, Fill(rev)
        PROVE  IInv' /\ compactRev <= compactRev'
    BY <1>4, FillStep
  <1>5. ASSUME NEW n \in Nodes, DoCompactStep(n) \/ AbortCompact(n)
        PROVE  IInv' /\ compactRev <= compactRev'
    <2>1. CASE CreateCompactKey(n)
      BY <2>1, CreateCompactKeyStep
    <2>2. CASE CommitBatch(n)
      BY <2>2, CommitStep
    <2>3. CASE \/ CompactStart(n) \/ ReadInterval(n) \/ StartBatch(n)
               \/ EndCompact(n) \/ AbortCompact(n)
      BY <2>3, ReadSteps
    <2> QED BY <1>5, <2>1, <2>2, <2>3 DEF DoCompactStep
  <1>6. CASE ClientStep
    <2>1. CASE \E k \in Keys, v \in Values, lease \in Leases : Create(k, v, lease)
      BY <1>1, <2>1
    <2>2. CASE \E k \in Keys, v \in Values, lease \in Leases :
                  \E rev \in 1..seq : Update(k, v, rev, lease)
      BY <1>2, <2>2
    <2>3. CASE \E k \in Keys, rev \in 1..seq : Delete(k, rev)
      BY <1>3, <2>3
    <2> QED BY <1>6, <2>1, <2>2, <2>3 DEF ClientStep
  <1> QED BY <1>4, <1>5, <1>6 DEF Next

\* Nothing happens in a stuttering step.
LEMMA StutterStep ==
    ASSUME IInv, UNCHANGED storeVars PROVE IInv' /\ compactRev <= compactRev'
  <1>1. compactRev' = compactRev
    BY DEF storeVars, compactRev
  <1>2. TypeOK' /\ LogInv'
    BY DEF storeVars, IInv, TypeOK, LogInv
  <1>3. KineInv'
    BY <1>1 DEF storeVars, IInv, KineInv, SingleCompactRow
  <1>4. CompactorInv'
    BY <1>1 DEF storeVars, IInv, CompactorInv, CompactionOK
  <1>5. TableIsCompactedLog' /\ EventChain'
    BY <1>1 DEF storeVars, IInv, TableIsCompactedLog, Superseded, EventChain, Predecessor
  <1>6. compactRev <= compactRev'
    BY <1>1 DEF IInv, KineInv
  <1> QED BY <1>2, <1>3, <1>4, <1>5, <1>6 DEF IInv

\* The empty table satisfies the invariant.
LEMMA InitStep ==
    ASSUME Init PROVE IInv
  <1>1. Named(kine, {CompactRevKey}) = {} /\ Named(kine, Keys) = {}
    BY DEF Init, Named
  <1>2. compactRev = 0
    BY <1>1, CompactRevNone DEF compactRev
  <1>3. TypeOK
    BY DEF Init, TypeOK, Idle, CompactionState
  <1>4. LogInv
    BY DEF Init, LogInv, Named
  <1>5. KineInv
    BY <1>1, <1>2 DEF Init, KineInv, SingleCompactRow
  <1>6. CompactorInv
    BY DEF Init, CompactorInv, CompactionOK, Idle
  <1>7. TableIsCompactedLog /\ EventChain
    BY <1>1 DEF Init, TableIsCompactedLog, EventChain, Named
  <1> QED BY <1>3, <1>4, <1>5, <1>6, <1>7 DEF IInv

-----------------------------------------------------------------------------
(* The history only grows *)

\* A new row changes no list at an older revision.
LEMMA OldListsStay ==
    ASSUME NEW t, NEW row, NEW n \in Nat, row.id = n + 1,
           NEW names, NEW rev \in Nat, rev <= n
    PROVE  List(t \cup {row}, names, rev) = List(t, names, rev)
  <1>1. UpTo(t \cup {row}, rev) = UpTo(t, rev)
    BY DEF UpTo
  <1> QED BY <1>1 DEF List

\* A step of the store adds at most one row to the history, under a fresh id.
HistoryGrows ==
    \/ log' = log /\ seq' = seq
    \/ \E row : row.id = seq + 1 /\ log' = log \cup {row} /\ seq' = seq + 1

LEMMA NextGrows ==
    ASSUME Next PROVE HistoryGrows
  <1>1. ASSUME NEW row, Insert(row), row.id = NextId PROVE HistoryGrows
    BY <1>1 DEF Insert, HistoryGrows, NextId
  <1>2. ASSUME NEW k, NEW v, NEW lease, NEW row \in CreateSQL(kine, NextId, k, v, lease)
        PROVE  row.id = NextId
    BY <1>2 DEF CreateSQL
  <1>3. ASSUME NEW k, NEW v, NEW rev, NEW lease,
               NEW row \in UpdateSQL(kine, NextId, k, v, rev, lease)
        PROVE  row.id = NextId
    BY <1>3 DEF UpdateSQL
  <1>4. ASSUME NEW k, NEW rev, NEW row \in DeleteSQL(kine, NextId, k, rev)
        PROVE  row.id = NextId
    BY <1>4 DEF DeleteSQL
  <1>5. CASE ClientStep
    BY <1>1, <1>2, <1>3, <1>4, <1>5 DEF ClientStep, Create, Update, Delete
  <1>6. ASSUME NEW rev, Fill(rev) PROVE HistoryGrows
    BY <1>6 DEF Fill, HistoryGrows
  <1>7. ASSUME NEW n \in Nodes, DoCompactStep(n) \/ AbortCompact(n) PROVE HistoryGrows
    <2>1. CASE CreateCompactKey(n)
      BY <1>1, <1>2, <2>1 DEF CreateCompactKey, HistoryGrows
    <2>2. CASE \/ CompactStart(n) \/ ReadInterval(n) \/ StartBatch(n) \/ CommitBatch(n)
               \/ EndCompact(n) \/ AbortCompact(n)
      BY <2>2 DEF CompactStart, ReadInterval, StartBatch, CommitBatch, EndCompact,
                  AbortCompact, HistoryGrows
    <2> QED BY <1>7, <2>1, <2>2 DEF DoCompactStep
  <1> QED BY <1>5, <1>6, <1>7 DEF Next

\* The history so far stays as it is.
LEMMA HistoryStays ==
    ASSUME IInv, HistoryGrows
    PROVE  /\ seq \in Nat /\ seq' \in Nat /\ seq <= seq'
           /\ log \subseteq log'
           /\ \A r \in log' : r \in log \/ r.id = seq + 1
           /\ \A names : \A rev \in Nat : rev <= seq =>
                 List(log', names, rev) = List(log, names, rev)
  <1>1. seq \in Nat
    BY DEF IInv, TypeOK
  <1>2. CASE log' = log /\ seq' = seq
    BY <1>1, <1>2
  <1>3. CASE \E row : row.id = seq + 1 /\ log' = log \cup {row} /\ seq' = seq + 1
    <2>1. PICK row : row.id = seq + 1 /\ log' = log \cup {row} /\ seq' = seq + 1
      BY <1>3
    <2>2. ASSUME NEW names, NEW rev \in Nat, rev <= seq
          PROVE  List(log', names, rev) = List(log, names, rev)
      BY <1>1, <2>1, <2>2, OldListsStay
    <2> QED BY <1>1, <2>1, <2>2
  <1> QED BY <1>2, <1>3 DEF HistoryGrows

-----------------------------------------------------------------------------
(* The theorems *)

\* The inductive invariant holds in every reachable state of the table, for
\* any number of nodes compacting it at the same time.
THEOREM Invariance == Spec => []IInv
  <1>1. Init => IInv
    BY InitStep
  <1>2. IInv /\ [Next]_storeVars => IInv'
    BY NextStep, StutterStep
  <1> QED BY <1>1, <1>2, PTL DEF Spec

\* The variables keep their types.
THEOREM TypeCorrect == Spec => []TypeOK
  <1>1. IInv => TypeOK
    BY DEF IInv
  <1> QED BY <1>1, Invariance, PTL

\* Compaction (tryCompact) removes exactly what no read at or after the
\* compact revision can see.
THEOREM CompactionExact == Spec => []TableIsCompactedLog
  <1>1. IInv => TableIsCompactedLog
    BY DEF IInv
  <1> QED BY <1>1, Invariance, PTL

\* A list at any revision from the compact revision on returns what the
\* uncompacted history would: no compaction, by any number of racing nodes,
\* and no fill changes a readable snapshot.
THEOREM SnapshotIsolation == Spec => []SnapshotsPreserved
  <1>1. IInv => SnapshotsPreserved
    <2> SUFFICES ASSUME IInv, NEW rev \in compactRev..seq
                 PROVE  Snapshot(kine, rev) = Snapshot(log, rev)
      BY DEF SnapshotsPreserved
    <2>1. compactRev \in Nat /\ seq \in Nat
      BY DEF IInv, KineInv, TypeOK
    <2>2. rev \in Nat /\ compactRev <= rev
      BY <2>1
    <2>3. List(kine, Keys, rev) = List(log, Keys, rev)
      BY <2>1, <2>2, ListsAgree DEF IInv
    <2> QED BY <2>3 DEF Snapshot
  <1> QED BY <1>1, Invariance, PTL

\* The current revision that clients are told is the newest one issued, so it
\* never goes backwards.
THEOREM CurrentRevision == Spec => []CurrentRevisionIsNewest
  <1>1. IInv => CurrentRevisionIsNewest
    BY MaxIdIsSeq DEF CurrentRevisionIsNewest
  <1> QED BY <1>1, Invariance, PTL

\* Every update and delete follows the live version it names, every create a
\* deletion or nothing: no lost update, whatever has been compacted.
THEOREM NoLostUpdate == Spec => []EventChain
  <1>1. IInv => EventChain
    BY DEF IInv
  <1> QED BY <1>1, Invariance, PTL

\* There is one compact_rev_key row at most.
THEOREM OneCompactRow == Spec => []SingleCompactRow
  <1>1. IInv => SingleCompactRow
    BY DEF IInv, KineInv
  <1> QED BY <1>1, Invariance, PTL

\* No step, of any node, moves the compact revision backwards.
THEOREM CompactRevNeverFalls == Spec => CompactRevMonotone
  <1>1. IInv /\ [Next]_storeVars => [compactRev' >= compactRev]_storeVars
    <2> SUFFICES ASSUME IInv, Next PROVE compactRev' >= compactRev
      OBVIOUS
    <2>1. IInv' /\ compactRev <= compactRev'
      BY NextStep
    <2>2. compactRev \in Nat /\ compactRev' \in Nat
      BY <2>1 DEF IInv, KineInv
    <2> QED BY <2>1, <2>2
  <1> QED BY <1>1, Invariance, PTL DEF Spec, CompactRevMonotone

\* A fresh row that names the newest row of its key, or whose key has none,
\* fits the indexes: no row of the key can name that newest row already.
LEMMA FreshRowFits ==
    ASSUME IInv, NEW k \in Keys, NEW row, row.id = NextId, row.name = k,
           \/ Named(kine, {k}) = {}
           \/ \E r \in Latest(kine, {k}) : row.prev = r.id
    PROVE  Accepts(kine, row)
  <1> SUFFICES ASSUME NEW q \in kine
               PROVE  q.id # row.id /\ ~(q.prev = row.prev /\ q.name = row.name)
    BY DEF Accepts
  <1>1. q.id # row.id
    <2>1. seq \in Nat /\ q.id \in 1..seq
      BY DEF IInv, KineInv, TypeOK
    <2> QED BY <2>1 DEF NextId
  <1>2. ASSUME q.prev = row.prev, q.name = row.name PROVE FALSE
    <2>1. PICK r \in Latest(kine, {k}) : row.prev = r.id
      BY <1>2 DEF Named
    <2>2. q.id <= r.id /\ q.id \in Nat /\ r.id \in Nat
      BY <1>2 DEF Latest, Named, IInv, KineInv
    <2>3. q \in log
      BY <1>2, KeptRows DEF IInv
    <2>4. q.prev < q.id
      BY <2>3 DEF IInv, LogInv
    <2> QED BY <1>2, <2>1, <2>2, <2>4
  <1> QED BY <1>1, <1>2

\* The conditional inserts never violate the table's unique indexes.
THEOREM NoConflict == Spec => []InsertsNeverConflict
  <1>1. IInv => InsertsNeverConflict
    <2> SUFFICES ASSUME IInv, NEW k \in Keys, NEW v \in Values, NEW lease \in Leases
                 PROVE  /\ \A row \in CreateSQL(kine, NextId, k, v, lease) :
                              Accepts(kine, row)
                        /\ \A rev \in 1..seq :
                              /\ \A row \in UpdateSQL(kine, NextId, k, v, rev, lease) :
                                    Accepts(kine, row)
                              /\ \A row \in DeleteSQL(kine, NextId, k, rev) :
                                    Accepts(kine, row)
      BY DEF InsertsNeverConflict
    <2>1. ASSUME NEW row \in CreateSQL(kine, NextId, k, v, lease)
          PROVE  Accepts(kine, row)
      <3>1. row.id = NextId /\ row.name = k
        BY <2>1 DEF CreateSQL
      <3>2. CASE Named(kine, {k}) = {}
        BY <3>1, <3>2, FreshRowFits
      <3>3. CASE Named(kine, {k}) # {}
        <4>1. \E r \in Latest(kine, {k}) : row.prev = r.id
          BY <2>1, <3>3 DEF CreateSQL
        <4> QED BY <3>1, <4>1, FreshRowFits
      <3> QED BY <3>2, <3>3
    <2>2. ASSUME NEW rev \in 1..seq,
                 NEW row \in UpdateSQL(kine, NextId, k, v, rev, lease)
          PROVE  Accepts(kine, row)
      <3>1. /\ row.id = NextId /\ row.name = k
            /\ \E r \in Latest(kine, {k}) : row.prev = r.id
        BY <2>2 DEF UpdateSQL, Current
      <3> QED BY <3>1, FreshRowFits
    <2>3. ASSUME NEW rev \in 1..seq, NEW row \in DeleteSQL(kine, NextId, k, rev)
          PROVE  Accepts(kine, row)
      <3>1. /\ row.id = NextId /\ row.name = k
            /\ \E r \in Latest(kine, {k}) : row.prev = r.id
        BY <2>3 DEF DeleteSQL, Current
      <3> QED BY <3>1, FreshRowFits
    <2> QED BY <2>1, <2>2, <2>3
  <1> QED BY <1>1, Invariance, PTL
=============================================================================
