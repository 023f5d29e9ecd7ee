-------------------------- MODULE KineReadsProofs --------------------------
(***************************************************************************)
(* Proofs about the reads and transactions of KineReads, for any number of *)
(* clients, keys, nodes and revisions and any page size.                   *)
(*                                                                         *)
(* What a request has read is described by the history alone: a list of    *)
(* the history at a revision that has been issued never changes, and a     *)
(* compact revision never falls.  So a fact of the form "the revision is   *)
(* compacted, or the rows are those of the history" outlives the steps of  *)
(* everybody else, from the statement that reads to the one that answers.  *)
(* A read of the newest revision, or of one that is yet to come, is a read *)
(* of the history at the revision that was the newest at that moment.      *)
(***************************************************************************)
EXTENDS KineReads, KineMvccProofs, FiniteSetTheorems

-----------------------------------------------------------------------------
(* The inductive invariant *)

Request ==
    [kind : {"list", "count", "get", "create", "update", "delete"},
     key : Keys \cup {NoKey}, rev : Nat, limit : Nat,
     value : Values \cup {NoValue}, lease : Nat]

Operation ==
    [pc : {"idle", "count", "rows", "interval", "relist", "execute", "done"},
     req : Request, counting : BOOLEAN, rev : Nat, rows : SUBSET Row,
     cut : BOOLEAN, ok : BOOLEAN, kvs : SUBSET Row, page : Nat, head : Nat, count : Nat,
     since : Nat, mine : SUBSET Nat]

IsTxn(req) == req.kind \in {"create", "update", "delete"}

\* What Range and the transactions let through.
RequestOK(o) ==
    LET req == o.req
    IN  /\ IsTxn(req) => req.rev <= seq
        /\ GetsOne(req) => req.limit = 0
        /\ GetsOne(req) /\ o.pc # "idle" => req.key \in Keys
        /\ IsTxn(req) => req.key \in Keys
        /\ req.kind \in {"create", "update"} => req.value \in Values /\ req.lease \in Leases
        /\ req.kind = "create" => req.rev = 0

\* The revision asked for was yet to come when the request arrived.
Later(o) == o.req.rev > o.since

\* The revision that the next statement reads at.
RevisionOK(o) ==
    /\ o.pc # "idle" => 0 < seq
    /\ o.since <= seq
    /\ o.rev <= seq \/ (Later(o) /\ o.rev = o.req.rev)
    /\ o.page <= seq \/ (Later(o) /\ o.page = o.req.rev)
    /\ o.counting => ~GetsOne(o.req)
    /\ o.req.kind = "count" => o.counting \/ o.pc = "idle"
    /\ o.pc \in {"count", "relist"} => ~GetsOne(o.req)
    /\ o.pc = "count" => o.counting /\ ~o.cut
    /\ o.pc = "execute" => IsTxn(o.req) /\ o.page = 0
    /\ o.pc \in {"rows", "interval", "relist"} => o.counting \/ o.page = 0
    /\ IsTxn(o.req) => o.rev = 0
    /\ o.req.kind = "get" => o.rev = o.req.rev
    /\ o.req.kind = "list" /\ ~o.counting =>
           o.rev = o.req.rev \/ (o.req.rev = 0 /\ o.since <= o.rev)
    /\ o.pc = "relist" /\ ~o.counting => o.req.rev = 0
    /\ o.counting /\ o.pc = "count" =>
           o.rev = IF o.req.kind = "list" THEN o.page ELSE o.req.rev
    /\ o.counting /\ o.pc \in {"rows", "interval"} =>
           /\ 0 < o.rev /\ o.since <= o.rev /\ o.rev <= seq
           /\ Later(o) \/ o.page <= o.rev
    /\ o.counting /\ o.req.kind = "list" => 0 < o.page
    /\ o.pc = "done" /\ (o.req.kind = "get" \/ (o.req.kind = "list" /\ o.ok)) => 0 < o.page

\* The keys that a list of SQLLog is about.
KeysOf(o) == IF o.counting THEN Keys ELSE KeyRange(o.req)

\* The rows that a list of SQLLog finds in the history at a revision.
AllOf(o, rev) == First(List(log, KeysOf(o), rev), QueryLimit(o))

\* The first statement of SQLLog.List has read them, all or the first of them.
ReadFrom(o, rev) ==
    /\ InitialPart(o.rows, AllOf(o, rev))
    /\ o.rows = AllOf(o, rev) <=> ~o.cut

\* What the statement reads depends on when it is executed.
Moving(o) == o.rev = 0 \/ (Later(o) /\ ~o.counting)

\* The first statement of SQLLog.List has read the rows of the history, unless
\* the revision was compacted.
RowsOK(o) ==
    o.pc = "interval" =>
        /\ IsFiniteSet(o.rows)
        /\ Moving(o) => \/ 0 < o.rev /\ o.rev < compactRev
                        \/ \E rev \in o.since..seq :
                              (0 < o.rev => rev <= o.rev) /\ ReadFrom(o, rev)
        /\ ~Moving(o) => o.rev < compactRev \/ ReadFrom(o, o.rev)
        /\ o.req.kind \in {"update", "delete"} => \A r \in o.rows : r.id # o.req.rev

\* The page in the answer.
PageOK(o) ==
    /\ o.page = 0 => o.kvs = {}
    /\ o.page > 0 =>
        /\ o.req.kind = "list" /\ (o.req.rev \in 1..o.since \/ (o.req.rev = 0 /\ o.kvs = {})) =>
               Answers(o, o.page)
        /\ o.req.kind = "get" /\ o.req.rev \in 1..o.since =>
               o.req.rev < compactRev \/ Answers(o, o.req.rev)
        /\ (o.req.kind \in {"list", "get"} => o.req.rev = 0 \/ Later(o)) /\ o.req.kind # "count" =>
               \/ o.req.kind = "get" /\ 0 < o.req.rev /\ o.req.rev < compactRev
               \/ \E rev \in o.since..seq : rev <= o.page /\ Answers(o, rev)
        /\ o.req.kind \in {"update", "delete"} => \A r \in o.kvs : r.id # o.req.rev

\* The version that a refused transaction compared with is not the newest, and
\* never will be again.
RefusedOK(o) ==
    o.pc = "rows" /\ IsTxn(o.req) =>
        \A p \in log : p.name = o.req.key /\ p.id = o.req.rev /\ ~p.deleted =>
            \E q \in log : q.name = o.req.key /\ p.id < q.id

\* The rows that a transaction has inserted.
MineOK(o) ==
    /\ ~IsTxn(o.req) => o.mine = {}
    /\ \A m \in o.mine :
          /\ o.req.rev < m /\ m <= seq
          /\ \E r \in log : r.id = m /\ r.name = o.req.key /\ (o.req.kind # "delete" => ~r.deleted)
    /\ \A i, j \in o.mine : i < j =>
          /\ o.req.rev = 0
          /\ \E r \in log : r.name = o.req.key /\ r.deleted /\ r.id \in i..j

\* The revision that a count is about.
CountRev(o) == IF o.req.kind = "list" THEN o.page ELSE o.req.rev

\* The revisions up to a newest one that the first statement may have counted at.
FirstCount(o, top) ==
    IF CountRev(o) \in 1..o.since THEN {CountRev(o)} ELSE o.since..top

\* A count is taken again only where nothing is found, and it is exact in the end.
CountOK(o) ==
    LET at(rev) == List(log, KeyRange(o.req), rev)
        asked == IF CountRev(o) \in 1..o.head THEN CountRev(o) ELSE o.head
    IN  /\ o.counting /\ o.pc \in {"relist", "rows", "interval"} =>
               \/ CountRev(o) \in 1..(compactRev - 1)
               \/ \E r \in FirstCount(o, seq) :
                     (o.pc # "relist" => r <= o.rev) /\ at(r) = {}
        /\ o.pc = "done" /\ o.counting /\ o.ok =>
               /\ o.since <= o.head /\ o.head <= seq
               /\ \/ CountRev(o) \in 1..(compactRev - 1)
                  \/ ~o.cut /\ o.count = Cardinality(at(asked))
                  \/ /\ \E r \in FirstCount(o, o.head) : at(r) = {}
                     /\ o.cut \/ o.count = Cardinality(List(log, Keys, o.head))
               /\ Later(o) \/ o.page <= o.head

OperationOK(o) ==
    /\ RequestOK(o)
    /\ RevisionOK(o)
    /\ RowsOK(o)
    /\ PageOK(o)
    /\ RefusedOK(o)
    /\ MineOK(o)
    /\ CountOK(o)

ReadsInv ==
    /\ IInv
    /\ op \in [Clients -> Operation]
    /\ \A c \in Clients : OperationOK(op[c])

-----------------------------------------------------------------------------
(* Pages *)

\* The rows of a set that come before a row in the order of the names.
Below(S, r) == {q \in S : Rank[q.name] < Rank[r.name]}

LEMMA FirstIs ==
    ASSUME NEW S, NEW n
    PROVE  First(S, n) = {r \in S : n = 0 \/ Cardinality(Below(S, r)) < n}
  BY DEF First, Below

LEMMA BelowFinite ==
    ASSUME NEW S, IsFiniteSet(S), NEW r
    PROVE  IsFiniteSet(Below(S, r)) /\ Cardinality(Below(S, r)) \in Nat
  <1>1. Below(S, r) \in SUBSET S
    BY DEF Below
  <1> QED BY <1>1, FS_Subset, FS_CardinalityType

\* What comes before a row of a page is on the page.
LEMMA FirstIsClosed ==
    ASSUME NEW S, IsFiniteSet(S), \A r \in S : Rank[r.name] \in Nat,
           NEW n \in Nat, NEW r \in First(S, n)
    PROVE  Below(S, r) \subseteq First(S, n)
  <1> SUFFICES ASSUME NEW q \in Below(S, r) PROVE q \in First(S, n)
    OBVIOUS
  <1>1. r \in S /\ q \in S /\ Rank[q.name] < Rank[r.name]
    BY DEF First, Below
  <1>2. Below(S, q) \subseteq Below(S, r)
    BY <1>1 DEF Below
  <1>3. Cardinality(Below(S, q)) <= Cardinality(Below(S, r))
    BY <1>2, BelowFinite, FS_Subset
  <1>4. Cardinality(Below(S, q)) \in Nat /\ Cardinality(Below(S, r)) \in Nat
    BY BelowFinite
  <1> QED BY <1>1, <1>3, <1>4, FirstIs

\* A page of a page is the page.
LEMMA FirstTwice ==
    ASSUME NEW S, IsFiniteSet(S), \A r \in S : Rank[r.name] \in Nat,
           NEW n \in Nat \ {0}
    PROVE  First(First(S, n + 1), n) = First(S, n)
  <1> DEFINE P == First(S, n + 1)
  <1>1. P = {r \in S : Cardinality(Below(S, r)) < n + 1}
    BY FirstIs
  <1>2. \A r \in S : Cardinality(Below(S, r)) \in Nat
    BY BelowFinite
  <1>3. First(S, n) \subseteq P
    BY <1>1, <1>2, FirstIs
  <1>4. ASSUME NEW r \in P PROVE Below(P, r) = Below(S, r)
    <2>1. Below(S, r) \subseteq P
      BY FirstIsClosed
    <2>2. P \subseteq S
      BY <1>1
    <2> HIDE DEF P
    <2> QED BY <2>1, <2>2 DEF Below
  <1>5. First(P, n) = {r \in P : Cardinality(Below(P, r)) < n}
    BY FirstIs
  <1>6. First(S, n) = {r \in S : Cardinality(Below(S, r)) < n}
    BY FirstIs
  <1> SUFFICES First(P, n) = First(S, n)
    OBVIOUS
  <1> HIDE DEF P
  <1> QED BY <1>1, <1>3, <1>4, <1>5, <1>6

\* Without the extra row that LimitedServer.list asks for, the page is the last.
LEMMA FirstShort ==
    ASSUME NEW S, IsFiniteSet(S), \A r \in S : Rank[r.name] \in Nat,
           NEW n \in Nat \ {0}, ~(Cardinality(First(S, n + 1)) > n)
    PROVE  First(S, n + 1) = First(S, n)
  <1> DEFINE P == First(S, n + 1)
  <1>1. P = {r \in S : Cardinality(Below(S, r)) < n + 1}
    BY FirstIs
  <1>2. \A r \in S : Cardinality(Below(S, r)) \in Nat
    BY BelowFinite
  <1>3. First(S, n) = {r \in S : Cardinality(Below(S, r)) < n}
    BY FirstIs
  <1>4. ASSUME NEW r \in P, Cardinality(Below(S, r)) = n PROVE FALSE
    <2>1. Below(S, r) \subseteq P
      BY FirstIsClosed
    <2>2. r \in S /\ r \notin Below(S, r)
      <3>1. r \in S
        BY <1>1
      <3>2. Rank[r.name] \in Nat
        BY <3>1
      <3> QED BY <3>1, <3>2 DEF Below
    <2>3. Cardinality(Below(S, r) \cup {r}) = n + 1
      BY <1>4, <2>2, BelowFinite, FS_AddElement
    <2>4. IsFiniteSet(P)
      BY <1>1, FS_Subset
    <2>5. Below(S, r) \cup {r} \in SUBSET P
      BY <2>1
    <2>6. n + 1 <= Cardinality(P) /\ Cardinality(P) \in Nat
      BY <2>3, <2>4, <2>5, FS_Subset, FS_CardinalityType
    <2> QED BY <2>6
  <1> HIDE DEF P
  <1> QED BY <1>1, <1>2, <1>3, <1>4 DEF P

\* A page of something is not empty.
LEMMA FirstOfSome ==
    ASSUME NEW S, S # {}, \A r \in S : Rank[r.name] \in Nat, NEW n \in Nat \ {0}
    PROVE  First(S, n) # {}
  <1> DEFINE T == {Rank[r.name] : r \in S}
  <1>1. T \in SUBSET Nat /\ T # {}
    OBVIOUS
  <1>2. PICK x \in T : \A y \in T : x <= y
    BY <1>1, LeastExists
  <1>3. PICK r \in S : x = Rank[r.name]
    BY <1>2
  <1>4. Below(S, r) = {}
    BY <1>2, <1>3 DEF Below
  <1>5. Cardinality(Below(S, r)) = 0
    BY <1>4, FS_EmptySet
  <1>6. r \in First(S, n)
    BY <1>5, FirstIs
  <1> QED BY <1>6

\* A page has no more rows than it may have: behind its last row there are none.
LEMMA FirstBounded ==
    ASSUME NEW S, IsFiniteSet(S), \A r \in S : Rank[r.name] \in Nat,
           \A r, q \in S : Rank[r.name] = Rank[q.name] => r = q,
           NEW n \in Nat \ {0}
    PROVE  /\ IsFiniteSet(First(S, n)) /\ First(S, n) \subseteq S
           /\ Cardinality(First(S, n)) \in Nat /\ Cardinality(First(S, n)) <= n
  <1> DEFINE P == First(S, n)
             T == {n - Cardinality(Below(S, r)) : r \in P}
  <1>1. P = {r \in S : Cardinality(Below(S, r)) < n}
    BY FirstIs
  <1>2. \A r \in S : IsFiniteSet(Below(S, r)) /\ Cardinality(Below(S, r)) \in Nat
    BY BelowFinite
  <1>3. P \in SUBSET S
    BY <1>1
  <1>4. IsFiniteSet(P) /\ Cardinality(P) \in Nat
    BY <1>3, FS_Subset, FS_CardinalityType
  <1>5. CASE P = {}
    BY <1>3, <1>4, <1>5, FS_EmptySet
  <1>6. CASE P # {}
    <2>1. T \in SUBSET Nat /\ T # {}
      BY <1>1, <1>2, <1>6
    <2>2. PICK x \in T : \A y \in T : x <= y
      BY <2>1, LeastExists
    <2>3. PICK r \in P : x = n - Cardinality(Below(S, r))
      BY <2>2
    <2>4. r \in S /\ Cardinality(Below(S, r)) < n
      BY <1>1
    <2>5. ASSUME NEW q \in P, Rank[r.name] < Rank[q.name] PROVE FALSE
      <3>1. q \in S
        BY <1>3
      <3>2. Below(S, r) \cup {r} \in SUBSET Below(S, q) /\ r \notin Below(S, r)
        BY <2>4, <2>5, <3>1 DEF Below
      <3>3. Cardinality(Below(S, r) \cup {r}) = Cardinality(Below(S, r)) + 1
        BY <1>2, <2>4, <3>2, FS_AddElement
      <3>4. Cardinality(Below(S, r)) + 1 <= Cardinality(Below(S, q))
        BY <1>2, <3>1, <3>2, <3>3, FS_Subset
      <3>5. x <= n - Cardinality(Below(S, q))
        BY <2>2
      <3> QED BY <1>2, <2>3, <2>4, <3>1, <3>4, <3>5
    <2>6. P \in SUBSET (Below(S, r) \cup {r})
      <3> SUFFICES ASSUME NEW q \in P, q # r PROVE q \in Below(S, r)
        OBVIOUS
      <3>1. q \in S /\ Rank[q.name] \in Nat /\ Rank[r.name] \in Nat
        BY <1>3, <2>4
      <3>2. Rank[q.name] # Rank[r.name]
        BY <2>4, <3>1
      <3>3. ~(Rank[r.name] < Rank[q.name])
        BY <2>5
      <3> QED BY <3>1, <3>2, <3>3 DEF Below
    <2>7. r \notin Below(S, r)
      BY <2>4 DEF Below
    <2>8. /\ IsFiniteSet(Below(S, r) \cup {r})
          /\ Cardinality(Below(S, r) \cup {r}) = Cardinality(Below(S, r)) + 1
      BY <1>2, <2>4, <2>7, FS_AddElement
    <2>9. Cardinality(P) <= Cardinality(Below(S, r)) + 1
      BY <2>6, <2>8, FS_Subset
    <2>10. Cardinality(P) <= n
      BY <1>2, <1>4, <2>4, <2>9
    <2> HIDE DEF P
    <2> QED BY <1>3, <1>4, <2>10 DEF P
  <1> QED BY <1>5, <1>6

\* Whoever has the extra row that LimitedServer.list asks for has all of them.
LEMMA ExtraRowIsLast ==
    ASSUME NEW S, IsFiniteSet(S), \A r \in S : Rank[r.name] \in Nat,
           \A r, q \in S : Rank[r.name] = Rank[q.name] => r = q,
           NEW n \in Nat \ {0},
           NEW R, R \subseteq First(S, n + 1), Cardinality(R) > n
    PROVE  R = First(S, n + 1)
  <1> DEFINE P == First(S, n + 1)
  <1>1. IsFiniteSet(P) /\ Cardinality(P) \in Nat /\ Cardinality(P) <= n + 1
    BY FirstBounded
  <1>2. R \in SUBSET P
    OBVIOUS
  <1> HIDE DEF P
  <1>3. /\ IsFiniteSet(R) /\ Cardinality(R) <= Cardinality(P)
        /\ Cardinality(R) = Cardinality(P) => R = P
    BY <1>1, <1>2, FS_Subset
  <1>4. Cardinality(R) \in Nat
    BY <1>3, FS_CardinalityType
  <1> QED BY <1>1, <1>3, <1>4 DEF P

\* Without it, what has been read of a page is the beginning of the page.
LEMMA ShortPartIsPart ==
    ASSUME NEW S, IsFiniteSet(S), \A r \in S : Rank[r.name] \in Nat,
           NEW n \in Nat \ {0},
           NEW R, IsFiniteSet(R), InitialPart(R, First(S, n + 1)), ~(Cardinality(R) > n)
    PROVE  InitialPart(R, First(S, n))
  <1> DEFINE P == First(S, n + 1)
  <1>1. P = {r \in S : Cardinality(Below(S, r)) < n + 1}
    BY FirstIs
  <1>2. First(S, n) = {r \in S : Cardinality(Below(S, r)) < n}
    BY FirstIs
  <1>3. \A r \in S : IsFiniteSet(Below(S, r)) /\ Cardinality(Below(S, r)) \in Nat
    BY BelowFinite
  <1>4. First(S, n) \subseteq P
    BY <1>1, <1>2, <1>3
  <1>5. ASSUME NEW r \in R PROVE r \in First(S, n)
    <2>1. r \in P /\ r \in S
      BY <1>1 DEF InitialPart
    <2>2. Below(S, r) \subseteq P
      BY <2>1, FirstIsClosed
    <2>3. \A q \in P : Rank[q.name] <= Rank[r.name] => q \in R
      BY DEF InitialPart
    <2>4. \A q \in Below(S, r) : Rank[q.name] <= Rank[r.name]
      BY <2>1 DEF Below
    <2>5. Below(S, r) \cup {r} \in SUBSET R
      BY <2>2, <2>3, <2>4
    <2>6. r \notin Below(S, r)
      BY <2>1 DEF Below
    <2>7. Cardinality(Below(S, r) \cup {r}) = Cardinality(Below(S, r)) + 1
      BY <1>3, <2>1, <2>6, FS_AddElement
    <2>8. Cardinality(Below(S, r)) + 1 <= Cardinality(R) /\ Cardinality(R) \in Nat
      BY <2>5, <2>7, FS_Subset, FS_CardinalityType
    <2>9. Cardinality(Below(S, r)) < n
      BY <1>3, <2>1, <2>8
    <2> QED BY <1>2, <2>1, <2>9
  <1> QED BY <1>4, <1>5 DEF InitialPart

-----------------------------------------------------------------------------
(* Lists of the table and of the history *)

LEMMA ListRows ==
    ASSUME NEW t, NEW names, NEW rev, NEW r \in List(t, names, rev)
    PROVE  r \in t /\ r.name \in names /\ r.id <= rev
  BY DEF List, ListCurrent, Latest, Named, UpTo

\* A list of some names is the part of the full list with these names.
LEMMA ListPart ==
    ASSUME NEW t, NEW names \in SUBSET Keys, NEW rev
    PROVE  List(t, names, rev) = {r \in List(t, Keys, rev) : r.name \in names}
  BY DEF List, ListCurrent, Latest, Named

\* What a statement of SQLLog reads at a revision that is not compacted.
LEMMA RowsAreThoseOfTheHistory ==
    ASSUME IInv, NEW names \in SUBSET Keys, NEW rev \in Nat
    PROVE  /\ rev = 0 => RowsAt(kine, names, rev) = List(log, names, seq)
           /\ rev > 0 => \/ rev < compactRev
                         \/ RowsAt(kine, names, rev) = List(log, names, rev)
  <1>1. compactRev \in Nat /\ seq \in Nat /\ compactRev <= seq
    BY DEF IInv, KineInv, TypeOK
  <1>2. ASSUME NEW n \in Nat, compactRev <= n PROVE List(kine, names, n) = List(log, names, n)
    <2>1. List(kine, Keys, n) = List(log, Keys, n)
      BY <1>1, <1>2, ListsAgree DEF IInv
    <2> QED BY <2>1, ListPart
  <1>3. CASE rev = 0
    <2>1. UpTo(kine, seq) = kine
      BY DEF IInv, KineInv, UpTo
    <2>2. RowsAt(kine, names, rev) = List(kine, names, seq)
      BY <1>3, <2>1 DEF RowsAt, List
    <2> QED BY <1>1, <1>2, <1>3, <2>2
  <1>4. CASE rev > 0
    BY <1>1, <1>2, <1>4 DEF RowsAt
  <1> QED BY <1>3, <1>4

\* A revision that is yet to come shows what the newest shows.
LEMMA LaterIsNewest ==
    ASSUME IInv, NEW names, NEW rev \in Nat, seq <= rev
    PROVE  List(log, names, rev) = List(log, names, seq)
  <1>1. /\ seq \in Nat /\ \A r \in log : r.id \in Nat /\ r.id <= seq
    BY DEF IInv, LogInv, TypeOK
  <1>2. UpTo(log, rev) = log /\ UpTo(log, seq) = log
    BY <1>1 DEF UpTo
  <1> QED BY <1>2 DEF List

\* A list has one row for a key.
LEMMA ListOrdered ==
    ASSUME IInv, NEW names \in SUBSET Keys, NEW rev
    PROVE  \A r, q \in List(log, names, rev) : Rank[r.name] = Rank[q.name] => r = q
  <1> SUFFICES ASSUME NEW r \in List(log, names, rev), NEW q \in List(log, names, rev),
                      Rank[r.name] = Rank[q.name]
               PROVE  r = q
    OBVIOUS
  <1>1. r \in log /\ q \in log /\ r.name \in Keys /\ q.name \in Keys
    BY ListRows
  <1>2. r.name = q.name
    BY <1>1, ReadsAssumption
  <1>3. r.id <= q.id /\ q.id <= r.id
    BY <1>2 DEF List, ListCurrent, Latest, Named
  <1>4. r.id \in Nat /\ q.id \in Nat /\ (r.id = q.id => r = q)
    BY <1>1 DEF IInv, LogInv, TypeOK
  <1> QED BY <1>3, <1>4

\* The table, the history and whatever is listed of them are finite.
LEMMA ListsFinite ==
    ASSUME IInv, NEW names \in SUBSET Keys, NEW rev
    PROVE  /\ IsFiniteSet(RowsAt(kine, names, rev)) /\ RowsAt(kine, names, rev) \subseteq Row
           /\ IsFiniteSet(List(log, names, rev)) /\ List(log, names, rev) \subseteq Row
           /\ \A r \in List(log, names, rev) : Rank[r.name] \in Nat
           /\ \A r \in RowsAt(kine, names, rev) : r.name \in names
  <1>1. IsFiniteSet(kine) /\ IsFiniteSet(log) /\ kine \subseteq Row /\ log \subseteq Row
    BY TableFinite DEF IInv, KineInv, LogInv, TypeOK
  <1>2. RowsAt(kine, names, rev) \in SUBSET kine
    BY DEF RowsAt, List, ListCurrent, Latest, Named, UpTo
  <1>3. List(log, names, rev) \in SUBSET log
    BY DEF List, ListCurrent, Latest, Named, UpTo
  <1>4. \A r \in List(log, names, rev) : Rank[r.name] \in Nat
    BY ListRows, ReadsAssumption
  <1>5. \A r \in RowsAt(kine, names, rev) : r.name \in names
    BY DEF RowsAt, List, ListCurrent, Latest, Named
  <1> QED BY <1>1, <1>2, <1>3, <1>4, <1>5, FS_Subset

\* The newest row of a key that has any, in the history.
LEMMA LatestExists ==
    ASSUME IInv, NEW k, Named(log, {k}) # {}
    PROVE  \E m \in Latest(log, {k}) : TRUE
  <1> DEFINE T == {seq - r.id : r \in Named(log, {k})}
  <1>1. \A r \in log : r.id \in Nat /\ r.id <= seq
    BY DEF IInv, LogInv, TypeOK
  <1>2. seq \in Nat
    BY DEF IInv, TypeOK
  <1>3. T \in SUBSET Nat /\ T # {}
    BY <1>1, <1>2 DEF Named
  <1>4. PICK x \in T : \A y \in T : x <= y
    BY <1>3, LeastExists
  <1>5. PICK m \in Named(log, {k}) : x = seq - m.id
    BY <1>4
  <1>6. \A q \in log : q.name = m.name => q.id <= m.id
    <2> SUFFICES ASSUME NEW q \in log, q.name = m.name PROVE q.id <= m.id
      OBVIOUS
    <2>1. q \in Named(log, {k}) /\ m \in log
      BY <1>5 DEF Named
    <2>2. x <= seq - q.id
      BY <1>4, <2>1
    <2> QED BY <1>1, <1>2, <1>5, <2>1, <2>2
  <1>7. m \in Latest(log, {k})
    BY <1>5, <1>6 DEF Latest
  <1> QED BY <1>7

-----------------------------------------------------------------------------
(* What a request knows outlives the steps of others *)

LEMMA OperationStays ==
    ASSUME IInv, IInv', compactRev <= compactRev', HistoryGrows,
           NEW o \in Operation, OperationOK(o)
    PROVE  OperationOK(o)'
  <1>1. /\ seq \in Nat /\ seq' \in Nat /\ seq <= seq'
        /\ log \subseteq log'
        /\ \A r \in log' : r \in log \/ r.id = seq + 1
    BY HistoryStays
  <1>2. ASSUME NEW names, NEW rev \in Nat, rev <= seq
        PROVE  List(log', names, rev) = List(log, names, rev)
    BY <1>2, HistoryStays
  <1>3. compactRev \in Nat /\ compactRev' \in Nat
    BY DEF IInv, KineInv
  <1>4. /\ o.req \in Request /\ o.req.rev \in Nat
        /\ o.rev \in Nat /\ o.page \in Nat /\ o.head \in Nat /\ o.since \in Nat
        /\ o.mine \in SUBSET Nat
    BY DEF Operation, Request
  <1>5. /\ o.since <= seq
        /\ IsTxn(o.req) => o.req.rev <= seq
        /\ o.page <= seq \/ (Later(o) /\ o.page = o.req.rev)
    BY DEF OperationOK, RequestOK, RevisionOK
  <1>6. RequestOK(o)'
    BY <1>1, <1>4, <1>5 DEF OperationOK, RequestOK
  <1>7. RevisionOK(o)'
    BY <1>1, <1>4, <1>5 DEF OperationOK, RevisionOK, Later
  <1>8. RowsOK(o)'
    <2> SUFFICES ASSUME o.pc = "interval" PROVE RowsOK(o)'
      BY DEF RowsOK
    <2>1. ASSUME NEW rev \in Nat, rev <= seq, ReadFrom(o, rev) PROVE ReadFrom(o, rev)'
      <3>1. AllOf(o, rev)' = AllOf(o, rev)
        BY <1>2, <2>1 DEF AllOf, KeysOf, QueryLimit
      <3> QED BY <2>1, <3>1 DEF ReadFrom, InitialPart
    <2>2. ASSUME Moving(o)
          PROVE  \/ 0 < o.rev /\ o.rev < compactRev'
                 \/ \E rev \in o.since..seq' : (0 < o.rev => rev <= o.rev) /\ ReadFrom(o, rev)'
      <3>1. CASE 0 < o.rev /\ o.rev < compactRev
        BY <1>3, <1>4, <3>1
      <3>2. CASE \E rev \in o.since..seq : (0 < o.rev => rev <= o.rev) /\ ReadFrom(o, rev)
        <4>1. PICK rev \in o.since..seq : (0 < o.rev => rev <= o.rev) /\ ReadFrom(o, rev)
          BY <3>2
        <4>2. rev \in Nat /\ rev <= seq /\ rev \in o.since..seq'
          BY <1>1, <1>4
        <4> QED BY <2>1, <4>1, <4>2
      <3> QED BY <2>2, <3>1, <3>2 DEF OperationOK, RowsOK
    <2>3. ASSUME ~Moving(o) PROVE o.rev < compactRev' \/ ReadFrom(o, o.rev)'
      <3>1. o.rev <= seq
        BY <2>3 DEF OperationOK, RevisionOK, Moving
      <3> QED BY <1>3, <1>4, <2>1, <2>3, <3>1 DEF OperationOK, RowsOK
    <2> QED BY <2>2, <2>3 DEF OperationOK, RowsOK, Moving, Later
  <1>9. PageOK(o)'
    <2>1. ASSUME NEW rev \in Nat, rev <= seq, Answers(o, rev) PROVE Answers(o, rev)'
      <3>1. PageAt(o.req, rev)' = PageAt(o.req, rev)
        BY <1>2, <2>1 DEF PageAt
      <3> QED BY <2>1, <3>1 DEF Answers, InitialPart
    <2>2. ASSUME \E rev \in o.since..seq : rev <= o.page /\ Answers(o, rev)
          PROVE  \E rev \in o.since..seq' : rev <= o.page /\ Answers(o, rev)'
      <3>1. PICK rev \in o.since..seq : rev <= o.page /\ Answers(o, rev)
        BY <2>2
      <3>2. rev \in Nat /\ rev <= seq /\ rev \in o.since..seq'
        BY <1>1, <1>4
      <3> QED BY <2>1, <3>1, <3>2
    <2>3. o.req.rev \in 0..o.since => o.page <= seq /\ o.req.rev <= seq
      BY <1>1, <1>4, <1>5 DEF Later
    <2>4. ASSUME o.req.rev \in 1..o.since \/ o.req.rev = 0, Answers(o, o.page)
          PROVE  Answers(o, o.page)'
      BY <1>4, <2>1, <2>3, <2>4
    <2>5. ASSUME o.req.rev \in 1..o.since, o.req.rev < compactRev \/ Answers(o, o.req.rev)
          PROVE  o.req.rev < compactRev' \/ Answers(o, o.req.rev)'
      BY <1>3, <1>4, <2>1, <2>3, <2>5
    <2> QED BY <1>3, <1>4, <2>2, <2>4, <2>5 DEF OperationOK, PageOK, Later
  <1>10. RefusedOK(o)'
    BY <1>1, <1>4, <1>5 DEF OperationOK, RefusedOK
  <1>11. MineOK(o)'
    BY <1>1, <1>4 DEF OperationOK, MineOK
  <1>12. CountOK(o)'
    <2>1. CountRev(o) \in Nat
      BY <1>4 DEF CountRev
    <2>2. CountRev(o) \in 1..(compactRev - 1) => CountRev(o) \in 1..(compactRev' - 1)
      BY <1>3, <2>1
    <2>3. ASSUME NEW r \in FirstCount(o, seq)
          PROVE  /\ r \in FirstCount(o, seq')
                 /\ List(log', KeyRange(o.req), r) = List(log, KeyRange(o.req), r)
      <3>1. r \in Nat /\ r <= seq
        BY <1>1, <1>4, <1>5, <2>1 DEF FirstCount
      <3> QED BY <1>1, <1>2, <3>1 DEF FirstCount
    <2>4. ASSUME o.counting, o.pc \in {"relist", "rows", "interval"}
          PROVE  \/ CountRev(o) \in 1..(compactRev' - 1)
                 \/ \E r \in FirstCount(o, seq') : /\ o.pc # "relist" => r <= o.rev
                                                   /\ List(log', KeyRange(o.req), r) = {}
      BY <2>2, <2>3, <2>4 DEF OperationOK, CountOK
    <2>5. ASSUME o.pc = "done", o.counting, o.ok
          PROVE  /\ o.since <= o.head /\ o.head <= seq'
                 /\ \A r \in 0..o.head : List(log', KeyRange(o.req), r) = List(log, KeyRange(o.req), r)
                 /\ List(log', Keys, o.head) = List(log, Keys, o.head)
                 /\ \A r \in FirstCount(o, o.head) : r \in 0..o.head
      <3>1. o.since <= o.head /\ o.head <= seq
        BY <2>5 DEF OperationOK, CountOK
      <3>2. \A r \in 0..o.head : r \in Nat /\ r <= seq
        BY <1>1, <1>4, <3>1
      <3>3. \A r \in FirstCount(o, o.head) : r \in 0..o.head
        BY <1>4, <2>1, <3>1 DEF FirstCount
      <3> QED BY <1>1, <1>2, <1>4, <3>1, <3>2, <3>3
    <2>6. ASSUME o.pc = "done", o.counting, o.ok
          PROVE  (IF CountRev(o) \in 1..o.head THEN CountRev(o) ELSE o.head) \in 0..o.head
      BY <1>4
    <2> QED BY <2>2, <2>4, <2>5, <2>6 DEF OperationOK, CountOK, CountRev, FirstCount, Later
  <1> QED BY <1>6, <1>7, <1>8, <1>9, <1>10, <1>11, <1>12 DEF OperationOK

-----------------------------------------------------------------------------
(* Steps of requests *)

\* One request takes a step, the others keep what they know.
LEMMA ReadsStep ==
    ASSUME ReadsInv, IInv', compactRev <= compactRev', HistoryGrows,
           NEW c \in Clients, NEW new \in Operation, Set(c, new), OperationOK(new)'
    PROVE  ReadsInv'
  <1>1. op' \in [Clients -> Operation] /\ op'[c] = new
    BY DEF ReadsInv, Set
  <1>2. ASSUME NEW d \in Clients, d # c
        PROVE  \E o \in Operation : op'[d] = o /\ OperationOK(o)'
    <2>1. PICK o \in Operation : op'[d] = o /\ OperationOK(o)
      BY <1>2 DEF ReadsInv, Set
    <2>2. OperationOK(o)'
      BY <2>1, OperationStays DEF ReadsInv
    <2> QED BY <2>1, <2>2
  <1>3. ASSUME NEW d \in Clients PROVE OperationOK(op[d])'
    <2>1. PICK o \in Operation : op'[d] = o /\ OperationOK(o)'
      BY <1>1, <1>2
    <2>2. RequestOK(o)' /\ op'[d] = o => RequestOK(op[d])'
      BY DEF RequestOK
    <2>3. RevisionOK(o)' /\ op'[d] = o => RevisionOK(op[d])'
      BY DEF RevisionOK, Later
    <2>4. RowsOK(o)' /\ op'[d] = o => RowsOK(op[d])'
      BY DEF RowsOK, ReadFrom, AllOf, KeysOf, QueryLimit, Moving, Later
    <2>5. PageOK(o)' /\ op'[d] = o => PageOK(op[d])'
      BY DEF PageOK, Answers, PageAt, Later
    <2>6. RefusedOK(o)' /\ op'[d] = o => RefusedOK(op[d])'
      BY DEF RefusedOK
    <2>7. MineOK(o)' /\ op'[d] = o => MineOK(op[d])'
      BY DEF MineOK
    <2>8. CountOK(o)' /\ op'[d] = o => CountOK(op[d])'
      BY DEF CountOK, CountRev, FirstCount, Later
    <2> QED BY <2>1, <2>2, <2>3, <2>4, <2>5, <2>6, <2>7, <2>8 DEF OperationOK
  <1> QED BY <1>1, <1>3 DEF ReadsInv

\* A step that only reads the store.
LEMMA QuietStep ==
    ASSUME ReadsInv, NEW c \in Clients, NEW new \in Operation, Set(c, new),
           UNCHANGED storeVars, OperationOK(new)
    PROVE  ReadsInv'
  <1>1. IInv' /\ compactRev <= compactRev' /\ HistoryGrows
    BY StutterStep DEF ReadsInv, HistoryGrows, storeVars
  <1>2. OperationOK(new)'
    BY <1>1, OperationStays DEF ReadsInv
  <1> QED BY <1>1, <1>2, ReadsStep

\* A request can wait.
LEMMA ReadyOK ==
    ASSUME IInv
    PROVE  Ready \in Operation /\ OperationOK(Ready)
  <1>1. NoRequest \in Request
    BY DEF NoRequest, Request
  <1>2. Ready \in Operation
    BY <1>1 DEF Ready, Operation
  <1>3. seq \in Nat
    BY DEF IInv, TypeOK
  <1>4. RequestOK(Ready)
    BY <1>3 DEF RequestOK, Ready, NoRequest, IsTxn, GetsOne
  <1>5. RevisionOK(Ready)
    BY <1>3 DEF RevisionOK, Ready, NoRequest, IsTxn, GetsOne, Later
  <1>6. RowsOK(Ready) /\ PageOK(Ready) /\ RefusedOK(Ready) /\ MineOK(Ready) /\ CountOK(Ready)
    BY <1>3 DEF RowsOK, PageOK, RefusedOK, MineOK, CountOK, Ready, NoRequest, IsTxn
  <1> QED BY <1>2, <1>4, <1>5, <1>6 DEF OperationOK

LEMMA FinishKeeps ==
    ASSUME ReadsInv, NEW c \in Clients, Finish(c) \/ TxnFails(c)
    PROVE  ReadsInv'
  BY ReadyOK, QuietStep DEF Finish, TxnFails, ReadsInv

\* A node that serves has issued a revision.
LEMMA ServingHasRevision ==
    ASSUME IInv, Serving PROVE seq \in Nat /\ 0 < seq
  BY DEF IInv, KineInv, TypeOK, Serving, Named

LEMMA ReceiveKeeps ==
    ASSUME ReadsInv, NEW c \in Clients, ReceiveRange(c)
    PROVE  ReadsInv'
  <1>1. PICK req \in Request :
           /\ Receive(c, req)
           /\ req.kind \in {"list", "count", "get"}
           /\ req.kind = "get" => req.key \in Keys /\ req.limit = 0
    <2>1. PICK rev \in 0..(MaxRev + 1) :
             \/ \E kind \in {"list", "count"}, k \in Keys \cup {NoKey}, limit \in Limits :
                   Receive(c, [NoRequest EXCEPT !.kind = kind, !.key = k, !.rev = rev,
                                   !.limit = IF kind = "list" THEN limit ELSE 0])
             \/ \E k \in Keys : Receive(c, [NoRequest EXCEPT !.key = k, !.rev = rev])
      BY DEF ReceiveRange
    <2>2. rev \in Nat
      BY CompactionAssumption
    <2>3. CASE \E k \in Keys : Receive(c, [NoRequest EXCEPT !.key = k, !.rev = rev])
      <3>1. PICK k \in Keys : Receive(c, [NoRequest EXCEPT !.key = k, !.rev = rev])
        BY <2>3
      <3> DEFINE req == [NoRequest EXCEPT !.key = k, !.rev = rev]
      <3>2. /\ req \in Request
            /\ req.kind = "get" /\ req.key = k /\ req.rev = rev /\ req.limit = 0
        BY <2>2 DEF NoRequest, Request
      <3> QED BY <2>2, <3>1, <3>2
    <2>4. CASE \E kind \in {"list", "count"}, k \in Keys \cup {NoKey}, limit \in Limits :
                  Receive(c, [NoRequest EXCEPT !.kind = kind, !.key = k, !.rev = rev,
                                  !.limit = IF kind = "list" THEN limit ELSE 0])
      <3>1. PICK kind \in {"list", "count"}, k \in Keys \cup {NoKey}, limit \in Limits :
                  Receive(c, [NoRequest EXCEPT !.kind = kind, !.key = k, !.rev = rev,
                                  !.limit = IF kind = "list" THEN limit ELSE 0])
        BY <2>4
      <3> DEFINE l == IF kind = "list" THEN limit ELSE 0
                 req == [NoRequest EXCEPT !.kind = kind, !.key = k, !.rev = rev, !.limit = l]
      <3>2. l \in Nat
        BY ReadsAssumption
      <3>3. Receive(c, req)
        BY <3>1
      <3> HIDE DEF l
      <3>4. /\ req \in Request
            /\ req.kind = kind /\ req.key = k /\ req.rev = rev
        BY <2>2, <3>2 DEF NoRequest, Request
      <3> QED BY <2>2, <3>3, <3>4
    <2> QED BY <2>1, <2>3, <2>4
  <1> DEFINE kind == req.kind
             new == [Ready EXCEPT !.pc = IF kind = "count" THEN "count" ELSE "rows",
                                  !.counting = kind = "count",
                                  !.req = req, !.rev = req.rev, !.since = seq]
  <1>2. seq \in Nat /\ 0 < seq
    BY <1>1, ServingHasRevision DEF Receive, ReadsInv
  <1>3. req.rev \in Nat
    BY <1>1 DEF Request
  <1>4. Set(c, new) /\ UNCHANGED storeVars
    BY <1>1 DEF Receive
  <1>5. /\ new \in Operation
        /\ new.pc = (IF kind = "count" THEN "count" ELSE "rows")
        /\ new.counting <=> kind = "count"
        /\ new.req = req /\ new.rev = req.rev /\ new.since = seq
        /\ new.page = 0 /\ new.kvs = {} /\ new.mine = {} /\ ~new.cut
    <2>1. Ready \in Operation
      BY ReadyOK DEF ReadsInv
    <2>2. (IF kind = "count" THEN "count" ELSE "rows") \in {"count", "rows"}
      OBVIOUS
    <2>3. new \in Operation
      BY <1>2, <1>3, <2>1, <2>2 DEF Operation
    <2> QED BY <2>3 DEF Ready
  <1> HIDE DEF new
  <1>6. RequestOK(new) /\ RevisionOK(new)
    BY <1>1, <1>2, <1>3, <1>5 DEF RequestOK, RevisionOK, IsTxn, GetsOne, Later
  <1>7. RowsOK(new) /\ PageOK(new) /\ RefusedOK(new) /\ MineOK(new) /\ CountOK(new)
    BY <1>1, <1>2, <1>5 DEF RowsOK, PageOK, RefusedOK, MineOK, CountOK, IsTxn
  <1>8. OperationOK(new)
    BY <1>6, <1>7 DEF OperationOK
  <1> QED BY <1>4, <1>5, <1>8, QuietStep

\* A request in progress asks for client keys.
LEMMA KeysAreClientKeys ==
    ASSUME NEW o \in Operation, RequestOK(o), o.pc # "idle"
    PROVE  KeyRange(o.req) \in SUBSET Keys /\ KeysOf(o) \in SUBSET Keys
  BY DEF RequestOK, KeyRange, KeysOf, Operation, Request

\* A refused transaction does not find the version it compared with.
LEMMA RefusedReadsAnother ==
    ASSUME IInv, NEW o \in Operation, OperationOK(o), o.pc = "rows",
           o.req.kind \in {"update", "delete"}
    PROVE  \A r \in RowsAt(kine, KeysOf(o), o.rev) : r.id # o.req.rev
  <1> SUFFICES ASSUME NEW r \in RowsAt(kine, KeysOf(o), o.rev), r.id = o.req.rev
               PROVE  FALSE
    OBVIOUS
  <1>1. o.rev = 0 /\ KeysOf(o) = {o.req.key} /\ o.req.key \in Keys
    <2>1. GetsOne(o.req) /\ IsTxn(o.req)
      BY DEF GetsOne, IsTxn
    <2>2. ~o.counting /\ o.rev = 0 /\ o.req.key \in Keys
      BY <2>1 DEF OperationOK, RevisionOK, RequestOK
    <2>3. KeyRange(o.req) = {o.req.key}
      BY <2>1, <2>2, ReadsAssumption DEF KeyRange
    <2> QED BY <2>2, <2>3 DEF KeysOf
  <1>2. r \in Latest(kine, {o.req.key}) /\ ~r.deleted
    BY <1>1 DEF RowsAt, ListCurrent
  <1>3. r \in Latest(log, {o.req.key})
    BY <1>1, <1>2, LatestAgree
  <1>4. r \in log /\ r.name = o.req.key /\ \A q \in log : q.name = r.name => q.id <= r.id
    BY <1>3 DEF Latest, Named
  <1>5. PICK q \in log : q.name = o.req.key /\ r.id < q.id
    BY <1>2, <1>4 DEF OperationOK, RefusedOK, IsTxn
  <1>6. q.id <= r.id /\ q.id \in Nat /\ r.id \in Nat
    BY <1>4, <1>5 DEF IInv, TypeOK, Row
  <1> QED BY <1>5, <1>6

LEMMA ReadRowsKeeps ==
    ASSUME ReadsInv, NEW c \in Clients, ReadRows(c)
    PROVE  ReadsInv'
  <1> DEFINE o == op[c]
             S == RowsAt(kine, KeysOf(o), o.rev)
             A == First(S, QueryLimit(o))
  <1>1. /\ IInv /\ o \in Operation /\ OperationOK(o) /\ o.pc = "rows"
        /\ UNCHANGED storeVars
    BY DEF ReadsInv, ReadRows, Is
  <1>2. PICK R \in SUBSET A :
           /\ InitialPart(R, A)
           /\ Set(c, [o EXCEPT !.pc = "interval", !.rows = R, !.cut = R # A])
    BY DEF ReadRows, KeysOf
  <1> DEFINE cut == R # A
             new == [o EXCEPT !.pc = "interval", !.rows = R, !.cut = cut]
  <1>3. KeysOf(o) \in SUBSET Keys /\ o.rev \in Nat /\ seq \in Nat
        /\ o.since \in Nat /\ o.since <= seq /\ compactRev \in Nat
        /\ (o.rev <= seq \/ (Later(o) /\ o.rev = o.req.rev)) /\ o.req.rev \in Nat
    BY <1>1, KeysAreClientKeys
       DEF OperationOK, RevisionOK, Operation, Request, IInv, TypeOK, KineInv
  <1>4. R \in SUBSET S /\ IsFiniteSet(R) /\ R \in SUBSET Row
    <2>1. R \in SUBSET S
      BY DEF First
    <2>2. IsFiniteSet(S) /\ S \subseteq Row
      BY <1>1, <1>3, ListsFinite
    <2> HIDE DEF S
    <2> QED BY <2>1, <2>2, FS_Subset
  <1>5. /\ o.rev = 0 => S = List(log, KeysOf(o), seq)
        /\ o.rev > 0 => o.rev < compactRev \/ S = List(log, KeysOf(o), o.rev)
    BY <1>1, <1>3, RowsAreThoseOfTheHistory
  <1>6. o.req.kind \in {"update", "delete"} => \A r \in R : r.id # o.req.rev
    <2>1. o.req.kind \in {"update", "delete"} => \A r \in S : r.id # o.req.rev
      BY <1>1, RefusedReadsAnother
    <2> QED BY <1>4, <2>1
  <1>7. cut \in BOOLEAN /\ (R = A <=> ~cut)
    OBVIOUS
  <1> HIDE DEF S, cut
  <1>8. /\ new \in Operation /\ new.pc = "interval" /\ new.rows = R /\ new.cut = cut
        /\ new.req = o.req /\ new.counting = o.counting /\ new.rev = o.rev /\ new.ok = o.ok
        /\ new.kvs = o.kvs /\ new.page = o.page /\ new.head = o.head /\ new.count = o.count
        /\ new.since = o.since /\ new.mine = o.mine
    BY <1>1, <1>4, <1>7 DEF Operation
  <1> HIDE DEF new, o
  <1>9. /\ KeysOf(new) = KeysOf(o) /\ QueryLimit(new) = QueryLimit(o)
        /\ CountRev(new) = CountRev(o) /\ (Later(new) <=> Later(o))
        /\ \A top : FirstCount(new, top) = FirstCount(o, top)
    BY <1>8 DEF KeysOf, QueryLimit, CountRev, Later, FirstCount
  <1>10. RequestOK(new)
    BY <1>1, <1>8 DEF OperationOK, RequestOK
  <1>11. RevisionOK(new)
    BY <1>1, <1>8, <1>9 DEF OperationOK, RevisionOK
  <1>12. RowsOK(new)
    <2>1. ASSUME NEW rev, S = List(log, KeysOf(o), rev) PROVE ReadFrom(new, rev)
      <3>1. AllOf(new, rev) = A
        BY <1>9, <2>1 DEF AllOf
      <3> HIDE DEF A
      <3>2. InitialPart(new.rows, AllOf(new, rev))
        BY <1>2, <1>8, <3>1
      <3>3. new.rows = AllOf(new, rev) <=> ~new.cut
        BY <1>7, <1>8, <3>1
      <3> QED BY <3>2, <3>3 DEF ReadFrom
    <2>2. seq \in o.since..seq
      BY <1>3
    <2>3. CASE o.rev = 0
      <3>1. ReadFrom(new, seq)
        BY <1>5, <2>1, <2>3
      <3> QED BY <1>4, <1>6, <1>8, <2>2, <2>3, <3>1 DEF RowsOK, Moving
    <2>4. CASE 0 < o.rev /\ o.rev < compactRev
      BY <1>3, <1>4, <1>6, <1>8, <2>4 DEF RowsOK
    <2>5. CASE 0 < o.rev /\ ~(o.rev < compactRev)
      <3>1. ReadFrom(new, o.rev) /\ S = List(log, KeysOf(o), o.rev)
        BY <1>5, <2>1, <2>5
      <3>2. ASSUME Moving(new)
            PROVE  \E rev \in new.since..seq : (0 < new.rev => rev <= new.rev) /\ ReadFrom(new, rev)
        <4>1. Later(o) /\ o.since <= o.rev
          <5>1. Later(o) /\ ~o.counting
            BY <1>8, <1>9, <2>5, <3>2 DEF Moving
          <5>2. IsTxn(o.req) => o.rev = 0
            BY <1>1 DEF OperationOK, RevisionOK
          <5>3. o.req.kind \in {"list", "get"}
            BY <1>1, <2>5, <5>1, <5>2 DEF OperationOK, RevisionOK, IsTxn, Operation, Request
          <5>4. o.rev = o.req.rev
            BY <1>1, <1>3, <5>1, <5>3 DEF OperationOK, RevisionOK, Later
          <5> QED BY <1>3, <5>1, <5>4 DEF Later
        <4>2. CASE o.rev <= seq
          BY <1>3, <1>8, <3>1, <4>1, <4>2
        <4>3. CASE ~(o.rev <= seq)
          <5>1. seq <= o.rev
            BY <1>3, <4>3
          <5>2. S = List(log, KeysOf(o), seq)
            BY <1>1, <1>3, <3>1, <5>1, LaterIsNewest
          <5> QED BY <1>8, <2>1, <2>2, <5>1, <5>2
        <4> QED BY <4>2, <4>3
      <3> QED BY <1>4, <1>6, <1>8, <3>1, <3>2 DEF RowsOK
    <2> QED BY <1>3, <2>3, <2>4, <2>5
  <1>13. PageOK(new)
    <2>1. CASE o.page = 0
      BY <1>1, <1>8, <2>1 DEF OperationOK, PageOK
    <2>2. CASE o.page # 0
      <3>1. o.counting
        BY <1>1, <2>2 DEF OperationOK, RevisionOK
      <3>2. \A rev : Answers(o, rev) <=> Answers(new, rev)
        BY <1>8, <3>1 DEF Answers
      <3> QED BY <1>1, <1>8, <1>9, <3>2 DEF OperationOK, PageOK
    <2> QED BY <2>1, <2>2
  <1>14. RefusedOK(new) /\ MineOK(new)
    BY <1>1, <1>8 DEF OperationOK, RefusedOK, MineOK
  <1>15. CountOK(new)
    BY <1>1, <1>8, <1>9 DEF OperationOK, CountOK
  <1>16. OperationOK(new)
    BY <1>10, <1>11, <1>12, <1>13, <1>14, <1>15 DEF OperationOK
  <1>17. Set(c, new)
    BY <1>2 DEF new, o, cut
  <1> QED BY <1>1, <1>8, <1>16, <1>17, QuietStep

LEMMA RelistKeeps ==
    ASSUME ReadsInv, NEW c \in Clients, Relist(c)
    PROVE  ReadsInv'
  <1> DEFINE o == op[c]
             new == [o EXCEPT !.pc = "rows", !.rev = seq]
  <1>1. /\ IInv /\ o \in Operation /\ OperationOK(o) /\ o.pc = "relist"
        /\ Set(c, new) /\ UNCHANGED storeVars
    BY MaxIdIsSeq DEF ReadsInv, Relist, Is
  <1>2. seq \in Nat /\ 0 < seq
    BY <1>1 DEF OperationOK, RevisionOK, IInv, TypeOK
  <1>3. /\ new \in Operation /\ new.pc = "rows" /\ new.rev = seq
        /\ new.req = o.req /\ new.counting = o.counting /\ new.rows = o.rows /\ new.ok = o.ok
        /\ new.cut = o.cut
        /\ new.kvs = o.kvs /\ new.page = o.page /\ new.head = o.head /\ new.count = o.count
        /\ new.since = o.since /\ new.mine = o.mine
    BY <1>1, <1>2 DEF Operation
  <1> HIDE DEF new, o
  <1>4. /\ CountRev(new) = CountRev(o) /\ (Later(new) <=> Later(o))
        /\ \A top : FirstCount(new, top) = FirstCount(o, top)
        /\ \A rev : Answers(o, rev) <=> Answers(new, rev)
    BY <1>3 DEF CountRev, Later, FirstCount, Answers
  <1>5. RequestOK(new)
    BY <1>1, <1>3 DEF OperationOK, RequestOK
  <1>6. RevisionOK(new)
    BY <1>1, <1>2, <1>3, <1>4 DEF OperationOK, RevisionOK, IsTxn, GetsOne, Operation
  <1>7. RowsOK(new) /\ PageOK(new)
    BY <1>1, <1>3, <1>4 DEF OperationOK, PageOK, RowsOK
  <1>8. RefusedOK(new) /\ MineOK(new)
    BY <1>1, <1>3 DEF OperationOK, RefusedOK, MineOK, RevisionOK, IsTxn, GetsOne
  <1>9. CountOK(new)
    <2>1. \A r \in FirstCount(o, seq) : r <= seq
      BY <1>1, <1>2 DEF FirstCount, OperationOK, RevisionOK, Operation, Request, CountRev
    <2> QED BY <1>1, <1>3, <1>4, <2>1 DEF OperationOK, CountOK
  <1>10. OperationOK(new)
    BY <1>5, <1>6, <1>7, <1>8, <1>9 DEF OperationOK
  <1> QED BY <1>1, <1>3, <1>10, QuietStep

LEMMA CountRowsKeeps ==
    ASSUME ReadsInv, NEW c \in Clients, CountRows(c)
    PROVE  ReadsInv'
  <1> DEFINE o == op[c]
             S == RowsAt(kine, KeyRange(o.req), o.rev)
             n == Cardinality(S)
  <1>1. /\ IInv /\ o \in Operation /\ OperationOK(o) /\ o.pc = "count"
        /\ Set(c, IF n = 0 THEN [o EXCEPT !.pc = "relist"]
                           ELSE [o EXCEPT !.pc = "done", !.count = n, !.head = seq])
        /\ UNCHANGED storeVars
    BY MaxIdIsSeq DEF ReadsInv, CountRows, Is
  <1>2. KeyRange(o.req) \in SUBSET Keys /\ o.rev \in Nat /\ seq \in Nat /\ 0 < seq
        /\ o.page \in Nat /\ (o.page <= seq \/ Later(o)) /\ compactRev \in Nat
        /\ o.since \in Nat /\ o.since <= seq
    BY <1>1, KeysAreClientKeys DEF OperationOK, RevisionOK, Operation, IInv, TypeOK, KineInv
  <1>3. /\ o.rev = 0 => S = List(log, KeyRange(o.req), seq)
        /\ o.rev > 0 => o.rev < compactRev \/ S = List(log, KeyRange(o.req), o.rev)
    BY <1>1, <1>2, RowsAreThoseOfTheHistory
  <1>4. n \in Nat /\ (n = 0 => S = {})
    BY <1>1, <1>2, ListsFinite, FS_CardinalityType, FS_EmptySet
  <1>5. o.counting /\ ~o.cut /\ o.rev = CountRev(o) /\ ~GetsOne(o.req)
    BY <1>1 DEF OperationOK, RevisionOK, CountRev
  <1> DEFINE asked == IF CountRev(o) \in 1..seq THEN CountRev(o) ELSE seq
  <1>a. CountRev(o) \in 1..(compactRev - 1) \/ S = List(log, KeyRange(o.req), asked)
    <2>1. CASE o.rev = 0
      BY <1>2, <1>3, <1>5, <2>1
    <2>2. CASE 0 < o.rev /\ o.rev < compactRev
      BY <1>2, <1>5, <2>2
    <2>3. CASE 0 < o.rev /\ ~(o.rev < compactRev) /\ o.rev <= seq
      <3>1. asked = o.rev
        BY <1>2, <1>5, <2>3
      <3> QED BY <1>3, <2>3, <3>1
    <2>4. CASE 0 < o.rev /\ ~(o.rev < compactRev) /\ ~(o.rev <= seq)
      <3>1. asked = seq /\ seq <= o.rev
        BY <1>2, <1>5, <2>4
      <3> QED BY <1>1, <1>2, <1>3, <2>4, <3>1, LaterIsNewest
    <2> QED BY <1>2, <2>1, <2>2, <2>3, <2>4
  <1>b. asked \in FirstCount(o, seq)
    BY <1>2 DEF FirstCount, CountRev
  <1> HIDE DEF S, asked
  <1>6. CASE n = 0
    <2> DEFINE new == [o EXCEPT !.pc = "relist"]
    <2>1. Set(c, new)
      BY <1>1, <1>6
    <2>2. /\ new \in Operation /\ new.pc = "relist"
          /\ new.req = o.req /\ new.counting = o.counting /\ new.rev = o.rev
          /\ new.rows = o.rows /\ new.ok = o.ok /\ new.cut = o.cut
          /\ new.kvs = o.kvs /\ new.page = o.page /\ new.head = o.head /\ new.count = o.count
          /\ new.since = o.since /\ new.mine = o.mine
      BY <1>1 DEF Operation
    <2> HIDE DEF new, o
    <2>3. /\ CountRev(new) = CountRev(o) /\ (Later(new) <=> Later(o))
          /\ \A top : FirstCount(new, top) = FirstCount(o, top)
          /\ \A rev : Answers(o, rev) <=> Answers(new, rev)
      BY <2>2 DEF CountRev, Later, FirstCount, Answers
    <2>4. RequestOK(new)
      BY <1>1, <2>2 DEF OperationOK, RequestOK
    <2>5. RevisionOK(new)
      BY <1>1, <1>5, <2>2, <2>3 DEF OperationOK, RevisionOK
    <2>6. RowsOK(new) /\ PageOK(new)
      BY <1>1, <2>2, <2>3 DEF OperationOK, PageOK, RowsOK
    <2>7. RefusedOK(new) /\ MineOK(new)
      BY <1>1, <2>2 DEF OperationOK, RefusedOK, MineOK
    <2>8. CountOK(new)
      <3>1. \/ CountRev(new) \in 1..(compactRev - 1)
            \/ \E r \in FirstCount(new, seq) : List(log, KeyRange(new.req), r) = {}
        BY <1>4, <1>6, <1>a, <1>b, <2>2, <2>3
      <3> QED BY <2>2, <3>1 DEF CountOK
    <2>9. OperationOK(new)
      BY <2>4, <2>5, <2>6, <2>7, <2>8 DEF OperationOK
    <2> QED BY <1>1, <2>1, <2>2, <2>9, QuietStep
  <1>7. CASE n # 0
    <2> DEFINE new == [o EXCEPT !.pc = "done", !.count = n, !.head = seq]
    <2>1. Set(c, new)
      BY <1>1, <1>7
    <2> HIDE DEF n
    <2>2. /\ new \in Operation /\ new.pc = "done" /\ new.count = n /\ new.head = seq
          /\ new.req = o.req /\ new.counting = o.counting /\ new.rev = o.rev
          /\ new.rows = o.rows /\ new.ok = o.ok /\ new.cut = o.cut
          /\ new.kvs = o.kvs /\ new.page = o.page
          /\ new.since = o.since /\ new.mine = o.mine
      BY <1>1, <1>2, <1>4 DEF Operation
    <2> HIDE DEF new, o
    <2>3. /\ CountRev(new) = CountRev(o) /\ (Later(new) <=> Later(o))
          /\ \A top : FirstCount(new, top) = FirstCount(o, top)
          /\ \A rev : Answers(o, rev) <=> Answers(new, rev)
      BY <2>2 DEF CountRev, Later, FirstCount, Answers
    <2>4. RequestOK(new)
      BY <1>1, <2>2 DEF OperationOK, RequestOK
    <2>5. RevisionOK(new)
      BY <1>1, <1>5, <2>2, <2>3 DEF OperationOK, RevisionOK, GetsOne
    <2>6. RowsOK(new) /\ PageOK(new)
      BY <1>1, <2>2, <2>3 DEF OperationOK, PageOK, RowsOK
    <2>7. RefusedOK(new) /\ MineOK(new)
      BY <1>1, <2>2 DEF OperationOK, RefusedOK, MineOK
    <2>8. CountOK(new)
      <3>1. \/ CountRev(new) \in 1..(compactRev - 1)
            \/ new.count = Cardinality(List(log, KeyRange(new.req), asked))
        BY <1>a, <2>2, <2>3 DEF n
      <3>2. asked = IF CountRev(new) \in 1..new.head THEN CountRev(new) ELSE new.head
        BY <2>2, <2>3 DEF asked
      <3>3. ~new.cut /\ new.since <= new.head /\ new.head <= seq
        BY <1>2, <1>5, <2>2
      <3>4. Later(new) \/ new.page <= new.head
        BY <1>2, <2>2, <2>3
      <3> QED BY <2>2, <3>1, <3>2, <3>3, <3>4 DEF CountOK
    <2>9. OperationOK(new)
      BY <2>4, <2>5, <2>6, <2>7, <2>8 DEF OperationOK
    <2> QED BY <1>1, <2>1, <2>2, <2>9, QuietStep
  <1> QED BY <1>6, <1>7

\* The rows a list has read make up a page, with the extra row cut off, or the
\* beginning of a page.
LEMMA RowsMakeAPage ==
    ASSUME IInv, NEW o \in Operation, OperationOK(o), o.pc = "interval", ~o.counting,
           NEW rev \in Nat, ReadFrom(o, rev)
    PROVE  /\ ~HasMore(o) => /\ InitialPart(o.rows, PageAt(o.req, rev))
                             /\ o.rows = PageAt(o.req, rev) \/ o.cut
           /\ HasMore(o) => /\ First(o.rows, o.req.limit) = PageAt(o.req, rev)
                            /\ First(o.rows, o.req.limit) # {}
                            /\ ~o.cut
  <1> DEFINE S == List(log, KeyRange(o.req), rev)
             n == o.req.limit
             A == AllOf(o, rev)
  <1>1. n \in Nat /\ KeyRange(o.req) \in SUBSET Keys /\ IsFiniteSet(o.rows)
    BY KeysAreClientKeys DEF Operation, Request, OperationOK, RowsOK
  <1>2. /\ IsFiniteSet(S) /\ \A r \in S : Rank[r.name] \in Nat
        /\ \A r, q \in S : Rank[r.name] = Rank[q.name] => r = q
    BY <1>1, ListsFinite, ListOrdered
  <1>3. A = First(S, IF n > 0 THEN n + 1 ELSE 0) /\ PageAt(o.req, rev) = First(S, n)
    BY DEF KeysOf, QueryLimit, PageAt, AllOf
  <1>4. InitialPart(o.rows, A) /\ (o.rows = A \/ o.cut) /\ (o.rows = A => ~o.cut)
    BY DEF ReadFrom
  <1> HIDE DEF S, A
  <1>5. CASE n = 0
    BY <1>3, <1>4, <1>5 DEF HasMore
  <1>6. CASE n > 0
    <2>1. A = First(S, n + 1) /\ n \in Nat \ {0}
      BY <1>1, <1>3, <1>6
    <2>2. o.rows \subseteq A /\ A \subseteq S /\ Cardinality(o.rows) \in Nat
      BY <1>1, <1>4, <2>1, FS_CardinalityType DEF First, InitialPart
    <2>3. First(A, n) = First(S, n)
      BY <1>2, <2>1, FirstTwice
    <2>4. ASSUME ~(Cardinality(o.rows) > n)
          PROVE  InitialPart(o.rows, First(S, n)) /\ (o.rows = First(S, n) \/ o.cut)
      <3>1. InitialPart(o.rows, First(S, n))
        BY <1>1, <1>2, <1>4, <2>1, <2>4, ShortPartIsPart
      <3>2. o.rows = A => o.rows = First(S, n)
        BY <1>2, <2>1, <2>4, FirstShort
      <3> QED BY <1>4, <3>1, <3>2
    <2>5. ASSUME Cardinality(o.rows) > n
          PROVE  First(o.rows, n) = First(S, n) /\ First(o.rows, n) # {} /\ ~o.cut
      <3>1. o.rows = A
        BY <1>2, <2>1, <2>2, <2>5, ExtraRowIsLast
      <3>2. o.rows # {}
        BY <1>1, <2>5, FS_EmptySet
      <3>3. \A r \in o.rows : Rank[r.name] \in Nat
        BY <1>2, <2>2
      <3>4. First(o.rows, n) # {}
        BY <2>1, <3>2, <3>3, FirstOfSome
      <3> QED BY <1>4, <2>3, <3>1, <3>4
    <2> QED BY <1>3, <1>6, <2>4, <2>5 DEF HasMore
  <1> QED BY <1>1, <1>5, <1>6

\* The answer to a list or a get is right about the revision it names.
LEMMA AnswerIsRight ==
    ASSUME IInv, NEW o \in Operation, OperationOK(o), o.pc = "interval", ~o.counting,
           ~(~GetsOne(o.req) /\ IsCompacted(o.rev)),
           NEW new \in Operation, new.req = o.req, new.since = o.since,
           new.page = IF o.rev = 0 THEN seq ELSE o.rev,
           \A rev \in Nat : ReadFrom(o, rev) => Answers(new, rev),
           new.kvs = {} => ~(o.req.kind = "list" /\ o.rev = 0),
           new.kvs \subseteq o.rows
    PROVE  PageOK(new)
  <1>1. /\ o.rev \in Nat /\ o.since \in Nat /\ o.req.rev \in Nat /\ seq \in Nat
        /\ 0 < seq /\ o.since <= seq
        /\ compactRev \in Nat /\ new.page \in Nat
    BY DEF Operation, Request, OperationOK, RevisionOK, IInv, TypeOK, KineInv
  <1>2. new.page > 0
    BY <1>1
  <1>3. Later(new) <=> Later(o)
    BY DEF Later
  <1>4. ASSUME Moving(o), ~(0 < o.rev /\ o.rev < compactRev)
        PROVE  \E rev \in o.since..seq : rev <= new.page /\ Answers(new, rev)
    <2>1. PICK rev \in o.since..seq : (0 < o.rev => rev <= o.rev) /\ ReadFrom(o, rev)
      BY <1>4 DEF OperationOK, RowsOK
    <2>2. rev \in Nat /\ rev <= new.page
      BY <1>1, <2>1
    <2> QED BY <2>1, <2>2
  <1>5. ASSUME ~Moving(o), ~(o.rev < compactRev)
        PROVE  new.page = o.rev /\ o.rev <= seq /\ Answers(new, o.rev)
    <2>1. ReadFrom(o, o.rev)
      BY <1>5 DEF OperationOK, RowsOK
    <2>2. o.rev # 0 /\ o.rev <= seq
      BY <1>5 DEF Moving, OperationOK, RevisionOK
    <2> QED BY <1>1, <2>1, <2>2
  <1>6. o.rev > 0 /\ ~GetsOne(o.req) => ~(o.rev < compactRev)
    BY DEF IsCompacted, compactRev
  <1>7. o.req.kind = "list" => ~GetsOne(o.req) /\
           (o.rev = o.req.rev \/ (o.req.rev = 0 /\ o.since <= o.rev))
    BY DEF GetsOne, OperationOK, RevisionOK
  <1>8. o.req.kind = "get" => o.rev = o.req.rev
    BY DEF OperationOK, RevisionOK
  <1>9. IsTxn(o.req) => o.rev = 0
    BY DEF OperationOK, RevisionOK
  <1>10. ASSUME o.req.kind = "list", o.req.rev \in 1..o.since \/ (o.req.rev = 0 /\ new.kvs = {})
         PROVE  Answers(new, new.page)
    <2>1. o.rev > 0 /\ ~Later(o)
      BY <1>1, <1>7, <1>10 DEF Later
    <2>2. ~Moving(o) /\ ~(o.rev < compactRev)
      BY <1>6, <1>7, <1>10, <2>1 DEF Moving
    <2> QED BY <1>5, <2>2
  <1>11. ASSUME o.req.kind = "get", o.req.rev \in 1..o.since
         PROVE  o.req.rev < compactRev \/ Answers(new, o.req.rev)
    <2>1. ~Moving(o)
      BY <1>1, <1>8, <1>11 DEF Moving, Later
    <2> QED BY <1>5, <1>8, <1>11, <2>1
  <1>12. ASSUME o.req.kind \in {"list", "get"} => o.req.rev = 0 \/ Later(o), o.req.kind # "count"
         PROVE  \/ o.req.kind = "get" /\ 0 < o.req.rev /\ o.req.rev < compactRev
                \/ \E rev \in o.since..seq : rev <= new.page /\ Answers(new, rev)
    <2>1. CASE Moving(o)
      <3>1. CASE 0 < o.rev /\ o.rev < compactRev
        <4>1. o.req.kind = "get"
          BY <1>6, <1>7, <1>9, <1>12, <3>1 DEF IsTxn, Operation, Request
        <4> QED BY <1>8, <3>1, <4>1
      <3>2. CASE ~(0 < o.rev /\ o.rev < compactRev)
        BY <1>4, <2>1, <3>2
      <3> QED BY <3>1, <3>2
    <2>2. CASE ~Moving(o)
      <3>1. o.rev > 0 /\ ~Later(o)
        BY <1>1, <2>2 DEF Moving
      <3>2. o.req.kind = "list" /\ o.req.rev = 0
        BY <1>8, <1>9, <1>12, <3>1 DEF IsTxn, Operation, Request
      <3>3. o.since <= o.rev
        BY <1>1, <1>7, <3>1, <3>2
      <3>4. new.page = o.rev /\ o.rev <= seq /\ Answers(new, o.rev)
        BY <1>5, <1>6, <1>7, <2>2, <3>1, <3>2
      <3> QED BY <1>1, <3>3, <3>4
    <2> QED BY <2>1, <2>2
  <1>13. o.req.kind \in {"update", "delete"} => \A r \in new.kvs : r.id # o.req.rev
    BY DEF OperationOK, RowsOK
  <1> QED BY <1>1, <1>2, <1>3, <1>10, <1>11, <1>12, <1>13 DEF PageOK

LEMMA ReadRevisionKeeps ==
    ASSUME ReadsInv, NEW c \in Clients, ReadRevision(c)
    PROVE  ReadsInv'
  <1> DEFINE o == op[c]
             head == IF o.rev = 0 THEN seq ELSE o.rev
             n == Cardinality(o.rows)
             compacted == ~GetsOne(o.req) /\ IsCompacted(o.rev)
             relist == o.req.kind = "list" /\ o.rev = 0 /\ o.rows = {}
  <1>1. /\ IInv /\ o \in Operation /\ OperationOK(o) /\ o.pc = "interval"
        /\ UNCHANGED storeVars
    BY DEF ReadsInv, ReadRevision, Is
  <1>2. \/ compacted /\ Set(c, [o EXCEPT !.pc = "done", !.ok = FALSE])
        \/ relist /\ Set(c, [o EXCEPT !.pc = "relist"])
        \/ /\ HasMore(o) /\ ~compacted
           /\ Set(c, [o EXCEPT !.pc = "count", !.counting = TRUE, !.rev = head,
                               !.page = head, !.kvs = First(o.rows, o.req.limit)])
        \/ /\ ~compacted /\ ~relist /\ o.counting
           /\ Set(c, [o EXCEPT !.pc = "done", !.head = head, !.count = n])
        \/ /\ ~compacted /\ ~relist /\ ~HasMore(o) /\ ~o.counting
           /\ Set(c, [o EXCEPT !.pc = "done", !.head = head, !.count = n,
                               !.page = head, !.kvs = o.rows])
    <2>1. MaxId(kine) = seq
      BY <1>1, MaxIdIsSeq
    <2> QED BY <2>1 DEF ReadRevision
  <1>3. /\ o.rev \in Nat /\ o.page \in Nat /\ seq \in Nat /\ 0 < seq
        /\ o.since \in Nat /\ o.req.rev \in Nat /\ compactRev \in Nat
        /\ o.rev <= seq \/ (Later(o) /\ o.rev = o.req.rev)
        /\ head \in Nat /\ 0 < head
        /\ head <= seq \/ (Later(o) /\ head = o.req.rev)
    BY <1>1 DEF OperationOK, RevisionOK, Operation, Request, IInv, TypeOK, KineInv
  <1>4. n \in Nat /\ o.rows \in SUBSET Row
    BY <1>1, FS_CardinalityType DEF OperationOK, RowsOK, Operation
  <1> HIDE DEF n, head
  <1>5. CASE compacted /\ Set(c, [o EXCEPT !.pc = "done", !.ok = FALSE])
    <2> DEFINE new == [o EXCEPT !.pc = "done", !.ok = FALSE]
    <2>1. Set(c, new) /\ ~GetsOne(o.req)
      BY <1>5
    <2>2. /\ new \in Operation /\ new.pc = "done" /\ ~new.ok /\ new.cut = o.cut
          /\ new.req = o.req /\ new.counting = o.counting /\ new.rev = o.rev
          /\ new.kvs = o.kvs /\ new.page = o.page /\ new.head = o.head
          /\ new.since = o.since /\ new.mine = o.mine
      BY <1>1 DEF Operation
    <2> HIDE DEF new, o
    <2>3. RequestOK(new)
      BY <1>1, <2>2 DEF OperationOK, RequestOK
    <2>4. RevisionOK(new)
      BY <1>1, <2>1, <2>2 DEF OperationOK, RevisionOK, GetsOne, Later
    <2>5. RowsOK(new) /\ PageOK(new)
      <3>1. \A rev : Answers(o, rev) <=> Answers(new, rev)
        BY <2>2 DEF Answers
      <3> QED BY <1>1, <2>2, <3>1 DEF OperationOK, PageOK, RowsOK, Later
    <2>6. RefusedOK(new) /\ MineOK(new) /\ CountOK(new)
      BY <1>1, <2>2 DEF OperationOK, RefusedOK, MineOK, CountOK
    <2>7. OperationOK(new)
      BY <2>3, <2>4, <2>5, <2>6 DEF OperationOK
    <2> QED BY <1>1, <2>1, <2>2, <2>7, QuietStep
  <1>6. CASE relist /\ Set(c, [o EXCEPT !.pc = "relist"])
    <2> DEFINE new == [o EXCEPT !.pc = "relist"]
    <2>1. Set(c, new) /\ o.req.kind = "list" /\ o.rev = 0
      BY <1>6
    <2>2. /\ new \in Operation /\ new.pc = "relist" /\ new.ok = o.ok /\ new.cut = o.cut
          /\ new.req = o.req /\ new.counting = o.counting /\ new.rev = o.rev
          /\ new.kvs = o.kvs /\ new.page = o.page /\ new.head = o.head
          /\ new.since = o.since /\ new.mine = o.mine
      BY <1>1 DEF Operation
    <2> HIDE DEF new, o
    <2>3. ~o.counting
      BY <1>1, <2>1 DEF OperationOK, RevisionOK
    <2>4. RequestOK(new)
      BY <1>1, <2>2 DEF OperationOK, RequestOK
    <2>5. RevisionOK(new)
      BY <1>1, <1>3, <2>1, <2>2, <2>3 DEF OperationOK, RevisionOK, GetsOne, Later
    <2>6. RowsOK(new) /\ PageOK(new)
      <3>1. \A rev : Answers(o, rev) <=> Answers(new, rev)
        BY <2>2 DEF Answers
      <3> QED BY <1>1, <2>2, <3>1 DEF OperationOK, PageOK, RowsOK, Later
    <2>7. RefusedOK(new) /\ MineOK(new) /\ CountOK(new)
      BY <1>1, <2>2, <2>3 DEF OperationOK, RefusedOK, MineOK, CountOK
    <2>8. OperationOK(new)
      BY <2>4, <2>5, <2>6, <2>7 DEF OperationOK
    <2> QED BY <1>1, <2>1, <2>2, <2>8, QuietStep
  <1>7. CASE /\ HasMore(o) /\ ~compacted
             /\ Set(c, [o EXCEPT !.pc = "count", !.counting = TRUE, !.rev = head,
                                 !.page = head, !.kvs = First(o.rows, o.req.limit)])
    <2> DEFINE kvs == First(o.rows, o.req.limit)
               new == [o EXCEPT !.pc = "count", !.counting = TRUE, !.rev = head,
                                !.page = head, !.kvs = kvs]
    <2>1. Set(c, new) /\ HasMore(o) /\ ~o.counting /\ o.req.limit > 0
      BY <1>7 DEF HasMore
    <2>2. kvs \subseteq o.rows
      BY DEF First
    <2>3. o.req.kind = "list" /\ ~GetsOne(o.req)
      BY <1>1, <2>1 DEF OperationOK, RevisionOK, RequestOK, GetsOne, Operation, Request
    <2>4. ASSUME NEW rev \in Nat, ReadFrom(o, rev)
          PROVE  kvs = PageAt(o.req, rev) /\ kvs # {} /\ ~o.cut
      BY <1>1, <2>1, <2>4, RowsMakeAPage
    <2>5. kvs # {} /\ ~o.cut
      <3>1. ~(0 < o.rev /\ o.rev < compactRev)
        BY <1>7, <2>3 DEF IsCompacted, compactRev
      <3>2. \E rev \in Nat : ReadFrom(o, rev)
        <4>1. CASE Moving(o)
          <5>1. PICK rev \in o.since..seq : ReadFrom(o, rev)
            BY <1>1, <3>1, <4>1 DEF OperationOK, RowsOK
          <5>2. rev \in Nat
            BY <1>3
          <5> QED BY <5>1, <5>2
        <4>2. CASE ~Moving(o)
          BY <1>1, <1>3, <3>1, <4>2 DEF OperationOK, RowsOK, Moving
        <4> QED BY <4>1, <4>2
      <3> QED BY <2>4, <3>2
    <2> HIDE DEF kvs
    <2>6. /\ new \in Operation /\ new.pc = "count" /\ new.counting /\ new.rev = head
          /\ new.page = head /\ new.kvs = kvs /\ ~new.cut
          /\ new.req = o.req /\ new.ok = o.ok /\ new.head = o.head
          /\ new.since = o.since /\ new.mine = o.mine
      BY <1>1, <1>3, <1>4, <2>2, <2>5 DEF Operation
    <2> HIDE DEF new
    <2>7. PageOK(new)
      <3>1. ASSUME NEW rev \in Nat, ReadFrom(o, rev) PROVE Answers(new, rev)
        BY <2>4, <2>6, <3>1 DEF Answers, InitialPart
      <3> QED BY <1>1, <1>7, <2>1, <2>2, <2>5, <2>6, <3>1, AnswerIsRight DEF head
    <2> HIDE DEF o
    <2>8. RequestOK(new)
      BY <1>1, <2>6 DEF OperationOK, RequestOK
    <2>9. RevisionOK(new)
      BY <1>1, <1>3, <2>3, <2>6 DEF OperationOK, RevisionOK, IsTxn, Later
    <2>10. RowsOK(new) /\ RefusedOK(new) /\ MineOK(new) /\ CountOK(new)
      BY <1>1, <2>6 DEF OperationOK, RowsOK, RefusedOK, MineOK, CountOK
    <2>11. OperationOK(new)
      BY <2>7, <2>8, <2>9, <2>10 DEF OperationOK
    <2> QED BY <1>1, <2>1, <2>6, <2>11, QuietStep
  <1>8. CASE /\ ~compacted /\ ~relist /\ o.counting
             /\ Set(c, [o EXCEPT !.pc = "done", !.head = head, !.count = n])
    <2> DEFINE new == [o EXCEPT !.pc = "done", !.head = head, !.count = n]
    <2>1. Set(c, new) /\ o.counting
      BY <1>8
    <2>2. /\ ~GetsOne(o.req) /\ 0 < o.rev /\ head = o.rev
          /\ o.since <= o.rev /\ o.rev <= seq /\ (Later(o) \/ o.page <= o.rev)
      BY <1>1, <1>3, <2>1 DEF OperationOK, RevisionOK, head
    <2>3. o.cut \/ n = Cardinality(List(log, Keys, head))
      <3>1. ~(o.rev < compactRev) /\ ~Moving(o)
        BY <1>3, <1>8, <2>1, <2>2 DEF IsCompacted, compactRev, Moving
      <3>2. QueryLimit(o) = 0 /\ KeysOf(o) = Keys
        BY <2>1 DEF QueryLimit, KeysOf
      <3>3. ReadFrom(o, o.rev)
        BY <1>1, <3>1 DEF OperationOK, RowsOK
      <3>4. AllOf(o, o.rev) = List(log, Keys, o.rev)
        BY <3>2 DEF AllOf, First
      <3>5. o.cut \/ o.rows = List(log, Keys, o.rev)
        BY <3>3, <3>4 DEF ReadFrom
      <3> QED BY <2>2, <3>5 DEF n
    <2>4. /\ new \in Operation /\ new.pc = "done" /\ new.head = head /\ new.count = n
          /\ new.req = o.req /\ new.counting = o.counting /\ new.rev = o.rev
          /\ new.ok = o.ok /\ new.kvs = o.kvs /\ new.page = o.page /\ new.cut = o.cut
          /\ new.since = o.since /\ new.mine = o.mine
      BY <1>1, <1>3, <1>4 DEF Operation
    <2> HIDE DEF new, o
    <2>5. /\ CountRev(new) = CountRev(o) /\ (Later(new) <=> Later(o))
          /\ \A top : FirstCount(new, top) = FirstCount(o, top)
          /\ \A rev : Answers(o, rev) <=> Answers(new, rev)
      BY <2>4 DEF CountRev, Later, FirstCount, Answers
    <2>6. \/ CountRev(o) \in 1..(compactRev - 1)
          \/ \E r \in FirstCount(o, head) : List(log, KeyRange(o.req), r) = {}
      <3>1. \A r \in FirstCount(o, seq) : r <= o.rev => r \in FirstCount(o, head)
        BY <1>3, <2>2 DEF FirstCount
      <3> QED BY <1>1, <2>1, <3>1 DEF OperationOK, CountOK
    <2>7. RequestOK(new)
      BY <1>1, <2>4 DEF OperationOK, RequestOK
    <2>8. RevisionOK(new)
      BY <1>1, <2>1, <2>2, <2>4, <2>5 DEF OperationOK, RevisionOK, GetsOne
    <2>9. RowsOK(new) /\ PageOK(new) /\ RefusedOK(new) /\ MineOK(new)
      BY <1>1, <2>4, <2>5 DEF OperationOK, RowsOK, PageOK, RefusedOK, MineOK
    <2>10. CountOK(new)
      BY <1>3, <2>1, <2>2, <2>3, <2>4, <2>5, <2>6 DEF CountOK
    <2>11. OperationOK(new)
      BY <2>7, <2>8, <2>9, <2>10 DEF OperationOK
    <2> QED BY <1>1, <2>1, <2>4, <2>11, QuietStep
  <1>9. CASE /\ ~compacted /\ ~relist /\ ~HasMore(o) /\ ~o.counting
             /\ Set(c, [o EXCEPT !.pc = "done", !.head = head, !.count = n,
                                 !.page = head, !.kvs = o.rows])
    <2> DEFINE new == [o EXCEPT !.pc = "done", !.head = head, !.count = n,
                                !.page = head, !.kvs = o.rows]
    <2>1. Set(c, new) /\ ~o.counting /\ ~HasMore(o)
      BY <1>9
    <2>2. ASSUME NEW rev \in Nat, ReadFrom(o, rev)
          PROVE  InitialPart(o.rows, PageAt(o.req, rev)) /\ (o.rows = PageAt(o.req, rev) \/ o.cut)
      BY <1>1, <2>1, <2>2, RowsMakeAPage
    <2>3. /\ new \in Operation /\ new.pc = "done" /\ new.head = head /\ new.count = n
          /\ new.page = head /\ new.kvs = o.rows
          /\ new.req = o.req /\ new.counting = o.counting /\ new.rev = o.rev
          /\ new.ok = o.ok /\ new.since = o.since /\ new.mine = o.mine /\ new.cut = o.cut
      BY <1>1, <1>3, <1>4 DEF Operation
    <2> HIDE DEF new
    <2>4. PageOK(new)
      <3>1. ASSUME NEW rev \in Nat, ReadFrom(o, rev) PROVE Answers(new, rev)
        BY <2>1, <2>2, <2>3, <3>1 DEF Answers
      <3> QED BY <1>1, <1>9, <2>1, <2>3, <3>1, AnswerIsRight DEF head
    <2> HIDE DEF o
    <2>5. RequestOK(new)
      BY <1>1, <2>3 DEF OperationOK, RequestOK
    <2>6. RevisionOK(new)
      BY <1>1, <1>3, <2>1, <2>3 DEF OperationOK, RevisionOK, Later
    <2>7. RowsOK(new) /\ RefusedOK(new) /\ MineOK(new)
      BY <1>1, <2>3 DEF OperationOK, RowsOK, RefusedOK, MineOK
    <2>8. CountOK(new)
      BY <1>3, <2>1, <2>3 DEF CountOK
    <2>9. OperationOK(new)
      BY <2>4, <2>5, <2>6, <2>7, <2>8 DEF OperationOK
    <2> QED BY <1>1, <2>1, <2>3, <2>9, QuietStep
  <1> QED BY <1>2, <1>5, <1>6, <1>7, <1>8, <1>9

-----------------------------------------------------------------------------
(* Transactions *)

\* The statement of a transaction is one of the store's writes.
LEMMA StatementIsAWrite ==
    ASSUME IInv, NEW o \in Operation, RequestOK(o), IsTxn(o.req), seq < MaxRev,
           NEW row \in Statement(o.req), Insert(row), UNCHANGED compactor
    PROVE  /\ IInv' /\ compactRev <= compactRev' /\ HistoryGrows
           /\ row.id = NextId /\ row.name = o.req.key
           /\ o.req.kind # "delete" => ~row.deleted
  <1>1. /\ o.req.key \in Keys
        /\ o.req.kind # "delete" => o.req.value \in Values /\ o.req.lease \in Leases
    BY DEF RequestOK, IsTxn
  <1>2. CASE o.req.kind = "delete"
    <2>1. row \in DeleteSQL(kine, NextId, o.req.key, o.req.rev)
      BY <1>2 DEF Statement
    <2>2. row.id = NextId /\ row.name = o.req.key
      BY <2>1 DEF DeleteSQL
    <2>3. Delete(o.req.key, o.req.rev)
      BY <2>1 DEF Delete
    <2> QED BY <1>1, <1>2, <2>2, <2>3, DeleteStep DEF HistoryGrows, Insert, NextId
  <1>3. CASE o.req.kind # "delete" /\ o.req.rev = 0
    <2>1. row \in CreateSQL(kine, NextId, o.req.key, o.req.value, o.req.lease)
      BY <1>3 DEF Statement
    <2>2. row.id = NextId /\ row.name = o.req.key /\ ~row.deleted
      BY <2>1 DEF CreateSQL
    <2>3. Create(o.req.key, o.req.value, o.req.lease)
      BY <2>1 DEF Create
    <2> QED BY <1>1, <1>3, <2>2, <2>3, CreateStep DEF HistoryGrows, Insert, NextId
  <1>4. CASE o.req.kind # "delete" /\ o.req.rev # 0
    <2>1. row \in UpdateSQL(kine, NextId, o.req.key, o.req.value, o.req.rev, o.req.lease)
      BY <1>4 DEF Statement
    <2>2. row.id = NextId /\ row.name = o.req.key /\ ~row.deleted
      BY <2>1 DEF UpdateSQL
    <2>3. Update(o.req.key, o.req.value, o.req.rev, o.req.lease)
      BY <2>1 DEF Update
    <2> QED BY <1>1, <1>4, <2>2, <2>3, UpdateStep DEF HistoryGrows, Insert, NextId
  <1> QED BY <1>2, <1>3, <1>4

\* A transaction that has inserted a row and can insert another is a create, and
\* its key was deleted in between.
LEMMA InsertedAgain ==
    ASSUME IInv, NEW o \in Operation, RequestOK(o), IsTxn(o.req), MineOK(o),
           NEW i \in o.mine, Statement(o.req) # {}
    PROVE  /\ o.req.rev = 0
           /\ \E r \in log : r.name = o.req.key /\ r.deleted /\ r.id \in i..seq
  <1> DEFINE k == o.req.key
             rev == o.req.rev
  <1>1. k \in Keys /\ rev \in Nat /\ i \in Nat /\ seq \in Nat
    BY DEF RequestOK, Operation, Request, IInv, TypeOK
  <1>2. PICK mine \in log : mine.id = i /\ mine.name = k /\ (o.req.kind # "delete" => ~mine.deleted)
    BY DEF MineOK
  <1>3. rev < i
    BY DEF MineOK
  <1>4. ASSUME Current(kine, k, rev) # {} PROVE FALSE
    <2>1. PICK p \in Latest(kine, {k}) : ~p.deleted /\ p.id = rev
      BY <1>4 DEF Current
    <2>2. p \in Latest(log, {k})
      BY <1>1, <2>1, LatestAgree
    <2>3. p.name = k /\ mine.id <= p.id
      BY <1>2, <2>2 DEF Latest, Named
    <2> QED BY <1>1, <1>2, <1>3, <2>1, <2>3
  <1>5. o.req.kind # "delete" /\ rev = 0
    BY <1>4 DEF Statement, UpdateSQL, DeleteSQL
  <1>6. mine \in Named(log, {k})
    BY <1>2 DEF Named
  <1>7. PICK m \in Latest(log, {k}) : TRUE
    BY <1>6, LatestExists
  <1>8. /\ m \in log /\ m.name = k /\ mine.id <= m.id
        /\ m.id \in Nat /\ m.id <= seq
    BY <1>2, <1>7 DEF Latest, Named, IInv, LogInv
  <1>9. ASSUME ~m.deleted PROVE FALSE
    <2>1. m \in Latest(kine, {k})
      BY <1>1, <1>7, <1>9, LatestAgree
    <2>2. m \in Named(kine, {k}) /\ m \in kine
      BY <2>1 DEF Latest, Named
    <2>3. PICK r \in Latest(kine, {k}) : r.deleted
      BY <1>5, <2>2 DEF Statement, CreateSQL
    <2>4. r \in kine /\ r.id <= m.id /\ m.id <= r.id /\ r.id \in Nat
      BY <2>1, <2>2, <2>3 DEF Latest, Named, IInv, KineInv
    <2>5. r = m
      BY <1>8, <2>2, <2>4 DEF IInv, KineInv
    <2> QED BY <1>9, <2>3, <2>5
  <1>10. m.id \in i..seq
    BY <1>1, <1>2, <1>8
  <1> QED BY <1>5, <1>8, <1>9, <1>10

\* What a transaction compared with and did not find is not the newest version.
LEMMA RefusedForAReason ==
    ASSUME IInv, NEW o \in Operation, RequestOK(o), Statement(o.req) = {},
           o.req.kind \in {"update", "delete"},
           NEW p \in log, p.name = o.req.key, p.id = o.req.rev, ~p.deleted
    PROVE  \E q \in log : q.name = o.req.key /\ p.id < q.id
  <1> SUFFICES ASSUME \A q \in log : q.name = o.req.key => ~(p.id < q.id)
               PROVE  FALSE
    OBVIOUS
  <1>1. o.req.key \in Keys /\ p.id \in Nat /\ p.id > 0
    BY DEF RequestOK, IsTxn, IInv, LogInv, TypeOK
  <1>2. \A q \in log : q.id \in Nat
    BY DEF IInv, LogInv, TypeOK
  <1>3. p \in Latest(log, {o.req.key})
    BY <1>1, <1>2 DEF Latest, Named
  <1>4. p \in Latest(kine, {o.req.key})
    BY <1>1, <1>3, LatestAgree
  <1>5. p \in Current(kine, o.req.key, o.req.rev)
    BY <1>4 DEF Current
  <1> QED BY <1>1, <1>5 DEF Statement, UpdateSQL, DeleteSQL

LEMMA ExecuteKeeps ==
    ASSUME ReadsInv, NEW c \in Clients, NEW o \in Operation, OperationOK(o),
           o.pc \in {"idle", "execute"}, o.page = 0, IsTxn(o.req), 0 < seq, Execute(c, o)
    PROVE  ReadsInv'
  <1>1. /\ IInv /\ seq \in Nat /\ NextId = seq + 1
        /\ o.req.rev \in Nat /\ o.req.rev <= seq /\ ~o.counting
        /\ o.req.kind \notin {"list", "get", "count"} /\ RequestOK(o) /\ MineOK(o)
        /\ o.mine \in SUBSET Nat
    BY DEF ReadsInv, IInv, TypeOK, NextId, OperationOK, RequestOK, RevisionOK, Operation,
           Request, IsTxn, GetsOne
  <1>2. ASSUME NEW row \in Statement(o.req), Insert(row), UNCHANGED compactor, seq < MaxRev,
               NEW pc \in {"done", "execute"},
               Set(c, [o EXCEPT !.pc = pc, !.head = NextId, !.mine = @ \cup {NextId}])
        PROVE  ReadsInv'
    <2>1. /\ IInv' /\ compactRev <= compactRev' /\ HistoryGrows
          /\ row.id = NextId /\ row.name = o.req.key
          /\ o.req.kind # "delete" => ~row.deleted
      BY <1>1, <1>2, StatementIsAWrite
    <2>2. OperationOK(o)'
      BY <1>1, <2>1, OperationStays
    <2>3. seq' = seq + 1 /\ log' = log \cup {row}
      BY <1>2 DEF Insert
    <2>4. PICK new \in Operation :
             /\ Set(c, new)
             /\ new.pc = pc /\ new.head = seq + 1 /\ new.mine = o.mine \cup {seq + 1}
             /\ new.req = o.req /\ new.counting = o.counting /\ new.rev = o.rev
             /\ new.rows = o.rows /\ new.ok = o.ok /\ new.kvs = o.kvs /\ new.page = o.page
             /\ new.count = o.count /\ new.since = o.since
      <3> DEFINE mine == o.mine \cup {seq + 1}
                 new == [o EXCEPT !.pc = pc, !.head = seq + 1, !.mine = mine]
      <3>1. Set(c, new)
        BY <1>1, <1>2
      <3>2. mine \in SUBSET Nat /\ seq + 1 \in Nat
        BY <1>1
      <3> HIDE DEF mine
      <3>3. /\ new \in Operation
            /\ new.pc = pc /\ new.head = seq + 1 /\ new.mine = mine
            /\ new.req = o.req /\ new.counting = o.counting /\ new.rev = o.rev
            /\ new.rows = o.rows /\ new.ok = o.ok /\ new.kvs = o.kvs /\ new.page = o.page
            /\ new.count = o.count /\ new.since = o.since
        BY <3>2 DEF Operation
      <3> QED BY <3>1, <3>3 DEF mine
    <2>5. RequestOK(new)'
      BY <1>1, <2>2, <2>4 DEF OperationOK, RequestOK, IsTxn
    <2>6. RevisionOK(new)'
      BY <1>1, <2>2, <2>3, <2>4 DEF OperationOK, RevisionOK
    <2>7. RowsOK(new)' /\ PageOK(new)' /\ RefusedOK(new)'
      BY <2>2, <2>4 DEF OperationOK, RowsOK, PageOK, RefusedOK
    <2>8. CountOK(new)'
      BY <1>1, <2>3, <2>4 DEF CountOK
    <2>9. MineOK(new)'
      <3>1. ASSUME NEW m \in new.mine
            PROVE  /\ new.req.rev < m /\ m <= seq'
                   /\ \E r \in log' : r.id = m /\ r.name = new.req.key
                                     /\ (new.req.kind # "delete" => ~r.deleted)
        <4>1. CASE m = seq + 1
          BY <1>1, <2>1, <2>3, <2>4, <4>1
        <4>2. CASE m \in o.mine
          BY <2>2, <2>4, <4>2 DEF OperationOK, MineOK
        <4> QED BY <2>4, <4>1, <4>2
      <3>2. ASSUME NEW i \in new.mine, NEW j \in new.mine, i < j
            PROVE  /\ new.req.rev = 0
                   /\ \E r \in log' : r.name = new.req.key /\ r.deleted /\ r.id \in i..j
        <4>1. \A m \in o.mine : m \in Nat /\ m <= seq
          BY <1>1 DEF MineOK
        <4>2. CASE i \in o.mine /\ j \in o.mine
          BY <2>2, <2>4, <3>2, <4>2 DEF OperationOK, MineOK
        <4>3. CASE i \in o.mine /\ j = seq + 1
          <5>1. /\ o.req.rev = 0
                /\ \E r \in log : r.name = o.req.key /\ r.deleted /\ r.id \in i..seq
            BY <1>1, <1>2, <4>3, InsertedAgain
          <5>2. \A n \in i..seq : n \in i..j
            BY <1>1, <4>1, <4>3
          <5> QED BY <2>3, <2>4, <5>1, <5>2
        <4>4. CASE i = seq + 1
          BY <1>1, <2>4, <3>2, <4>1, <4>4
        <4> QED BY <2>4, <4>2, <4>3, <4>4
      <3> QED BY <1>1, <2>4, <3>1, <3>2 DEF MineOK, IsTxn
    <2>10. OperationOK(new)'
      BY <2>5, <2>6, <2>7, <2>8, <2>9 DEF OperationOK
    <2> QED BY <2>1, <2>4, <2>10, ReadsStep
  <1>3. ASSUME Statement(o.req) = {}, Set(c, Refused(o)), UNCHANGED storeVars
        PROVE  ReadsInv'
    <2>1. PICK new \in Operation :
             /\ Set(c, new)
             /\ new.pc = (IF o.req.kind = "create" THEN "done" ELSE "rows")
             /\ ~new.ok /\ new.head = o.head /\ new.mine = o.mine
             /\ new.req = o.req /\ new.counting = o.counting /\ new.rev = o.rev
             /\ new.rows = o.rows /\ new.kvs = o.kvs /\ new.page = o.page
             /\ new.count = o.count /\ new.since = o.since
      <3> DEFINE pc == IF o.req.kind = "create" THEN "done" ELSE "rows"
                 new == [o EXCEPT !.pc = pc, !.ok = FALSE]
      <3>1. Set(c, new) /\ pc \in {"done", "rows"}
        BY <1>3 DEF Refused
      <3> HIDE DEF pc
      <3>2. /\ new \in Operation /\ new.pc = pc
            /\ ~new.ok /\ new.head = o.head /\ new.mine = o.mine
            /\ new.req = o.req /\ new.counting = o.counting /\ new.rev = o.rev
            /\ new.rows = o.rows /\ new.kvs = o.kvs /\ new.page = o.page
            /\ new.count = o.count /\ new.since = o.since
        BY <3>1 DEF Operation
      <3> QED BY <3>1, <3>2 DEF pc
    <2>2. RequestOK(new)
      BY <1>1, <2>1 DEF RequestOK, IsTxn
    <2>3. RevisionOK(new)
      BY <1>1, <2>1 DEF OperationOK, RevisionOK
    <2>4. RowsOK(new) /\ PageOK(new) /\ MineOK(new)
      BY <1>1, <2>1 DEF OperationOK, RowsOK, PageOK, MineOK
    <2>5. CountOK(new)
      BY <1>1, <2>1 DEF OperationOK, CountOK
    <2>6. RefusedOK(new)
      <3> SUFFICES ASSUME new.pc = "rows", IsTxn(new.req), NEW p \in log,
                          p.name = new.req.key, p.id = new.req.rev, ~p.deleted
                   PROVE  \E q \in log : q.name = new.req.key /\ p.id < q.id
        BY DEF RefusedOK
      <3>1. o.req.kind \in {"update", "delete"}
        BY <2>1 DEF IsTxn
      <3> QED BY <1>1, <1>3, <2>1, <3>1, RefusedForAReason
    <2>7. OperationOK(new)
      BY <2>2, <2>3, <2>4, <2>5, <2>6 DEF OperationOK
    <2> QED BY <1>3, <2>1, <2>7, QuietStep
  <1> QED BY <1>2, <1>3 DEF Execute, storeVars

LEMMA TxnKeeps ==
    ASSUME ReadsInv, NEW c \in Clients, CreateTxn(c) \/ UpdateTxn(c) \/ DeleteTxn(c)
    PROVE  ReadsInv'
  <1>1. ASSUME NEW kind \in {"create", "update", "delete"}, NEW k \in Keys,
               NEW v \in Values \cup {NoValue}, NEW rev \in Nat, rev <= seq, NEW lease \in Nat,
               kind # "delete" => v \in Values /\ lease \in Leases,
               kind = "create" => rev = 0,
               Txn(c, kind, k, v, rev, lease)
        PROVE  ReadsInv'
    <2> DEFINE req == [kind |-> kind, key |-> k, rev |-> rev, limit |-> 0,
                       value |-> v, lease |-> lease]
               o == [Ready EXCEPT !.req = req, !.since = seq]
    <2>1. Execute(c, o) /\ IInv
      BY <1>1 DEF Txn, ReadsInv
    <2>2. seq \in Nat /\ 0 < seq
      BY <1>1, ServingHasRevision DEF Txn, ReadsInv
    <2>3. /\ req \in Request
          /\ req.kind = kind /\ req.key = k /\ req.rev = rev /\ req.limit = 0
          /\ req.value = v /\ req.lease = lease
      BY <1>1 DEF Request
    <2> HIDE DEF req
    <2>4. /\ o \in Operation /\ o.pc = "idle" /\ o.req = req /\ ~o.counting /\ o.rev = 0
          /\ o.page = 0 /\ o.kvs = {} /\ o.mine = {} /\ o.head = 0 /\ o.since = seq
      <3>1. Ready \in Operation
        BY ReadyOK DEF ReadsInv
      <3>2. o \in Operation
        BY <2>2, <2>3, <3>1 DEF Operation
      <3> QED BY <3>2 DEF Ready
    <2> HIDE DEF o
    <2>5. IsTxn(o.req) /\ GetsOne(o.req)
      BY <2>3, <2>4 DEF IsTxn, GetsOne
    <2>6. RequestOK(o)
      BY <1>1, <2>2, <2>3, <2>4 DEF RequestOK
    <2>7. RevisionOK(o)
      BY <2>2, <2>3, <2>4, <2>5 DEF RevisionOK, IsTxn
    <2>8. RowsOK(o) /\ PageOK(o) /\ RefusedOK(o) /\ MineOK(o) /\ CountOK(o)
      BY <2>2, <2>4 DEF RowsOK, PageOK, RefusedOK, MineOK, CountOK
    <2>9. OperationOK(o)
      BY <2>6, <2>7, <2>8 DEF OperationOK
    <2> QED BY <2>1, <2>2, <2>4, <2>5, <2>9, ExecuteKeeps
  <1>2. seq \in Nat /\ Leases \subseteq Nat
    BY DataAssumption DEF ReadsInv, IInv, TypeOK
  <1>3. CASE CreateTxn(c)
    BY <1>1, <1>2, <1>3 DEF CreateTxn
  <1>4. CASE UpdateTxn(c)
    <2>1. PICK k \in Keys, v \in Values, rev \in 0..seq, lease \in Leases :
             Txn(c, "update", k, v, rev, lease)
      BY <1>4 DEF UpdateTxn
    <2>2. rev \in Nat /\ rev <= seq
      BY <1>2
    <2> QED BY <1>1, <1>2, <2>1, <2>2
  <1>5. CASE DeleteTxn(c)
    <2>1. PICK k \in Keys, rev \in 0..seq : Txn(c, "delete", k, NoValue, rev, 0)
      BY <1>5 DEF DeleteTxn
    <2>2. rev \in Nat /\ rev <= seq
      BY <1>2
    <2> QED BY <1>1, <2>1, <2>2
  <1> QED BY <1>3, <1>4, <1>5

LEMMA RetryKeeps ==
    ASSUME ReadsInv, NEW c \in Clients, Retry(c)
    PROVE  ReadsInv'
  <1> DEFINE o == op[c]
  <1>1. /\ o \in Operation /\ OperationOK(o) /\ o.pc = "execute" /\ Execute(c, o)
    BY DEF Retry, Is, ReadsInv
  <1>2. IsTxn(o.req) /\ o.page = 0 /\ 0 < seq
    BY <1>1 DEF OperationOK, RevisionOK
  <1> HIDE DEF o
  <1> QED BY <1>1, <1>2, ExecuteKeeps

-----------------------------------------------------------------------------
(* The theorems *)

LEMMA ReadsInitOK == ReadsInit => ReadsInv
  <1> SUFFICES ASSUME ReadsInit PROVE ReadsInv
    OBVIOUS
  <1>1. IInv
    BY InitStep DEF ReadsInit
  <1> QED BY <1>1, ReadyOK DEF ReadsInit, ReadsInv

\* A step of the store alone.
LEMMA OthersKeep ==
    ASSUME ReadsInv, UNCHANGED op, IInv', compactRev <= compactRev', HistoryGrows
    PROVE  ReadsInv'
  <1>1. ASSUME NEW c \in Clients PROVE ReadsInv'
    <2>1. PICK o \in Operation : op[c] = o /\ OperationOK(o)
      BY DEF ReadsInv
    <2>2. OperationOK(o)'
      BY <2>1, OperationStays DEF ReadsInv
    <2>3. Set(c, o)
      BY <2>1 DEF Set, ReadsInv
    <2> QED BY <2>2, <2>3, ReadsStep
  <1>2. CASE Clients = {}
    BY <1>2 DEF ReadsInv
  <1> QED BY <1>1, <1>2

LEMMA ReadsNextOK == ReadsInv /\ [ReadsNext]_vars => ReadsInv'
  <1> SUFFICES ASSUME ReadsInv, [ReadsNext]_vars PROVE ReadsInv'
    OBVIOUS
  <1>1. CASE UNCHANGED vars
    BY <1>1, StutterStep, OthersKeep DEF vars, storeVars, HistoryGrows, ReadsInv
  <1>2. CASE Next /\ UNCHANGED op
    BY <1>2, NextStep, NextGrows, OthersKeep DEF ReadsInv
  <1>3. ASSUME NEW c \in Clients,
               \/ ReceiveRange(c) \/ CreateTxn(c) \/ UpdateTxn(c) \/ DeleteTxn(c) \/ Retry(c)
               \/ TxnFails(c) \/ ReadRows(c) \/ ReadRevision(c) \/ Relist(c) \/ CountRows(c)
               \/ Finish(c)
        PROVE  ReadsInv'
    BY <1>3, ReceiveKeeps, TxnKeeps, RetryKeeps, FinishKeeps, ReadRowsKeeps,
       ReadRevisionKeeps, RelistKeeps, CountRowsKeeps
  <1> QED BY <1>1, <1>2, <1>3 DEF ReadsNext

\* Every request in progress knows only what the history bears out.
THEOREM ReadsInvariance == ReadsSpec => []ReadsInv
  BY ReadsInitOK, ReadsNextOK, PTL DEF ReadsSpec

\* A list that is answered at a revision is the page of that revision, although
\* nodes compact the table between, before and after its statements, or the
\* beginning of it when the cursor is lost midway.
THEOREM ReadsAreExact == ReadsSpec => []ReadAtRevisionIsExact
  <1>1. ASSUME ReadsInv PROVE ReadAtRevisionIsExact
    <2>1. ASSUME NEW c \in Clients, Done(c, {"list"}), op[c].ok,
                 \/ op[c].req.rev \in 1..op[c].since
                 \/ op[c].req.rev = 0 /\ op[c].kvs = {}
          PROVE  Answers(op[c], op[c].page)
      <3>1. PageOK(op[c]) /\ 0 < op[c].page
        BY <1>1, <2>1 DEF ReadsInv, OperationOK, RevisionOK, Done
      <3> QED BY <2>1, <3>1 DEF PageOK, Done
    <2>2. ASSUME NEW c \in Clients, Done(c, {"get"}), op[c].req.rev \in 1..op[c].since,
                 op[c].req.rev >= compactRev
          PROVE  Answers(op[c], op[c].req.rev)
      <3>1. PageOK(op[c]) /\ 0 < op[c].page /\ op[c] \in Operation /\ compactRev \in Nat
        BY <1>1, <2>2 DEF ReadsInv, OperationOK, RevisionOK, Done, IInv, KineInv
      <3>2. op[c].req.rev \in Nat
        BY <3>1 DEF Operation, Request
      <3> QED BY <2>2, <3>1, <3>2 DEF PageOK, Done
    <2> QED BY <2>1, <2>2 DEF ReadAtRevisionIsExact
  <1> QED BY <1>1, ReadsInvariance, PTL

\* A read of the newest revision, or of one yet to come, shows the state at one
\* revision between the request and the answer, or the beginning of it.
THEOREM CurrentReadsAreRecent == ReadsSpec => []CurrentReadIsRecent
  <1>1. ASSUME ReadsInv PROVE CurrentReadIsRecent
    <2> SUFFICES ASSUME NEW c \in Clients,
                        Done(c, {"list", "get", "update", "delete"}), op[c].page > 0,
                        op[c].req.kind \in {"list", "get"} =>
                            op[c].ok /\ op[c].req.rev \notin 1..op[c].since,
                        ~(op[c].req.kind = "get" /\ op[c].req.rev \in 1..(compactRev - 1))
                 PROVE  \E rev \in op[c].since..op[c].page : rev <= seq /\ Answers(op[c], rev)
      BY DEF CurrentReadIsRecent
    <2>1. PageOK(op[c]) /\ op[c] \in Operation /\ op[c].req.kind # "count"
      BY <1>1 DEF ReadsInv, OperationOK, Done
    <2>2. /\ op[c].req.rev \in Nat /\ op[c].since \in Nat /\ op[c].page \in Nat
          /\ compactRev \in Nat /\ seq \in Nat
      BY <1>1, <2>1 DEF Operation, Request, ReadsInv, IInv, KineInv, TypeOK
    <2>3. op[c].req.kind \in {"list", "get"} => op[c].req.rev = 0 \/ Later(op[c])
      BY <2>2 DEF Later
    <2>4. ~(op[c].req.kind = "get" /\ 0 < op[c].req.rev /\ op[c].req.rev < compactRev)
      BY <2>2
    <2>5. PICK rev \in op[c].since..seq : rev <= op[c].page /\ Answers(op[c], rev)
      BY <2>1, <2>3, <2>4 DEF PageOK
    <2> QED BY <2>2, <2>5
  <1> QED BY <1>1, ReadsInvariance, PTL

\* A transaction that lost its comparison is never shown what it compared with.
THEOREM FailedTxnsShowAnother == ReadsSpec => []FailedTxnShowsAnother
  <1>1. ASSUME ReadsInv PROVE FailedTxnShowsAnother
    <2> SUFFICES ASSUME NEW c \in Clients, Done(c, {"update", "delete"}),
                        NEW r \in op[c].kvs
                 PROVE  r.id # op[c].req.rev
      BY DEF FailedTxnShowsAnother
    <2>1. PageOK(op[c]) /\ op[c].page \in Nat
      BY <1>1 DEF ReadsInv, OperationOK, Operation
    <2> QED BY <2>1 DEF PageOK, Done
  <1> QED BY <1>1, ReadsInvariance, PTL

\* An update or delete that is executed again and again inserts one row at most.
THEOREM WritesTakeEffectOnce == ReadsSpec => []WriteTakesEffectOnce
  <1>1. ReadsInv => WriteTakesEffectOnce
    BY DEF ReadsInv, OperationOK, MineOK, WriteTakesEffectOnce
  <1> QED BY <1>1, ReadsInvariance, PTL

\* Counts are those of the history at the revision they are about, but for the
\* recount of a zero and revisions that have been compacted.
THEOREM CountsAreExact == ReadsSpec => []CountIsExact
  <1>1. ASSUME ReadsInv PROVE CountIsExact
    <2> SUFFICES ASSUME NEW c \in Clients, Done(c, {"count", "list"}), op[c].ok, op[c].counting
                 PROVE  LET o == op[c]
                            at(rev) == List(log, KeyRange(o.req), rev)
                            asked == IF CountRev(o) \in 1..o.head THEN CountRev(o) ELSE o.head
                        IN  /\ \/ CountRev(o) \in 1..(compactRev - 1)
                               \/ ~o.cut /\ o.count = Cardinality(at(asked))
                               \/ /\ \E r \in FirstCount(o, o.head) : at(r) = {}
                                  /\ o.cut \/ o.count = Cardinality(List(log, Keys, o.head))
                            /\ o.req.rev <= o.since => o.page <= o.head
      BY DEF CountIsExact, CountRev, FirstCount
    <2>1. CountOK(op[c]) /\ op[c] \in Operation
      BY <1>1 DEF ReadsInv, OperationOK
    <2>2. op[c].req.rev <= op[c].since => ~Later(op[c])
      BY <2>1 DEF Later, Operation, Request
    <2> QED BY <2>1, <2>2 DEF CountOK, Done
  <1> QED BY <1>1, ReadsInvariance, PTL
=============================================================================
