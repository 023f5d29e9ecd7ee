-------------------------- MODULE KineLeaseProofs --------------------------
(***************************************************************************)
(* Proofs about the expiry of leased keys in KineLease, for any number of  *)
(* keys, nodes and revisions, any page size and any capacity of the        *)
(* subscription.                                                           *)
(*                                                                         *)
(* A version that is live now has been live since it was written, and the  *)
(* table has it.  So the list, which reads its pages at different times,   *)
(* has met each live version it covers, or has it in hand, or has it still *)
(* ahead in the order of the names; and the subscription likewise in the   *)
(* order of the revisions.                                                 *)
(***************************************************************************)
EXTENDS KineLease, KineStoreProofs

-----------------------------------------------------------------------------
(* The inductive invariant *)

Lister ==
    [pc : {"page", "revision", "send", "ended", "broken", "failed"},
     after : Nat, rev : Nat, page : SUBSET Row, seen : Nat]

Subscription ==
    [pc : {"idle", "reading", "ended"}, open : BOOLEAN, buf : Seq(Row),
     last : Nat, since : Nat]

TtlState ==
    [stopped : BOOLEAN, running : BOOLEAN, shouldClose : BOOLEAN, closed : BOOLEAN]

LeaseTypes ==
    /\ lister \in Lister
    /\ feed \in Subscription
    /\ timers \subseteq Nat
    /\ tried \subseteq Nat
    /\ ttl \in TtlState

\* The versions that a lease is to end.
Live == {r \in ListCurrent(log, Keys) : r.lease > 0}

\* Where the list is, when the newest revision is n.
ListerOK(n, l) ==
    /\ l.seen <= n
    /\ l.rev = 0 \/ l.seen <= l.rev
    /\ l.pc = "page" /\ l.rev = 0 => l.after = 0 /\ l.seen = 0
    /\ \A p \in l.page : p.name \in Keys
    /\ l.page # {} => /\ 0 < n
                     /\ \E p \in l.page : \A q \in l.page : Rank[q.name] <= Rank[p.name]
    /\ l.pc = "send" => l.page # {} /\ 0 < l.rev

\* The list has met a version, or has it in hand, or still ahead.
ListCovers(live, l, known) ==
    \A r \in live : r.id <= l.seen /\ r.id \notin known =>
        /\ l.pc # "ended"
        /\ l.pc = "page" => l.after < Rank[r.name]
        /\ l.pc \in {"revision", "send"} =>
              \/ r \in l.page
              \/ l.page # {} /\ \A p \in l.page : Rank[p.name] < Rank[r.name]

\* Where the subscription is.
FeedOK(n, f) ==
    /\ f.last <= n /\ f.since <= f.last
    /\ \A i \in DOMAIN f.buf : f.buf[i].id <= f.last
    /\ f.pc = "idle" => ~f.open /\ f.buf = <<>>

\* It has met a version that was published to it, or has it buffered.
FeedCovers(live, f, known) ==
    /\ \A r \in live, i \in DOMAIN f.buf : f.buf[i].id = r.id => f.buf[i].lease > 0
    /\ f.open => \A r \in live :
           f.since < r.id /\ r.id <= f.last /\ r.id \notin known =>
               \E i \in DOMAIN f.buf : f.buf[i].id = r.id

\* Each goroutine releases the channel when it ends, once.
TtlOK(l, f, t) ==
    /\ t.shouldClose <=> f.pc = "ended" \/ l.pc \in {"ended", "broken"}
    /\ t.closed <=> f.pc = "ended" /\ l.pc \in {"ended", "broken"}
    /\ t.running \/ t.closed
    /\ f.open => ~t.stopped

LeaseInv ==
    /\ IInv
    /\ LeaseTypes
    /\ ListerOK(seq, lister)
    /\ FeedOK(seq, feed)
    /\ TtlOK(lister, feed, ttl)
    /\ ~ttl.stopped => ListCovers(Live, lister, timers \cup tried)
    /\ FeedCovers(Live, feed, timers \cup tried)
-----------------------------------------------------------------------------
(* Live versions *)

\* A version that is live now was live before, unless it is new.
LEMMA LiveShrinks ==
    ASSUME IInv, HistoryGrows
    PROVE  /\ seq \in Nat /\ seq' \in {seq, seq + 1}
           /\ \A r \in Live' : r \in Live \/ r.id = seq + 1
  <1>1. seq \in Nat
    BY DEF IInv, TypeOK
  <1>2. /\ seq' \in {seq, seq + 1} /\ log \subseteq log'
        /\ \A r \in log' : r \in log \/ r.id = seq + 1
    BY DEF HistoryGrows
  <1>3. \A r \in Live' : /\ r \in log' /\ r.name \in Keys /\ ~r.deleted /\ r.lease > 0
                         /\ \A q \in log' : q.name = r.name => q.id <= r.id
    BY DEF Live, ListCurrent, Latest, Named
  <1>4. \A r \in Live' : r \in log => r \in Live
    BY <1>2, <1>3 DEF Live, ListCurrent, Latest, Named
  <1> QED BY <1>1, <1>2, <1>3, <1>4

\* The table has it, as the newest row of its key.
LEMMA LiveInTable ==
    ASSUME IInv, NEW r \in Live
    PROVE  /\ r \in kine /\ r.name \in Keys /\ ~r.deleted /\ r.lease > 0
           /\ r.id \in 1..seq
           /\ \A q \in kine : q.name = r.name => q.id <= r.id
  <1>1. /\ r \in Latest(log, {r.name}) /\ r.name \in Keys /\ ~r.deleted /\ r.lease > 0
    BY DEF Live, ListCurrent, Latest, Named
  <1>2. r \in Latest(kine, {r.name})
    BY <1>1, LatestAgree
  <1>3. r \in kine /\ \A q \in kine : q.name = r.name => q.id <= r.id
    BY <1>2 DEF Latest, Named
  <1> QED BY <1>1, <1>3 DEF IInv, KineInv

LEMMA LeaseTypesAre ==
    ASSUME LeaseInv
    PROVE  /\ IInv /\ seq \in Nat
           /\ lister \in Lister /\ lister.after \in Nat /\ lister.rev \in Nat
           /\ lister.seen \in Nat /\ lister.page \in SUBSET Row
           /\ feed \in Subscription /\ feed.last \in Nat /\ feed.since \in Nat
           /\ feed.buf \in Seq(Row)
           /\ timers \in SUBSET Nat /\ tried \in SUBSET Nat /\ ttl \in TtlState
           /\ ListerOK(seq, lister) /\ FeedOK(seq, feed) /\ TtlOK(lister, feed, ttl)
           /\ ~ttl.stopped => ListCovers(Live, lister, timers \cup tried)
           /\ FeedCovers(Live, feed, timers \cup tried)
  <1>1. /\ IInv /\ LeaseTypes /\ ListerOK(seq, lister) /\ FeedOK(seq, feed)
        /\ TtlOK(lister, feed, ttl)
        /\ ~ttl.stopped => ListCovers(Live, lister, timers \cup tried)
        /\ FeedCovers(Live, feed, timers \cup tried)
    BY DEF LeaseInv
  <1>2. seq \in Nat
    BY <1>1 DEF IInv, TypeOK
  <1>3. /\ lister \in Lister /\ feed \in Subscription
        /\ timers \in SUBSET Nat /\ tried \in SUBSET Nat /\ ttl \in TtlState
    BY <1>1 DEF LeaseTypes
  <1>4. /\ lister.after \in Nat /\ lister.rev \in Nat
        /\ lister.seen \in Nat /\ lister.page \in SUBSET Row
    BY <1>3 DEF Lister
  <1>5. feed.last \in Nat /\ feed.since \in Nat /\ feed.buf \in Seq(Row)
    BY <1>3 DEF Subscription
  <1> QED BY <1>1, <1>2, <1>3, <1>4, <1>5

\* A step that is sound for the history so far, which may grow as well.
LEMMA LeaseMoves ==
    ASSUME LeaseInv, IInv', HistoryGrows, LeaseTypes',
           ListerOK(seq, lister'), FeedOK(seq, feed'), TtlOK(lister', feed', ttl'),
           ~ttl'.stopped => ListCovers(Live, lister', timers' \cup tried'),
           FeedCovers(Live, feed', timers' \cup tried')
    PROVE  LeaseInv'
  <1>1. /\ seq \in Nat /\ seq' \in {seq, seq + 1}
        /\ \A r \in Live' : r \in Live \/ r.id = seq + 1
    BY LiveShrinks DEF LeaseInv
  <1>2. /\ lister'.seen \in Nat /\ lister'.rev \in Nat
        /\ feed'.last \in Nat /\ feed'.since \in Nat /\ feed'.buf \in Seq(Row)
    BY DEF LeaseTypes, Lister, Subscription
  <1>3. ListerOK(seq', lister')
    BY <1>1, <1>2 DEF ListerOK
  <1>4. FeedOK(seq', feed')
    BY <1>1, <1>2 DEF FeedOK
  <1>5. lister'.seen < seq + 1 /\ feed'.last < seq + 1
    BY <1>1, <1>2 DEF ListerOK, FeedOK
  <1>6. \A i \in DOMAIN feed'.buf : feed'.buf[i].id # seq + 1
    <2> SUFFICES ASSUME NEW i \in DOMAIN feed'.buf PROVE feed'.buf[i].id # seq + 1
      OBVIOUS
    <2>1. feed'.buf[i] \in Row
      BY <1>2
    <2>2. feed'.buf[i].id \in Nat /\ feed'.buf[i].id <= feed'.last
      BY <2>1 DEF Row, FeedOK
    <2> QED BY <1>1, <1>2, <1>5, <2>2
  <1>7. ASSUME ~ttl'.stopped PROVE ListCovers(Live', lister', timers' \cup tried')
    <2>1. \A r \in Live' : r.id <= lister'.seen => r \in Live
      BY <1>1, <1>2, <1>5
    <2> QED BY <1>7, <2>1 DEF ListCovers
  <1>8. FeedCovers(Live', feed', timers' \cup tried')
    <2>1. \A r \in Live' : r.id <= feed'.last => r \in Live
      BY <1>1, <1>2, <1>5
    <2>2. \A r \in Live' : \A i \in DOMAIN feed'.buf : feed'.buf[i].id = r.id => r \in Live
      BY <1>1, <1>6
    <2> QED BY <2>1, <2>2 DEF FeedCovers
  <1> QED BY <1>3, <1>4, <1>7, <1>8 DEF LeaseInv

\* More timers do no harm.
LEMMA MoreKnown ==
    ASSUME NEW live, NEW known, NEW more, known \subseteq more
    PROVE  /\ \A l : ListCovers(live, l, known) => ListCovers(live, l, more)
           /\ \A f : FeedCovers(live, f, known) => FeedCovers(live, f, more)
  BY DEF ListCovers, FeedCovers

LEMMA TableStays ==
    ASSUME IInv, UNCHANGED storeVars PROVE IInv' /\ HistoryGrows
  BY StutterStep DEF HistoryGrows, storeVars

-----------------------------------------------------------------------------
(* Pages *)

\* The rows that a page is cut from.
RowsAfter(after, rev) ==
    LET keys == {k \in Keys : Rank[k] > after}
    IN  IF rev = 0 THEN ListCurrent(kine, keys) ELSE List(kine, keys, rev)

Before(rows, r) == {q \in rows : Rank[q.name] < Rank[r.name]}

\* A page leaves out only what comes after all of it.
LEMMA PageIs ==
    ASSUME IInv, NEW after \in Nat, NEW rev \in Nat,
           NEW n \in Nat \ {0}, NEW page, page = PageOf(kine, after, rev, n)
    PROVE  /\ page \subseteq kine
           /\ \A p \in page : p.name \in Keys
           /\ \A r \in RowsAfter(after, rev) : r \notin page =>
                 page # {} /\ \A p \in page : Rank[p.name] < Rank[r.name]
           /\ page # {} =>
                 \E p \in page : \A q \in page : Rank[q.name] <= Rank[p.name]
  <1> DEFINE rows == RowsAfter(after, rev)
  <1>1. /\ rows \subseteq kine /\ \A r \in rows : r.name \in Keys
    BY DEF RowsAfter, List, ListCurrent, Latest, UpTo, Named
  <1>2. page = {r \in rows : Cardinality(Before(rows, r)) < n}
    BY DEF PageOf, RowsAfter, Before
  <1>3. \A r \in rows : Rank[r.name] \in Nat
    BY <1>1, LeaseAssumption
  <1>4. n \in Nat /\ 0 < n
    OBVIOUS
  <1> HIDE DEF rows
  <1>5. IsFiniteSet(kine)
    <2>1. /\ seq \in Nat /\ (\A r \in kine : r.id \in 1..seq)
          /\ \A r, q \in kine : r.id = q.id => r = q
      BY DEF IInv, TypeOK, KineInv
    <2> QED BY <2>1, TableFinite
  <1>6. \A r : IsFiniteSet(Before(rows, r)) /\ Cardinality(Before(rows, r)) \in Nat
    <2> SUFFICES ASSUME NEW r
                 PROVE  IsFiniteSet(Before(rows, r)) /\ Cardinality(Before(rows, r)) \in Nat
      OBVIOUS
    <2>1. Before(rows, r) \in SUBSET kine
      BY <1>1 DEF Before
    <2>2. IsFiniteSet(Before(rows, r))
      BY <1>5, <2>1, FS_Subset
    <2> QED BY <2>2, FS_CardinalityType
  <1>7. ASSUME NEW r \in rows, r \notin page, NEW p \in page
        PROVE  Rank[p.name] < Rank[r.name]
    <2> SUFFICES ASSUME ~(Rank[p.name] < Rank[r.name]) PROVE FALSE
      OBVIOUS
    <2>1. p \in rows /\ Cardinality(Before(rows, p)) < n
      BY <1>2
    <2>2. Rank[r.name] <= Rank[p.name]
      BY <1>3, <2>1
    <2>3. Before(rows, r) \in SUBSET Before(rows, p)
      BY <1>3, <2>1, <2>2 DEF Before
    <2>4. Cardinality(Before(rows, r)) <= Cardinality(Before(rows, p))
      BY <1>6, <2>3, FS_Subset
    <2>5. Cardinality(Before(rows, r)) < n
      BY <1>4, <1>6, <2>1, <2>4
    <2> QED BY <1>2, <1>7, <2>5
  <1>8. ASSUME NEW r \in rows PROVE page # {}
    <2> DEFINE ranks == {Rank[q.name] : q \in rows}
    <2>1. ranks \in SUBSET Nat /\ ranks # {}
      BY <1>3
    <2>2. PICK x \in ranks : \A y \in ranks : x <= y
      BY <2>1, LeastExists
    <2>3. PICK p \in rows : Rank[p.name] = x
      BY <2>2
    <2>4. Before(rows, p) = {}
      <3> SUFFICES ASSUME NEW q \in rows, Rank[q.name] < Rank[p.name] PROVE FALSE
        BY DEF Before
      <3>1. x <= Rank[q.name]
        BY <2>2
      <3> QED BY <1>3, <2>3, <3>1
    <2>5. Cardinality(Before(rows, p)) = 0
      BY <2>4, FS_EmptySet
    <2>6. p \in page
      BY <1>2, <1>4, <2>5
    <2> QED BY <2>6
  <1>9. ASSUME page # {}
        PROVE  \E p \in page : \A q \in page : Rank[q.name] <= Rank[p.name]
    <2> DEFINE before == {Cardinality(Before(rows, q)) : q \in page}
    <2>1. before \in SUBSET Nat
      BY <1>6
    <2>2. before # {}
      BY <1>9
    <2>3. \A x \in before : x <= n
      BY <1>2, <1>4, <1>6
    <2>4. MaxOf(before) \in before /\ \A x \in before : x <= MaxOf(before)
      <3> HIDE DEF before
      <3> QED BY <1>4, <2>1, <2>2, <2>3, MaxOfBounded
    <2>5. PICK p \in page : MaxOf(before) = Cardinality(Before(rows, p))
      BY <2>4
    <2>6. ASSUME NEW q \in page, ~(Rank[q.name] <= Rank[p.name]) PROVE FALSE
      <3>1. p \in rows /\ q \in rows
        BY <1>2
      <3>2. Rank[p.name] \in Nat /\ Rank[q.name] \in Nat /\ Rank[p.name] < Rank[q.name]
        BY <1>3, <2>6, <3>1
      <3>3. Before(rows, p) \in SUBSET Before(rows, q)
        BY <1>3, <3>2 DEF Before
      <3>4. p \in Before(rows, q) /\ p \notin Before(rows, p)
        BY <3>1, <3>2 DEF Before
      <3>5. Cardinality(Before(rows, p)) < Cardinality(Before(rows, q))
        BY <1>6, <3>3, <3>4, FS_Subset
      <3>6. Cardinality(Before(rows, q)) <= Cardinality(Before(rows, p))
        BY <2>4, <2>5
      <3> QED BY <1>6, <3>5, <3>6
    <2> QED BY <2>6
  <1> QED BY <1>1, <1>2, <1>7, <1>8, <1>9 DEF rows

\* A page query at any revision from the first one on sees the versions that
\* are live now and were there then.
LEMMA LiveInPages ==
    ASSUME IInv, NEW r \in Live, NEW after \in Nat, after < Rank[r.name],
           NEW rev \in Nat, rev = 0 \/ r.id <= rev
    PROVE  r \in RowsAfter(after, rev)
  <1>1. /\ r \in kine /\ r.name \in Keys /\ ~r.deleted
        /\ \A q \in kine : q.name = r.name => q.id <= r.id
    BY LiveInTable
  <1>2. Rank[r.name] > after
    BY <1>1, LeaseAssumption
  <1> QED BY <1>1, <1>2 DEF RowsAfter, List, ListCurrent, Latest, UpTo, Named

LEMMA ListPageStep ==
    ASSUME LeaseInv, ListPage PROVE LeaseInv'
  <1>0. PICK n \in 1..PageSize :
           lister' = [lister EXCEPT
               !.pc = "revision", !.page = PageOf(kine, lister.after, lister.rev, n),
               !.seen = IF lister.rev = 0 THEN seq ELSE @]
    BY DEF ListPage
  <1> DEFINE page == PageOf(kine, lister.after, lister.rev, n)
             seen == IF lister.rev = 0 THEN seq ELSE lister.seen
             l == [lister EXCEPT !.pc = "revision", !.page = page, !.seen = seen]
             known == timers \cup tried
  <1>1. /\ IInv /\ seq \in Nat /\ lister \in Lister /\ lister.after \in Nat
        /\ lister.rev \in Nat /\ lister.seen \in Nat /\ lister.page \in SUBSET Row
        /\ ListerOK(seq, lister) /\ FeedOK(seq, feed) /\ TtlOK(lister, feed, ttl)
        /\ ~ttl.stopped => ListCovers(Live, lister, known)
        /\ FeedCovers(Live, feed, known)
    BY LeaseTypesAre
  <1>2. /\ lister.pc = "page" /\ lister' = l /\ feed' = feed /\ timers' = timers
        /\ tried' = tried /\ ttl' = ttl /\ UNCHANGED storeVars
    BY <1>0 DEF ListPage
  <1>3. /\ page \subseteq kine
        /\ \A p \in page : p.name \in Keys
        /\ \A r \in RowsAfter(lister.after, lister.rev) : r \notin page =>
              page # {} /\ \A p \in page : Rank[p.name] < Rank[r.name]
        /\ page # {} => \E p \in page : \A q \in page : Rank[q.name] <= Rank[p.name]
    <2>1. n \in Nat \ {0}
      BY LeaseAssumption
    <2> QED BY <1>1, <2>1, PageIs
  <1>4. seen \in Nat /\ seen <= seq /\ (lister.rev = 0 \/ seen <= lister.rev)
    BY <1>1 DEF ListerOK
  <1>5. page \subseteq Row /\ (page # {} => 0 < seq)
    BY <1>1, <1>3 DEF IInv, TypeOK, KineInv
  <1>6. ASSUME NEW r \in Live, r.id <= seen, r.id \notin known, ~ttl.stopped
        PROVE  r \in RowsAfter(lister.after, lister.rev)
    <2>1. r.name \in Keys /\ r.id \in Nat
      BY <1>1, LiveInTable
    <2>2. lister.after < Rank[r.name]
      <3>1. CASE lister.rev = 0
        <4>1. lister.after = 0
          BY <1>1, <1>2, <3>1 DEF ListerOK
        <4>2. Rank[r.name] \in Nat \ {0}
          BY <2>1, LeaseAssumption
        <4> QED BY <4>1, <4>2
      <3>2. CASE lister.rev # 0
        <4>1. r.id <= lister.seen
          BY <1>6, <3>2
        <4> QED BY <1>1, <1>2, <1>6, <4>1 DEF ListCovers
      <3> QED BY <3>1, <3>2
    <2>3. lister.rev = 0 \/ r.id <= lister.rev
      BY <1>1, <1>4, <1>6, <2>1
    <2> QED BY <1>1, <2>2, <2>3, LiveInPages
  <1> HIDE DEF page, seen
  <1>7. /\ l \in Lister /\ l.pc = "revision" /\ l.page = page /\ l.seen = seen
        /\ l.rev = lister.rev
    BY <1>1, <1>4, <1>5 DEF Lister
  <1> HIDE DEF l
  <1>8. ListerOK(seq, l)
    BY <1>3, <1>4, <1>5, <1>7 DEF ListerOK
  <1>9. TtlOK(l, feed, ttl)
    BY <1>1, <1>2, <1>7 DEF TtlOK
  <1>10. ~ttl.stopped => ListCovers(Live, l, known)
    BY <1>3, <1>6, <1>7 DEF ListCovers
  <1>11. LeaseTypes'
    BY <1>2, <1>7 DEF LeaseInv, LeaseTypes
  <1>12. IInv' /\ HistoryGrows
    BY <1>1, <1>2, TableStays
  <1> QED BY <1>1, <1>2, <1>8, <1>9, <1>10, <1>11, <1>12, LeaseMoves

LEMMA PageRevisionStep ==
    ASSUME LeaseInv, PageRevision PROVE LeaseInv'
  <1> DEFINE pc == IF lister.rev > 0 /\ lister.rev < CompactRev(kine)
                   THEN "failed" ELSE "send"
             rev == IF lister.rev = 0 THEN MaxId(kine) ELSE lister.rev
             l == [lister EXCEPT !.pc = pc, !.rev = rev]
             known == timers \cup tried
  <1>1. /\ IInv /\ seq \in Nat /\ lister \in Lister
        /\ lister.rev \in Nat /\ lister.seen \in Nat /\ lister.page \in SUBSET Row
        /\ ListerOK(seq, lister) /\ FeedOK(seq, feed) /\ TtlOK(lister, feed, ttl)
        /\ ~ttl.stopped => ListCovers(Live, lister, known)
        /\ FeedCovers(Live, feed, known)
    BY LeaseTypesAre
  <1>2. /\ lister.pc = "revision" /\ lister.page # {} /\ lister' = l /\ feed' = feed
        /\ timers' = timers /\ tried' = tried /\ ttl' = ttl /\ UNCHANGED storeVars
    BY DEF PageRevision
  <1>3. pc \in {"failed", "send"}
    OBVIOUS
  <1>4. rev \in Nat /\ 0 < rev /\ lister.seen <= rev
    <2>1. 0 < seq /\ lister.seen <= seq /\ (lister.rev = 0 \/ lister.seen <= lister.rev)
      BY <1>1, <1>2 DEF ListerOK
    <2>2. MaxId(kine) = seq
      BY <1>1, MaxIdIsSeq
    <2> QED BY <1>1, <2>1, <2>2
  <1> HIDE DEF pc, rev
  <1>5. /\ l \in Lister /\ l.pc = pc /\ l.page = lister.page /\ l.seen = lister.seen
        /\ l.rev = rev
    BY <1>1, <1>3, <1>4 DEF Lister
  <1> HIDE DEF l
  <1>6. ListerOK(seq, l)
    BY <1>1, <1>2, <1>3, <1>4, <1>5 DEF ListerOK
  <1>7. TtlOK(l, feed, ttl)
    BY <1>1, <1>2, <1>3, <1>5 DEF TtlOK
  <1>8. ~ttl.stopped => ListCovers(Live, l, known)
    BY <1>1, <1>2, <1>3, <1>5 DEF ListCovers
  <1>9. LeaseTypes'
    BY <1>2, <1>5 DEF LeaseInv, LeaseTypes
  <1>10. IInv' /\ HistoryGrows
    BY <1>1, <1>2, TableStays
  <1> QED BY <1>1, <1>2, <1>6, <1>7, <1>8, <1>9, <1>10, LeaseMoves

LEMMA SendPageStep ==
    ASSUME LeaseInv, SendPage PROVE LeaseInv'
  <1> DEFINE ranks == {Rank[p.name] : p \in lister.page}
             after == MaxOf(ranks)
             l == [lister EXCEPT !.pc = "page", !.page = {}, !.after = after]
             known == timers \cup tried
             more == timers' \cup tried'
  <1>1. /\ IInv /\ seq \in Nat /\ lister \in Lister
        /\ lister.rev \in Nat /\ lister.seen \in Nat /\ lister.page \in SUBSET Row
        /\ timers \in SUBSET Nat
        /\ ListerOK(seq, lister) /\ FeedOK(seq, feed) /\ TtlOK(lister, feed, ttl)
        /\ ~ttl.stopped => ListCovers(Live, lister, known)
        /\ FeedCovers(Live, feed, known)
    BY LeaseTypesAre
  <1>2. /\ lister.pc = "send" /\ lister' = l /\ feed' = feed
        /\ timers' = timers \cup Leased(lister.page) /\ tried' = tried /\ ttl' = ttl
        /\ UNCHANGED storeVars
    BY DEF SendPage
  <1>3. 0 < lister.rev /\ lister.seen <= seq /\ lister.seen <= lister.rev
    BY <1>1, <1>2 DEF ListerOK
  <1>4. after \in ranks /\ after \in Nat
    <2>1. PICK p \in lister.page : \A q \in lister.page : Rank[q.name] <= Rank[p.name]
      BY <1>1, <1>2 DEF ListerOK
    <2>2. \A q \in lister.page : Rank[q.name] \in Nat
      BY <1>1, LeaseAssumption DEF ListerOK
    <2>3. ranks \in SUBSET Nat /\ Rank[p.name] \in Nat
      BY <2>2
    <2>4. Rank[p.name] \in ranks /\ \A x \in ranks : x <= Rank[p.name]
      BY <2>1
    <2> HIDE DEF ranks
    <2> QED BY <2>3, <2>4, MaxOfBounded
  <1>5. Leased(lister.page) \in SUBSET Nat
    BY <1>1 DEF Leased, Row
  <1>6. ASSUME NEW r \in Live, r.id <= lister.seen, r.id \notin more, ~ttl.stopped
        PROVE  after < Rank[r.name]
    <2>1. r.lease > 0
      BY DEF Live
    <2>2. r \notin lister.page
      BY <1>2, <1>6, <2>1 DEF Leased
    <2>3. \A p \in lister.page : Rank[p.name] < Rank[r.name]
      BY <1>1, <1>2, <1>6, <2>2 DEF ListCovers
    <2> QED BY <1>4, <2>3
  <1> HIDE DEF after
  <1>7. /\ l \in Lister /\ l.pc = "page" /\ l.page = {} /\ l.seen = lister.seen
        /\ l.rev = lister.rev /\ l.after = after
    BY <1>1, <1>4 DEF Lister
  <1> HIDE DEF l
  <1>8. ListerOK(seq, l)
    BY <1>1, <1>3, <1>7 DEF ListerOK
  <1>9. TtlOK(l, feed, ttl)
    BY <1>1, <1>2, <1>7 DEF TtlOK
  <1>10. ~ttl.stopped => ListCovers(Live, l, more)
    BY <1>6, <1>7 DEF ListCovers
  <1>11. FeedCovers(Live, feed, more)
    BY <1>1, <1>2, MoreKnown
  <1>12. LeaseTypes'
    BY <1>1, <1>2, <1>5, <1>7 DEF LeaseInv, LeaseTypes
  <1>13. IInv' /\ HistoryGrows
    BY <1>1, <1>2, TableStays
  <1> QED BY <1>1, <1>2, <1>8, <1>9, <1>10, <1>11, <1>12, <1>13, LeaseMoves

\* A goroutine that ends releases the channel.
LEMMA ReleaseIs ==
    ASSUME ttl \in TtlState, Release
    PROVE  /\ ttl' \in TtlState /\ ttl'.stopped = ttl.stopped /\ ttl'.running = ttl.running
           /\ ttl'.shouldClose /\ ttl'.closed = ttl.shouldClose
  BY DEF Release, TtlState

LEMMA EndListingStep ==
    ASSUME LeaseInv, EndListing PROVE LeaseInv'
  <1> DEFINE known == timers \cup tried
  <1>1. /\ IInv /\ seq \in Nat /\ lister \in Lister
        /\ lister.rev \in Nat /\ lister.seen \in Nat /\ lister.page \in SUBSET Row
        /\ ttl \in TtlState
        /\ ListerOK(seq, lister) /\ FeedOK(seq, feed) /\ TtlOK(lister, feed, ttl)
        /\ ~ttl.stopped => ListCovers(Live, lister, known)
        /\ FeedCovers(Live, feed, known)
    BY LeaseTypesAre
  <1>2. /\ Release /\ feed' = feed /\ timers' = timers /\ tried' = tried
        /\ UNCHANGED storeVars
    BY DEF EndListing
  <1>3. /\ ttl' \in TtlState /\ ttl'.stopped = ttl.stopped /\ ttl'.running = ttl.running
        /\ ttl'.shouldClose /\ ttl'.closed = ttl.shouldClose
    BY <1>1, <1>2, ReleaseIs
  <1>4. /\ lister' \in Lister /\ lister'.pc \in {"ended", "broken"} /\ lister'.page = {}
        /\ lister'.seen = lister.seen /\ lister'.rev = lister.rev
        /\ lister.pc \in {"page", "revision"}
        /\ lister'.pc = "ended" => lister.pc = "revision" /\ lister.page = {}
    BY <1>1 DEF EndListing, Lister
  <1>5. ListerOK(seq, lister')
    BY <1>1, <1>4 DEF ListerOK
  <1>6. TtlOK(lister', feed, ttl')
    BY <1>1, <1>3, <1>4 DEF TtlOK
  <1>7. ~ttl'.stopped => ListCovers(Live, lister', known)
    BY <1>1, <1>3, <1>4 DEF ListCovers
  <1>8. LeaseTypes'
    BY <1>2, <1>3, <1>4 DEF LeaseInv, LeaseTypes
  <1>9. IInv' /\ HistoryGrows
    BY <1>1, <1>2, TableStays
  <1> QED BY <1>1, <1>2, <1>5, <1>6, <1>7, <1>8, <1>9, LeaseMoves

-----------------------------------------------------------------------------
(* The subscription *)

LEMMA SubscribeStep ==
    ASSUME LeaseInv, Subscribe PROVE LeaseInv'
  <1> DEFINE f == [feed EXCEPT !.pc = "reading", !.open = ~ttl.stopped, !.since = feed.last]
             known == timers \cup tried
  <1>1. /\ IInv /\ seq \in Nat /\ feed \in Subscription
        /\ feed.last \in Nat /\ feed.since \in Nat /\ feed.buf \in Seq(Row)
        /\ ttl \in TtlState
        /\ ListerOK(seq, lister) /\ FeedOK(seq, feed) /\ TtlOK(lister, feed, ttl)
        /\ ~ttl.stopped => ListCovers(Live, lister, known)
        /\ FeedCovers(Live, feed, known)
    BY LeaseTypesAre
  <1>2. /\ feed.pc = "idle" /\ feed' = f /\ lister' = lister /\ timers' = timers
        /\ tried' = tried /\ ttl' = ttl /\ UNCHANGED storeVars
    BY DEF Subscribe
  <1>3. /\ f \in Subscription /\ f.pc = "reading" /\ f.open = ~ttl.stopped
        /\ f.buf = feed.buf /\ f.last = feed.last /\ f.since = feed.last
    BY <1>1 DEF Subscription, TtlState
  <1> HIDE DEF f
  <1>4. FeedOK(seq, f)
    BY <1>1, <1>2, <1>3 DEF FeedOK
  <1>5. TtlOK(lister, f, ttl)
    BY <1>1, <1>2, <1>3 DEF TtlOK
  <1>6. FeedCovers(Live, f, known)
    <2>1. \A r \in Live : ~(feed.last < r.id /\ r.id <= feed.last)
      BY <1>1, LiveInTable
    <2> QED BY <1>1, <1>3, <2>1 DEF FeedCovers
  <1>7. LeaseTypes'
    BY <1>2, <1>3 DEF LeaseInv, LeaseTypes
  <1>8. IInv' /\ HistoryGrows
    BY <1>1, <1>2, TableStays
  <1> QED BY <1>1, <1>2, <1>4, <1>5, <1>6, <1>7, <1>8, LeaseMoves

\* The poll loop publishes the least row that it has not published.
LEMMA FeedStep ==
    ASSUME LeaseInv, Feed PROVE LeaseInv'
  <1> DEFINE known == timers \cup tried
  <1>1. /\ IInv /\ seq \in Nat /\ feed \in Subscription
        /\ feed.last \in Nat /\ feed.since \in Nat /\ feed.buf \in Seq(Row)
        /\ ListerOK(seq, lister) /\ FeedOK(seq, feed) /\ TtlOK(lister, feed, ttl)
        /\ ~ttl.stopped => ListCovers(Live, lister, known)
        /\ FeedCovers(Live, feed, known)
    BY LeaseTypesAre
  <1>2. PICK row \in kine :
           /\ row.id > feed.last /\ \A q \in kine : q.id > feed.last => row.id <= q.id
           /\ feed' = [feed EXCEPT
                 !.last = row.id,
                 !.open = @ /\ (IsFill(row.name) \/ Len(feed.buf) < SubCap),
                 !.buf = IF feed.open /\ ~IsFill(row.name) /\ Len(@) < SubCap
                         THEN Append(@, row) ELSE @]
    BY DEF Feed
  <1>3. /\ lister' = lister /\ timers' = timers /\ tried' = tried /\ ttl' = ttl
        /\ UNCHANGED storeVars
    BY DEF Feed
  <1>4. row \in Row /\ row.id \in Nat /\ row.id <= seq
    BY <1>1 DEF IInv, TypeOK, KineInv, Row
  <1>5. \A r \in Live : /\ r \in kine /\ r.id \in Nat /\ ~IsFill(r.name) /\ r.lease > 0
                        /\ r.id = row.id => r = row
                        /\ ~(r.id <= feed.last) => row.id <= r.id
    <2> SUFFICES ASSUME NEW r \in Live
                 PROVE  /\ r \in kine /\ r.id \in Nat /\ ~IsFill(r.name) /\ r.lease > 0
                        /\ r.id = row.id => r = row
                        /\ ~(r.id <= feed.last) => row.id <= r.id
      OBVIOUS
    <2>1. r \in kine /\ r.name \in Keys /\ r.lease > 0 /\ r.id \in Nat
      BY <1>1, LiveInTable
    <2>2. ~IsFill(r.name)
      BY <2>1 DEF IsFill
    <2>3. r.id = row.id => r = row
      BY <1>1, <2>1 DEF IInv, KineInv
    <2>4. ~(r.id <= feed.last) => row.id <= r.id
      BY <1>1, <1>2, <2>1
    <2> QED BY <2>1, <2>2, <2>3, <2>4
  <1> DEFINE takes == feed.open /\ ~IsFill(row.name) /\ Len(feed.buf) < SubCap
             open == feed.open /\ (IsFill(row.name) \/ Len(feed.buf) < SubCap)
             buf == IF takes THEN Append(feed.buf, row) ELSE feed.buf
             f == [feed EXCEPT !.last = row.id, !.open = open, !.buf = buf]
  <1>6. feed' = f
    BY <1>2
  <1>7. /\ buf \in Seq(Row) /\ \A i \in DOMAIN feed.buf : i \in DOMAIN buf /\ buf[i] = feed.buf[i]
        /\ \A i \in DOMAIN buf : i \in DOMAIN feed.buf \/ buf[i] = row
        /\ takes => \E i \in DOMAIN buf : buf[i] = row
        /\ ~feed.open => buf = feed.buf
    <2>1. CASE takes
      <3>1. buf = Append(feed.buf, row)
        BY <2>1
      <3>2. /\ Len(feed.buf) \in Nat /\ DOMAIN feed.buf = 1..Len(feed.buf)
            /\ buf \in Seq(Row) /\ DOMAIN buf = 1..(Len(feed.buf) + 1)
            /\ buf[Len(feed.buf) + 1] = row
            /\ \A i \in 1..Len(feed.buf) : buf[i] = feed.buf[i]
        BY <1>1, <1>4, <3>1
      <3> HIDE DEF buf
      <3> QED BY <2>1, <3>2
    <2>2. CASE ~takes
      BY <1>1, <2>2
    <2> QED BY <2>1, <2>2
  <1>8. /\ open \in BOOLEAN
        /\ open => feed.open /\ (takes \/ IsFill(row.name))
    <2>1. feed.open \in BOOLEAN
      BY <1>1 DEF Subscription
    <2> QED BY <2>1
  <1> HIDE DEF takes, open, buf
  <1>9. /\ f \in Subscription /\ f.pc = feed.pc /\ f.open = open /\ f.buf = buf
        /\ f.last = row.id /\ f.since = feed.since
    BY <1>1, <1>4, <1>7, <1>8 DEF Subscription
  <1> HIDE DEF f
  <1>10. FeedOK(seq, f)
    <2>1. /\ feed.since <= feed.last /\ \A i \in DOMAIN feed.buf : feed.buf[i].id <= feed.last
          /\ feed.pc = "idle" => ~feed.open /\ feed.buf = <<>>
      BY <1>1 DEF FeedOK
    <2>2. f.since <= f.last /\ f.last <= seq
      BY <1>1, <1>2, <1>4, <1>9, <2>1
    <2>3. ASSUME NEW i \in DOMAIN buf PROVE buf[i].id <= row.id
      <3>1. CASE i \in DOMAIN feed.buf
        <4>1. buf[i] = feed.buf[i] /\ feed.buf[i].id <= feed.last
          BY <1>7, <2>1, <3>1
        <4>2. feed.buf[i] \in Row
          BY <1>1, <3>1
        <4>3. feed.buf[i].id \in Nat
          BY <4>2 DEF Row
        <4> QED BY <1>1, <1>2, <1>4, <4>1, <4>3
      <3>2. CASE buf[i] = row
        BY <1>4, <3>2
      <3> QED BY <1>7, <3>1, <3>2
    <2>4. f.pc = "idle" => ~f.open /\ f.buf = <<>>
      BY <1>7, <1>8, <1>9, <2>1
    <2> QED BY <1>9, <2>2, <2>3, <2>4 DEF FeedOK
  <1>11. TtlOK(lister, f, ttl)
    BY <1>1, <1>8, <1>9 DEF TtlOK
  <1>12. FeedCovers(Live, f, known)
    <2>1. ASSUME NEW r \in Live, NEW i \in DOMAIN buf, buf[i].id = r.id
          PROVE  buf[i].lease > 0
      BY <1>1, <1>5, <1>7, <2>1 DEF FeedCovers
    <2>2. ASSUME open, NEW r \in Live, feed.since < r.id, r.id <= row.id, r.id \notin known
          PROVE  \E i \in DOMAIN buf : buf[i].id = r.id
      <3>1. CASE r.id <= feed.last
        <4>1. PICK i \in DOMAIN feed.buf : feed.buf[i].id = r.id
          BY <1>1, <1>8, <2>2, <3>1 DEF FeedCovers
        <4> QED BY <1>7, <4>1
      <3>2. CASE ~(r.id <= feed.last)
        <4>1. r.id = row.id
          BY <1>4, <1>5, <2>2, <3>2
        <4>2. r = row /\ ~IsFill(row.name)
          BY <1>5, <4>1
        <4> QED BY <1>7, <1>8, <2>2, <4>2
      <3> QED BY <3>1, <3>2
    <2> QED BY <1>9, <2>1, <2>2 DEF FeedCovers
  <1>13. LeaseTypes'
    BY <1>3, <1>6, <1>9 DEF LeaseInv, LeaseTypes
  <1>14. IInv' /\ HistoryGrows
    BY <1>1, <1>3, TableStays
  <1> QED BY <1>1, <1>3, <1>6, <1>10, <1>11, <1>12, <1>13, <1>14, LeaseMoves

LEMMA ReadEventStep ==
    ASSUME LeaseInv, ReadEvent PROVE LeaseInv'
  <1> DEFINE buf == Tail(feed.buf)
             f == [feed EXCEPT !.buf = buf]
             known == timers \cup tried
             more == timers' \cup tried'
  <1>1. /\ IInv /\ seq \in Nat /\ feed \in Subscription
        /\ feed.last \in Nat /\ feed.since \in Nat /\ feed.buf \in Seq(Row)
        /\ timers \in SUBSET Nat
        /\ ListerOK(seq, lister) /\ FeedOK(seq, feed) /\ TtlOK(lister, feed, ttl)
        /\ ~ttl.stopped => ListCovers(Live, lister, known)
        /\ FeedCovers(Live, feed, known)
    BY LeaseTypesAre
  <1>2. /\ feed.pc = "reading" /\ feed.buf # <<>> /\ feed' = f /\ lister' = lister
        /\ timers' = timers \cup Leased({Head(feed.buf)})
        /\ tried' = tried /\ ttl' = ttl /\ UNCHANGED storeVars
    BY DEF ReadEvent
  <1>3. /\ buf \in Seq(Row) /\ Head(feed.buf) = feed.buf[1] /\ feed.buf[1] \in Row
        /\ \A i \in DOMAIN buf : i + 1 \in DOMAIN feed.buf /\ buf[i] = feed.buf[i + 1]
        /\ \A i \in DOMAIN feed.buf : i = 1 \/ \E j \in DOMAIN buf : buf[j] = feed.buf[i]
    <2>1. /\ Len(feed.buf) \in Nat /\ Len(feed.buf) > 0
          /\ DOMAIN feed.buf = 1..Len(feed.buf)
          /\ buf \in Seq(Row) /\ DOMAIN buf = 1..(Len(feed.buf) - 1)
          /\ Head(feed.buf) = feed.buf[1]
          /\ \A i \in 1..(Len(feed.buf) - 1) : buf[i] = feed.buf[i + 1]
      BY <1>1, <1>2
    <2> HIDE DEF buf
    <2>2. feed.buf[1] \in Row
      BY <1>1, <2>1
    <2>3. ASSUME NEW i \in DOMAIN feed.buf, i # 1
          PROVE  \E j \in DOMAIN buf : buf[j] = feed.buf[i]
      <3>1. i - 1 \in DOMAIN buf /\ (i - 1) + 1 = i
        BY <2>1, <2>3
      <3>2. buf[i - 1] = feed.buf[(i - 1) + 1]
        BY <2>1, <3>1
      <3> QED BY <3>1, <3>2
    <2> QED BY <2>1, <2>2, <2>3
  <1>4. Leased({Head(feed.buf)}) \in SUBSET Nat
    BY <1>3 DEF Leased, Row
  <1>5. feed.buf[1].lease > 0 => feed.buf[1].id \in more
    BY <1>2, <1>3 DEF Leased
  <1> HIDE DEF buf
  <1>6. /\ f \in Subscription /\ f.pc = "reading" /\ f.open = feed.open /\ f.buf = buf
        /\ f.last = feed.last /\ f.since = feed.since
    BY <1>1, <1>2, <1>3 DEF Subscription
  <1> HIDE DEF f
  <1>7. FeedOK(seq, f)
    BY <1>1, <1>3, <1>6 DEF FeedOK
  <1>8. TtlOK(lister, f, ttl)
    BY <1>1, <1>2, <1>6 DEF TtlOK
  <1>9. FeedCovers(Live, f, more)
    <2>1. ASSUME NEW r \in Live, NEW i \in DOMAIN buf, buf[i].id = r.id
          PROVE  buf[i].lease > 0
      BY <1>1, <1>3, <2>1 DEF FeedCovers
    <2>2. ASSUME feed.open, NEW r \in Live, feed.since < r.id, r.id <= feed.last,
                 r.id \notin more
          PROVE  \E i \in DOMAIN buf : buf[i].id = r.id
      <3>1. r.id \notin known
        BY <1>2, <2>2
      <3>2. PICK i \in DOMAIN feed.buf : feed.buf[i].id = r.id
        BY <1>1, <2>2, <3>1 DEF FeedCovers
      <3>3. feed.buf[i].lease > 0
        BY <1>1, <3>2 DEF FeedCovers
      <3>4. i # 1
        BY <1>5, <2>2, <3>2, <3>3
      <3> QED BY <1>3, <3>2, <3>4
    <2> QED BY <1>6, <2>1, <2>2 DEF FeedCovers
  <1>10. ~ttl.stopped => ListCovers(Live, lister, more)
    BY <1>1, <1>2, MoreKnown
  <1>11. LeaseTypes'
    BY <1>1, <1>2, <1>4, <1>6 DEF LeaseInv, LeaseTypes
  <1>12. IInv' /\ HistoryGrows
    BY <1>1, <1>2, TableStays
  <1> QED BY <1>1, <1>2, <1>7, <1>8, <1>9, <1>10, <1>11, <1>12, LeaseMoves

LEMMA EndReadingStep ==
    ASSUME LeaseInv, EndReading PROVE LeaseInv'
  <1> DEFINE f == [feed EXCEPT !.pc = "ended"]
             known == timers \cup tried
  <1>1. /\ IInv /\ seq \in Nat /\ feed \in Subscription
        /\ feed.last \in Nat /\ feed.since \in Nat /\ feed.buf \in Seq(Row)
        /\ ttl \in TtlState
        /\ ListerOK(seq, lister) /\ FeedOK(seq, feed) /\ TtlOK(lister, feed, ttl)
        /\ ~ttl.stopped => ListCovers(Live, lister, known)
        /\ FeedCovers(Live, feed, known)
    BY LeaseTypesAre
  <1>2. /\ feed.pc = "reading" /\ ~feed.open /\ feed' = f /\ Release /\ lister' = lister
        /\ timers' = timers /\ tried' = tried /\ UNCHANGED storeVars
    BY DEF EndReading
  <1>3. /\ ttl' \in TtlState /\ ttl'.stopped = ttl.stopped /\ ttl'.running = ttl.running
        /\ ttl'.shouldClose /\ ttl'.closed = ttl.shouldClose
    BY <1>1, <1>2, ReleaseIs
  <1>4. /\ f \in Subscription /\ f.pc = "ended" /\ f.open = feed.open /\ f.buf = feed.buf
        /\ f.last = feed.last /\ f.since = feed.since
    BY <1>1 DEF Subscription
  <1> HIDE DEF f
  <1>5. FeedOK(seq, f)
    BY <1>1, <1>4 DEF FeedOK
  <1>6. TtlOK(lister, f, ttl')
    BY <1>1, <1>2, <1>3, <1>4 DEF TtlOK
  <1>7. FeedCovers(Live, f, known)
    BY <1>1, <1>4 DEF FeedCovers
  <1>8. LeaseTypes'
    BY <1>2, <1>3, <1>4 DEF LeaseInv, LeaseTypes
  <1>9. IInv' /\ HistoryGrows
    BY <1>1, <1>2, TableStays
  <1> QED BY <1>1, <1>2, <1>3, <1>5, <1>6, <1>7, <1>8, <1>9, LeaseMoves

-----------------------------------------------------------------------------
(* ttl *)

\* The delete adds a row to the history, or nothing happens to the store.
LEMMA ExpireStep ==
    ASSUME LeaseInv, NEW rev \in timers, Expire(rev) PROVE LeaseInv'
  <1> DEFINE known == timers \cup tried
  <1>1. /\ IInv /\ seq \in Nat /\ timers \in SUBSET Nat /\ tried \in SUBSET Nat
        /\ ListerOK(seq, lister) /\ FeedOK(seq, feed) /\ TtlOK(lister, feed, ttl)
        /\ ~ttl.stopped => ListCovers(Live, lister, known)
        /\ FeedCovers(Live, feed, known)
    BY LeaseTypesAre
  <1>2. /\ timers' = timers \ {rev} /\ tried' = tried \cup {rev}
        /\ UNCHANGED compactor /\ lister' = lister /\ feed' = feed /\ ttl' = ttl
    BY DEF Expire
  <1>3. timers' \cup tried' = known
    BY <1>2
  <1>4. LeaseTypes'
    BY <1>1, <1>2 DEF LeaseInv, LeaseTypes
  <1>5. IInv' /\ HistoryGrows
    <2>1. CASE UNCHANGED <<kine, seq, log>>
      <3>1. UNCHANGED storeVars
        BY <1>2, <2>1 DEF storeVars
      <3> QED BY <1>1, <3>1, TableStays
    <2>2. ASSUME NEW k \in Keys, NEW row \in DeleteSQL(kine, NextId, k, rev), Insert(row)
          PROVE  IInv' /\ HistoryGrows
      <3>1. IInv'
        BY <1>1, <1>2, <2>2, DeleteRowStep
      <3>2. row.id = seq + 1
        BY DEF DeleteSQL, NextId
      <3> QED BY <2>2, <3>1, <3>2 DEF Insert, HistoryGrows
    <2>3. \/ UNCHANGED <<kine, seq, log>>
          \/ \E k \in Keys : \E row \in DeleteSQL(kine, NextId, k, rev) : Insert(row)
      BY DEF Expire
    <2> QED BY <2>1, <2>2, <2>3
  <1> QED BY <1>1, <1>2, <1>3, <1>4, <1>5, LeaseMoves

LEMMA StopStep ==
    ASSUME LeaseInv, Stop PROVE LeaseInv'
  <1> DEFINE f == [feed EXCEPT !.open = FALSE]
             t == [ttl EXCEPT !.stopped = TRUE]
             known == timers \cup tried
  <1>1. /\ IInv /\ seq \in Nat /\ feed \in Subscription
        /\ feed.last \in Nat /\ feed.since \in Nat /\ feed.buf \in Seq(Row)
        /\ ttl \in TtlState
        /\ ListerOK(seq, lister) /\ FeedOK(seq, feed) /\ TtlOK(lister, feed, ttl)
        /\ FeedCovers(Live, feed, known)
    BY LeaseTypesAre
  <1>2. /\ ttl' = t /\ feed' = f /\ timers' = {} /\ lister' = lister /\ tried' = tried
        /\ UNCHANGED storeVars
    BY DEF Stop
  <1>3. /\ t \in TtlState /\ t.stopped /\ t.running = ttl.running
        /\ t.shouldClose = ttl.shouldClose /\ t.closed = ttl.closed
    BY <1>1 DEF TtlState
  <1>4. /\ f \in Subscription /\ f.pc = feed.pc /\ ~f.open /\ f.buf = feed.buf
        /\ f.last = feed.last /\ f.since = feed.since
    BY <1>1 DEF Subscription
  <1> HIDE DEF f, t
  <1>5. FeedOK(seq, f)
    BY <1>1, <1>4 DEF FeedOK
  <1>6. TtlOK(lister, f, t)
    BY <1>1, <1>3, <1>4 DEF TtlOK
  <1>7. FeedCovers(Live, f, timers' \cup tried')
    BY <1>1, <1>4 DEF FeedCovers
  <1>8. LeaseTypes'
    BY <1>2, <1>3, <1>4 DEF LeaseInv, LeaseTypes
  <1>9. IInv' /\ HistoryGrows
    BY <1>1, <1>2, TableStays
  <1> QED BY <1>1, <1>2, <1>3, <1>5, <1>6, <1>7, <1>8, <1>9, LeaseMoves

LEMMA EndTtlStep ==
    ASSUME LeaseInv, EndTtl PROVE LeaseInv'
  <1> DEFINE t == [ttl EXCEPT !.running = FALSE]
             known == timers \cup tried
  <1>1. /\ IInv /\ seq \in Nat /\ ttl \in TtlState
        /\ ListerOK(seq, lister) /\ FeedOK(seq, feed) /\ TtlOK(lister, feed, ttl)
        /\ ~ttl.stopped => ListCovers(Live, lister, known)
        /\ FeedCovers(Live, feed, known)
    BY LeaseTypesAre
  <1>2. /\ ttl.closed /\ ttl' = t /\ feed' = feed /\ timers' = timers
        /\ lister' = lister /\ tried' = tried /\ UNCHANGED storeVars
    BY DEF EndTtl
  <1>3. /\ t \in TtlState /\ t.stopped = ttl.stopped
        /\ t.shouldClose = ttl.shouldClose /\ t.closed = ttl.closed
    BY <1>1 DEF TtlState
  <1> HIDE DEF t
  <1>4. TtlOK(lister, feed, t)
    BY <1>1, <1>2, <1>3 DEF TtlOK
  <1>5. LeaseTypes'
    BY <1>2, <1>3 DEF LeaseInv, LeaseTypes
  <1>6. IInv' /\ HistoryGrows
    BY <1>1, <1>2, TableStays
  <1> QED BY <1>1, <1>2, <1>3, <1>4, <1>5, <1>6, LeaseMoves

\* The store does something of its own, or nothing happens at all.
LEMMA StoreSteps ==
    ASSUME LeaseInv, UNCHANGED leaseVars, Next \/ UNCHANGED storeVars PROVE LeaseInv'
  <1>1. /\ IInv
        /\ ListerOK(seq, lister) /\ FeedOK(seq, feed) /\ TtlOK(lister, feed, ttl)
        /\ ~ttl.stopped => ListCovers(Live, lister, timers \cup tried)
        /\ FeedCovers(Live, feed, timers \cup tried)
    BY LeaseTypesAre
  <1>2. /\ lister' = lister /\ feed' = feed /\ timers' = timers /\ tried' = tried
        /\ ttl' = ttl
    BY DEF leaseVars
  <1>3. IInv' /\ HistoryGrows
    BY <1>1, NextStep, NextGrows, TableStays
  <1>4. LeaseTypes'
    BY <1>2 DEF LeaseInv, LeaseTypes
  <1> QED BY <1>1, <1>2, <1>3, <1>4, LeaseMoves

-----------------------------------------------------------------------------
(* The theorems *)

LEMMA LeaseInitStep ==
    ASSUME LeaseInit PROVE LeaseInv
  <1>1. /\ Init /\ timers = {} /\ tried = {}
        /\ lister = [pc |-> "page", after |-> 0, rev |-> 0, page |-> {}, seen |-> 0]
        /\ feed = [pc |-> "idle", open |-> FALSE, buf |-> <<>>, last |-> 0, since |-> 0]
        /\ ttl = [stopped |-> FALSE, running |-> TRUE, shouldClose |-> FALSE, closed |-> FALSE]
    BY DEF LeaseInit
  <1>2. IInv /\ seq \in Nat
    BY <1>1, InitStep DEF IInv, TypeOK
  <1>3. lister \in Lister /\ ttl \in TtlState
    BY <1>1 DEF Lister, TtlState
  <1>4. feed \in Subscription
    <2>1. <<>> \in Seq(Row)
      OBVIOUS
    <2> QED BY <1>1, <2>1 DEF Subscription
  <1>5. LeaseTypes
    BY <1>1, <1>3, <1>4 DEF LeaseTypes
  <1>6. ListerOK(seq, lister)
    BY <1>1, <1>2 DEF ListerOK
  <1>7. DOMAIN feed.buf = {}
    BY <1>1
  <1>8. FeedOK(seq, feed)
    BY <1>1, <1>2, <1>7 DEF FeedOK
  <1>9. TtlOK(lister, feed, ttl)
    BY <1>1 DEF TtlOK
  <1>10. Live = {}
    BY <1>1 DEF Live, ListCurrent, Latest, Named, Init
  <1> QED BY <1>2, <1>5, <1>6, <1>8, <1>9, <1>10 DEF LeaseInv, ListCovers, FeedCovers

LEMMA LeaseSteps ==
    ASSUME LeaseInv, [LeaseNext]_vars PROVE LeaseInv'
  <1>1. CASE Next /\ UNCHANGED leaseVars
    BY <1>1, StoreSteps
  <1>2. CASE Feed
    BY <1>2, FeedStep
  <1>3. CASE ListPage
    BY <1>3, ListPageStep
  <1>4. CASE PageRevision
    BY <1>4, PageRevisionStep
  <1>5. CASE SendPage
    BY <1>5, SendPageStep
  <1>6. CASE EndListing
    BY <1>6, EndListingStep
  <1>7. CASE Subscribe
    BY <1>7, SubscribeStep
  <1>8. CASE ReadEvent
    BY <1>8, ReadEventStep
  <1>9. CASE EndReading
    BY <1>9, EndReadingStep
  <1>10. ASSUME NEW rev \in timers, Expire(rev) PROVE LeaseInv'
    BY <1>10, ExpireStep
  <1>11. CASE EndTtl
    BY <1>11, EndTtlStep
  <1>12. CASE Stop
    BY <1>12, StopStep
  <1>13. CASE UNCHANGED vars
    <2>1. UNCHANGED leaseVars /\ UNCHANGED storeVars
      BY <1>13 DEF vars
    <2> QED BY <2>1, StoreSteps
  <1> QED BY <1>1, <1>2, <1>3, <1>4, <1>5, <1>6, <1>7, <1>8, <1>9, <1>10, <1>11,
             <1>12, <1>13 DEF LeaseNext, TtlStep

\* The list and the subscription cover the live versions between them.
THEOREM LeaseInvariance == LeaseSpec => []LeaseInv
  <1>1. LeaseInit => LeaseInv
    BY LeaseInitStep
  <1>2. LeaseInv /\ [LeaseNext]_vars => LeaseInv'
    BY LeaseSteps
  <1> QED BY <1>1, <1>2, PTL DEF LeaseSpec

\* The only published leased version that ttl knows nothing about, once the list
\* has ended and while the subscription is open, was written after the list began
\* and published before the subscription did (ttlEvents), for any page size, any
\* capacity and any interleaving with writes and compactions.
THEOREM OnlyTheRace == LeaseSpec => []OnlyTheRaceIsUntimed
  <1>1. ASSUME LeaseInv PROVE OnlyTheRaceIsUntimed
    <2> SUFFICES ASSUME Following, NEW r \in Untimed
                 PROVE  lister.seen < r.id /\ r.id <= feed.since
      BY DEF OnlyTheRaceIsUntimed
    <2>1. /\ IInv /\ lister.seen \in Nat /\ feed.since \in Nat /\ TtlOK(lister, feed, ttl)
          /\ ~ttl.stopped => ListCovers(Live, lister, timers \cup tried)
          /\ FeedCovers(Live, feed, timers \cup tried)
      BY <1>1, LeaseTypesAre
    <2>2. /\ r \in Live /\ r.id <= feed.last /\ r.id \notin timers \cup tried
          /\ \A i \in DOMAIN feed.buf : feed.buf[i].id # r.id
      BY DEF Untimed, Live
    <2>3. r.id \in Nat
      BY <2>1, <2>2, LiveInTable
    <2>4. lister.pc = "ended" /\ feed.open /\ ~ttl.stopped
      BY <2>1 DEF Following, TtlOK
    <2>5. ~(r.id <= lister.seen)
      BY <2>1, <2>2, <2>4 DEF ListCovers
    <2>6. ~(feed.since < r.id)
      BY <2>1, <2>2, <2>4 DEF FeedCovers
    <2> QED BY <2>1, <2>3, <2>5, <2>6
  <1> QED BY <1>1, LeaseInvariance, PTL

\* The channel from ttlEvents to ttl is closed by the second of the two goroutines
\* to return, and by nobody before, and ttl runs until then.
THEOREM LastCloses == LeaseSpec => []ClosedByTheLast
  <1>1. ASSUME LeaseInv PROVE ClosedByTheLast
    BY <1>1 DEF LeaseInv, TtlOK, ClosedByTheLast
  <1> QED BY <1>1, LeaseInvariance, PTL
=============================================================================
