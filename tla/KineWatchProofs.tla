-------------------------- MODULE KineWatchProofs --------------------------
(***************************************************************************)
(* Proofs about the poll loop, the broadcaster and the watches of          *)
(* KineWatch, for any number of keys, nodes, watches and revisions, any    *)
(* size of a poll query and any capacity of a subscription.                *)
(*                                                                         *)
(* The poll loop reads an initial part of the rows after its last          *)
(* revision, so a row that it passes without reading is not in the table,  *)
(* which is the compacted history.  A batch is above everything that is    *)
(* buffered, and what is buffered above everything delivered but the list. *)
(* So each event after the list of a watch that is not cancelled is        *)
(* delivered, underway, within the list, compacted, or above all of them.  *)
(***************************************************************************)
EXTENDS KineWatch, KineStoreProofs

-----------------------------------------------------------------------------
(* The inductive invariant *)

PollState ==
    [pc : {"off", "start", "wait", "fill", "send", "stopped", "closed"},
     from : Nat, last : Nat, skip : Nat, batch : SUBSET Nat]

Subscription == [open : BOOLEAN, buf : Seq(SUBSET Nat)]

Watch ==
    [pc : {"idle", "rows", "revision", "stream", "ended"}, rev : Nat,
     rows : SUBSET Nat, lost : SUBSET Nat, seen : Nat, upto : Nat, cancelled : BOOLEAN]

FeedTypes ==
    /\ poll \in PollState
    /\ polled \subseteq Nat
    /\ subs \in [Watchers -> Subscription]
    /\ watch \in [Watchers -> Watch]
    /\ delivered \in [Watchers -> Seq(SUBSET Nat)]

\* The revisions of the history that compaction has not removed: of all rows,
\* and of the client rows alone.
Owed == {r.id : r \in {q \in log : ~CompactedAway(q)}}

KeyOwed == {r.id : r \in {q \in Named(log, Keys) : ~CompactedAway(q)}}

\* Where the poll loop is, when the newest revision is n.  The revision that
\* it is about to fill has been issued, because it read a row beyond it.
PollOK(n, owed, p, ids) ==
    /\ p.from <= p.last /\ p.last <= n
    /\ p.pc \in {"off", "start"} => p.from = 0 /\ p.last = 0 /\ ids = {}
    /\ \A i \in ids : i <= p.last
    /\ p.batch \subseteq ids
    /\ p.pc \notin {"send", "fill"} => p.batch = {}
    /\ p.pc = "fill" => 0 < p.skip /\ p.skip <= n
    /\ \A x \in owed : p.from < x /\ x <= p.last => x \in ids

\* The revisions of a sequence of batches, and that they ascend.
AllOf(s) == UNION {s[i] : i \in DOMAIN s}

Ascending(s) ==
    \A i, j \in DOMAIN s : i < j => \A x \in s[i], y \in s[j] : x < y

\* A subscription buffers what the poll loop has passed, in order, and the
\* batch on its way comes after it.
BufferOK(p, s) ==
    /\ Ascending(s.buf)
    /\ \A x \in AllOf(s.buf) : x <= p.last /\ \A y \in p.batch : x < y

\* Where a watch is.
StageOK(n, p, s, o, d) ==
    /\ p.pc \in {"off", "start"} => o.pc = "idle"
    /\ o.pc = "idle" => ~s.open /\ s.buf = <<>>
    /\ o.pc \in {"idle", "rows", "revision"} => d = <<>>
    /\ o.pc # "stream" => o.upto = 0
    /\ o.rev <= n /\ o.seen <= n /\ o.upto <= n
    /\ \A x \in o.rows : x <= o.seen

\* What is delivered is in order, and what is not from the list is below
\* everything that may still come.
OrderOK(p, s, o, d) ==
    /\ Ascending(d)
    /\ o.pc = "stream" =>
           \A x \in AllOf(d) : \/ x <= o.upto
                               \/ /\ x <= p.last
                                  /\ \A y \in AllOf(s.buf) \cup p.batch : x < y

\* The revisions on their way to a watch.
Coming(p, s) == AllOf(s.buf) \cup {x \in p.batch : s.open}

\* A watch that is not cancelled has got what its list covers.  A later event
\* arrives, or lies within the list, or is ahead of all that the watch has got
\* and will get from what was polled so far.
HoleOK(owed, p, s, o, d) ==
    ~o.cancelled => \A x \in owed :
        /\ o.pc = "revision" /\ o.rev < x /\ x <= o.seen => x \in o.rows \cup o.lost
        /\ o.pc = "stream" /\ o.rev < x /\ x <= o.seen => x \in AllOf(d) \cup o.lost
        /\ o.pc \in {"revision", "stream"} /\ o.seen < x =>
              \/ x \in Coming(p, s) \cup AllOf(d)
              \/ x <= o.upto
              \/ /\ \A y \in Coming(p, s) \cup AllOf(d) : y < x
                 /\ s.open => p.last < x

WatchOK(n, owed, p, s, o, d) ==
    /\ BufferOK(p, s)
    /\ StageOK(n, p, s, o, d)
    /\ OrderOK(p, s, o, d)
    /\ HoleOK(owed, p, s, o, d)

WatchInv ==
    /\ IInv
    /\ FeedTypes
    /\ PollOK(seq, Owed, poll, polled)
    /\ \A w \in Watchers :
           WatchOK(seq, KeyOwed, poll, subs[w], watch[w], delivered[w])

-----------------------------------------------------------------------------
(* Sequences of batches *)

LEMMA AllOfEmpty == AllOf(<<>>) = {} /\ Ascending(<<>>)
  BY DEF AllOf, Ascending

\* A batch that is above all others goes last.
LEMMA AppendBatch ==
    ASSUME NEW s \in Seq(SUBSET Nat), NEW b \in SUBSET Nat
    PROVE  /\ AllOf(Append(s, b)) = AllOf(s) \cup b
           /\ Ascending(s) /\ (\A x \in AllOf(s), y \in b : x < y) =>
                  Ascending(Append(s, b))
  <1> DEFINE t == Append(s, b)
  <1>1. /\ Len(s) \in Nat /\ DOMAIN s = 1..Len(s) /\ DOMAIN t = 1..Len(s) + 1
        /\ t[Len(s) + 1] = b
        /\ \A i \in 1..Len(s) : t[i] = s[i]
    OBVIOUS
  <1>2. \A i \in DOMAIN t : (i \in DOMAIN s /\ t[i] = s[i]) \/ (i = Len(s) + 1 /\ t[i] = b)
    BY <1>1
  <1>3. \A i \in DOMAIN s : i \in DOMAIN t /\ t[i] = s[i] /\ i < Len(s) + 1
    BY <1>1
  <1>4. Len(s) + 1 \in DOMAIN t
    BY <1>1
  <1> HIDE DEF t
  <1>5. AllOf(t) = AllOf(s) \cup b
    <2>1. \A x : x \in AllOf(t) <=> \E i \in DOMAIN t : x \in t[i]
      BY DEF AllOf
    <2>2. \A x : x \in AllOf(s) <=> \E i \in DOMAIN s : x \in s[i]
      BY DEF AllOf
    <2>3. \A x \in AllOf(t) : x \in AllOf(s) \cup b
      BY <1>2, <2>1, <2>2
    <2>4. \A x \in AllOf(s) : x \in AllOf(t)
      BY <1>3, <2>1, <2>2
    <2>5. \A x \in b : x \in AllOf(t)
      BY <1>1, <1>4, <2>1
    <2> QED BY <2>3, <2>4, <2>5
  <1>6. ASSUME Ascending(s), \A x \in AllOf(s), y \in b : x < y
        PROVE  Ascending(t)
    <2> SUFFICES ASSUME NEW i \in DOMAIN t, NEW j \in DOMAIN t, i < j,
                        NEW x \in t[i], NEW y \in t[j]
                 PROVE  x < y
      BY DEF Ascending
    <2>1. i \in DOMAIN s /\ t[i] = s[i]
      BY <1>1, <1>2
    <2>2. CASE j \in DOMAIN s /\ t[j] = s[j]
      BY <1>6, <2>1, <2>2 DEF Ascending
    <2>3. CASE t[j] = b
      <3>1. x \in AllOf(s)
        BY <2>1 DEF AllOf
      <3> QED BY <1>6, <2>3, <3>1
    <2> QED BY <1>2, <2>2, <2>3
  <1> QED BY <1>5, <1>6 DEF t

\* The first batch is below the others.
LEMMA TakeBatch ==
    ASSUME NEW s \in Seq(SUBSET Nat), s # <<>>
    PROVE  /\ Head(s) \in SUBSET Nat /\ Tail(s) \in Seq(SUBSET Nat)
           /\ AllOf(s) = Head(s) \cup AllOf(Tail(s))
           /\ Ascending(s) => /\ Ascending(Tail(s))
                              /\ \A x \in Head(s), y \in AllOf(Tail(s)) : x < y
  <1> DEFINE t == Tail(s)
  <1>1. /\ Len(s) \in Nat \ {0} /\ DOMAIN s = 1..Len(s) /\ DOMAIN t = 1..Len(s) - 1
        /\ Head(s) = s[1] /\ t \in Seq(SUBSET Nat)
        /\ \A i \in 1..Len(s) - 1 : t[i] = s[i + 1]
    OBVIOUS
  <1>2. \A i \in DOMAIN t : i + 1 \in DOMAIN s /\ t[i] = s[i + 1] /\ 1 < i + 1
    BY <1>1
  <1>3. 1 \in DOMAIN s /\ s[1] \in SUBSET Nat
    BY <1>1
  <1>4. \A i \in DOMAIN s : i = 1 \/ (i - 1 \in DOMAIN t /\ s[i] = t[i - 1])
    BY <1>1
  <1>5. \A i, j \in DOMAIN t : i < j => i + 1 < j + 1
    BY <1>1
  <1> HIDE DEF t
  <1>6. AllOf(s) = Head(s) \cup AllOf(t)
    <2>1. \A x : x \in AllOf(t) <=> \E i \in DOMAIN t : x \in t[i]
      BY DEF AllOf
    <2>2. \A x : x \in AllOf(s) <=> \E i \in DOMAIN s : x \in s[i]
      BY DEF AllOf
    <2>3. \A x \in AllOf(s) : x \in s[1] \/ x \in AllOf(t)
      BY <1>4, <2>1, <2>2
    <2>4. \A x \in AllOf(t) : x \in AllOf(s)
      BY <1>2, <2>1, <2>2
    <2>5. \A x \in s[1] : x \in AllOf(s)
      BY <1>3, <2>2
    <2> QED BY <1>1, <2>3, <2>4, <2>5
  <1>7. ASSUME Ascending(s) PROVE Ascending(t)
    BY <1>2, <1>5, <1>7 DEF Ascending
  <1>8. ASSUME Ascending(s), NEW x \in Head(s), NEW y \in AllOf(t) PROVE x < y
    <2>1. PICK i \in DOMAIN t : y \in t[i]
      BY DEF AllOf
    <2>2. i + 1 \in DOMAIN s /\ y \in s[i + 1] /\ 1 < i + 1
      BY <1>2, <2>1
    <2> QED BY <1>1, <1>3, <1>8, <2>2 DEF Ascending
  <1> QED BY <1>1, <1>3, <1>6, <1>7, <1>8 DEF t
-----------------------------------------------------------------------------
(* Steps of the table *)

\* What compaction has removed stays removed.
LEMMA CompactedStays ==
    ASSUME compactRev \in Nat, compactRev' \in Nat, compactRev <= compactRev',
           log \subseteq log', \A q \in log' : q.id \in Nat,
           NEW r \in log, CompactedAway(r)
    PROVE  CompactedAway(r)'
  <1>1. CASE r.deleted /\ r.id <= compactRev
    <2>1. r.id \in Nat
      OBVIOUS
    <2> QED BY <1>1, <2>1 DEF CompactedAway
  <1>2. CASE Superseded(r, compactRev)
    <2>1. PICK q \in log : ~q.created /\ q.prev = r.id /\ q.id <= compactRev
      BY <1>2 DEF Superseded
    <2>2. q \in log' /\ q.id \in Nat
      OBVIOUS
    <2>3. q.id <= compactRev'
      BY <2>1, <2>2
    <2> QED BY <2>1, <2>2, <2>3 DEF CompactedAway, Superseded
  <1> QED BY <1>1, <1>2 DEF CompactedAway

\* Only a fresh revision can become owed.
LEMMA OwedGrows ==
    ASSUME IInv, IInv', compactRev <= compactRev', HistoryGrows
    PROVE  /\ seq \in Nat /\ seq' \in {seq, seq + 1}
           /\ \A x \in Owed' : x \in Owed \/ (x = seq + 1 /\ seq' = seq + 1)
           /\ \A x \in KeyOwed' : x \in KeyOwed \/ (x = seq + 1 /\ seq' = seq + 1)
  <1>1. seq \in Nat /\ compactRev \in Nat /\ compactRev' \in Nat
    BY DEF IInv, TypeOK, KineInv
  <1>2. /\ seq' \in {seq, seq + 1} /\ log \subseteq log'
        /\ \A r \in log' : r \in log \/ (r.id = seq + 1 /\ seq' = seq + 1)
    BY DEF HistoryGrows
  <1>3. \A q \in log' : q.id \in Nat
    BY DEF IInv, LogInv
  <1>4. \A r \in log : CompactedAway(r) => CompactedAway(r)'
    BY <1>1, <1>2, <1>3, CompactedStays
  <1>5. \A x \in Owed' : \E r \in log' : x = r.id /\ ~CompactedAway(r)'
    BY DEF Owed
  <1>6. \A x \in KeyOwed' : \E r \in log' : x = r.id /\ r.name \in Keys /\ ~CompactedAway(r)'
    BY DEF KeyOwed, Named
  <1>7. \A r \in log : ~CompactedAway(r) => r.id \in Owed
    BY DEF Owed
  <1>8. \A r \in log : ~CompactedAway(r) /\ r.name \in Keys => r.id \in KeyOwed
    BY DEF KeyOwed, Named
  <1>9. \A x \in Owed' : x \in Owed \/ (x = seq + 1 /\ seq' = seq + 1)
    BY <1>2, <1>4, <1>5, <1>7
  <1>10. \A x \in KeyOwed' : x \in KeyOwed \/ (x = seq + 1 /\ seq' = seq + 1)
    BY <1>2, <1>4, <1>6, <1>8
  <1> QED BY <1>1, <1>2, <1>9, <1>10

\* Revisions that are owed have been issued.
LEMMA OwedIssued ==
    ASSUME IInv
    PROVE  /\ Owed \subseteq 1..seq /\ KeyOwed \subseteq 1..seq
           /\ KeyOwed \subseteq KeyEvents /\ KeyOwed \subseteq Owed
  BY DEF IInv, LogInv, Owed, KeyOwed, KeyEvents, Named

\* A fresh revision is ahead of the poll loop ...
LEMMA PollStays ==
    ASSUME NEW n \in Nat, NEW m \in {n, n + 1}, NEW owed, NEW owes,
           \A x \in owes : x \in owed \/ x = n + 1,
           NEW p \in PollState, NEW ids, PollOK(n, owed, p, ids)
    PROVE  PollOK(m, owes, p, ids)
  <1>1. p.last \in Nat /\ p.skip \in Nat /\ p.last <= n /\ n <= m
    BY DEF PollState, PollOK
  <1>2. \A x \in owes : p.from < x /\ x <= p.last => x \in ids
    BY <1>1 DEF PollOK
  <1>3. p.last <= m /\ (p.pc = "fill" => 0 < p.skip /\ p.skip <= m)
    BY <1>1 DEF PollOK
  <1> QED BY <1>2, <1>3 DEF PollOK

\* Everything a watch has got or will get so far has been issued.
LEMMA FeedIsIssued ==
    ASSUME NEW n \in Nat, NEW owed, NEW due, NEW ids \in SUBSET Nat,
           NEW p \in PollState, NEW s \in Subscription, NEW o \in Watch,
           NEW d \in Seq(SUBSET Nat),
           PollOK(n, due, p, ids), WatchOK(n, owed, p, s, o, d)
    PROVE  /\ \A x \in Coming(p, s) : x \in Nat /\ x <= p.last /\ x <= n
           /\ o.pc \in {"idle", "rows", "revision"} => AllOf(d) = {}
           /\ o.pc = "stream" => \A x \in AllOf(d) : x \in Nat /\ x <= n
  <1>1. p.last \in Nat /\ o.upto \in Nat /\ p.batch \in SUBSET Nat /\ s.buf \in Seq(SUBSET Nat)
    BY DEF PollState, Watch, Subscription
  <1>2. AllOf(s.buf) \subseteq Nat /\ AllOf(d) \subseteq Nat
    BY <1>1 DEF AllOf
  <1>3. \A x \in Coming(p, s) : x \in Nat /\ x <= p.last
    BY <1>1, <1>2 DEF Coming, WatchOK, BufferOK, PollOK
  <1>4. p.last <= n
    BY DEF PollOK
  <1>5. o.pc \in {"idle", "rows", "revision"} => AllOf(d) = {}
    BY AllOfEmpty DEF WatchOK, StageOK
  <1>6. ASSUME o.pc = "stream", NEW x \in AllOf(d) PROVE x <= n
    <2>1. x <= o.upto \/ x <= p.last
      BY <1>6 DEF WatchOK, OrderOK
    <2>2. o.upto <= n
      BY DEF WatchOK, StageOK
    <2> QED BY <1>1, <1>2, <1>4, <2>1, <2>2
  <1> QED BY <1>1, <1>2, <1>3, <1>4, <1>5, <1>6

\* ... and of every watch.
LEMMA WatchStays ==
    ASSUME NEW n \in Nat, NEW m \in {n, n + 1}, NEW owed, NEW owes,
           \A x \in owes : x \in owed \/ x = n + 1,
           NEW due, NEW ids \in SUBSET Nat, NEW p \in PollState,
           NEW s \in Subscription, NEW o \in Watch, NEW d \in Seq(SUBSET Nat),
           PollOK(n, due, p, ids), WatchOK(n, owed, p, s, o, d)
    PROVE  WatchOK(m, owes, p, s, o, d)
  <1>1. p.last \in Nat /\ o.rev \in Nat /\ o.seen \in Nat /\ o.upto \in Nat
    BY DEF PollState, Watch
  <1>2. BufferOK(p, s) /\ OrderOK(p, s, o, d)
    BY DEF WatchOK
  <1>3. StageOK(m, p, s, o, d)
    <2>1. StageOK(n, p, s, o, d)
      BY DEF WatchOK
    <2>2. o.rev <= m /\ o.seen <= m /\ o.upto <= m
      BY <1>1, <2>1 DEF StageOK
    <2> QED BY <2>1, <2>2 DEF StageOK
  <1>4. p.last <= n /\ o.seen <= n
    BY DEF PollOK, WatchOK, StageOK
  <1>5. ASSUME o.pc \in {"revision", "stream"}, NEW y \in Coming(p, s) \cup AllOf(d)
        PROVE  y \in Nat /\ y < n + 1
    <2>1. /\ \A x \in Coming(p, s) : x \in Nat /\ x <= n
          /\ \A x \in AllOf(d) : x \in Nat /\ x <= n
      BY <1>5, FeedIsIssued
    <2> QED BY <1>5, <2>1
  <1>6. HoleOK(owes, p, s, o, d)
    <2> SUFFICES ASSUME ~o.cancelled, NEW x \in owes
                 PROVE  /\ o.pc = "revision" /\ o.rev < x /\ x <= o.seen =>
                              x \in o.rows \cup o.lost
                        /\ o.pc = "stream" /\ o.rev < x /\ x <= o.seen =>
                              x \in AllOf(d) \cup o.lost
                        /\ o.pc \in {"revision", "stream"} /\ o.seen < x =>
                              \/ x \in Coming(p, s) \cup AllOf(d)
                              \/ x <= o.upto
                              \/ /\ \A y \in Coming(p, s) \cup AllOf(d) : y < x
                                 /\ s.open => p.last < x
      BY DEF HoleOK
    <2>1. CASE x \in owed
      BY <2>1 DEF WatchOK, HoleOK
    <2>2. CASE x = n + 1
      BY <1>1, <1>4, <1>5, <2>2
    <2> QED BY <2>1, <2>2
  <1> QED BY <1>2, <1>3, <1>6 DEF WatchOK

\* The poll loop and the broadcaster move, in a way that is sound for the
\* history so far, and the history may grow as well.
LEMMA FeedMoves ==
    ASSUME WatchInv, IInv', compactRev <= compactRev', HistoryGrows,
           watch' = watch, delivered' = delivered,
           poll' \in PollState, polled' \in SUBSET Nat,
           subs' \in [Watchers -> Subscription],
           PollOK(seq, Owed, poll', polled'),
           \A w \in Watchers :
               WatchOK(seq, KeyOwed, poll', subs'[w], watch[w], delivered[w])
    PROVE  WatchInv'
  <1>1. IInv /\ FeedTypes
    BY DEF WatchInv
  <1>2. /\ seq \in Nat /\ seq' \in {seq, seq + 1}
        /\ \A x \in Owed' : x \in Owed \/ x = seq + 1
        /\ \A x \in KeyOwed' : x \in KeyOwed \/ x = seq + 1
    BY <1>1, OwedGrows
  <1>3. PollOK(seq', Owed', poll', polled')
    BY <1>2, PollStays
  <1>4. ASSUME NEW w \in Watchers
        PROVE  WatchOK(seq', KeyOwed', poll', subs'[w], watch[w], delivered[w])
    <2>1. subs'[w] \in Subscription /\ watch[w] \in Watch /\ delivered[w] \in Seq(SUBSET Nat)
      BY <1>1 DEF FeedTypes
    <2> QED BY <1>2, <2>1, WatchStays
  <1>5. FeedTypes'
    BY <1>1 DEF FeedTypes
  <1> QED BY <1>3, <1>4, <1>5 DEF WatchInv

LEMMA StoreMoves ==
    ASSUME WatchInv, IInv', compactRev <= compactRev', HistoryGrows, UNCHANGED feedVars
    PROVE  WatchInv'
  <1>1. /\ poll' = poll /\ polled' = polled /\ subs' = subs
        /\ watch' = watch /\ delivered' = delivered
    BY DEF feedVars
  <1>2. /\ PollOK(seq, Owed, poll', polled')
        /\ \A w \in Watchers :
              WatchOK(seq, KeyOwed, poll', subs'[w], watch[w], delivered[w])
    BY <1>1 DEF WatchInv
  <1>3. poll' \in PollState /\ polled' \in SUBSET Nat /\ subs' \in [Watchers -> Subscription]
    BY <1>1 DEF WatchInv, FeedTypes
  <1> QED BY <1>1, <1>2, <1>3, FeedMoves

\* The table has not moved.
LEMMA StoreStays ==
    ASSUME IInv, UNCHANGED storeVars
    PROVE  IInv' /\ seq' = seq /\ Owed' = Owed /\ KeyOwed' = KeyOwed
  <1>1. kine' = kine /\ log' = log /\ seq' = seq
    BY DEF storeVars
  <1>2. compactRev' = compactRev
    BY <1>1 DEF compactRev
  <1>3. \A r : CompactedAway(r)' <=> CompactedAway(r)
    BY <1>1, <1>2 DEF CompactedAway, Superseded
  <1>4. Owed' = Owed /\ KeyOwed' = KeyOwed
    BY <1>1, <1>3 DEF Owed, KeyOwed
  <1> QED BY <1>1, <1>4, StutterStep

\* Steps of one watch.
LEMMA OneWatch ==
    ASSUME WatchInv, UNCHANGED <<storeVars, poll, polled>>, NEW w \in Watchers,
           \A v \in Watchers \ {w} : /\ subs'[v] = subs[v]
                                     /\ watch'[v] = watch[v]
                                     /\ delivered'[v] = delivered[v],
           subs' \in [Watchers -> Subscription], watch' \in [Watchers -> Watch],
           delivered' \in [Watchers -> Seq(SUBSET Nat)],
           WatchOK(seq, KeyOwed, poll, subs'[w], watch'[w], delivered'[w])
    PROVE  WatchInv'
  <1>1. IInv' /\ seq' = seq /\ Owed' = Owed /\ KeyOwed' = KeyOwed
    BY StoreStays DEF WatchInv
  <1>2. poll' = poll /\ polled' = polled
    OBVIOUS
  <1>3. FeedTypes'
    BY <1>2 DEF WatchInv, FeedTypes
  <1>4. PollOK(seq', Owed', poll', polled')
    BY <1>1, <1>2 DEF WatchInv
  <1>5. ASSUME NEW v \in Watchers
        PROVE  WatchOK(seq', KeyOwed', poll', subs'[v], watch'[v], delivered'[v])
    <2>1. CASE v = w
      BY <1>1, <1>2, <2>1
    <2>2. CASE v # w
      <3>1. WatchOK(seq, KeyOwed, poll, subs[v], watch[v], delivered[v])
        BY DEF WatchInv
      <3> QED BY <1>1, <1>2, <2>2, <3>1
    <2> QED BY <2>1, <2>2
  <1> QED BY <1>1, <1>3, <1>4, <1>5 DEF WatchInv

-----------------------------------------------------------------------------
(* Steps of a watch *)

\* The state of a watch, as far as its types go.
LEMMA WatchTypes ==
    ASSUME WatchInv, NEW w \in Watchers
    PROVE  /\ seq \in Nat /\ poll \in PollState /\ polled \in SUBSET Nat
           /\ subs[w] \in Subscription /\ watch[w] \in Watch
           /\ delivered[w] \in Seq(SUBSET Nat)
           /\ WatchOK(seq, KeyOwed, poll, subs[w], watch[w], delivered[w])
           /\ PollOK(seq, Owed, poll, polled)
  BY DEF WatchInv, FeedTypes, IInv, TypeOK

LEMMA StartWatchStep ==
    ASSUME WatchInv, NEW w \in Watchers, NEW start \in 0..seq + 1, StartWatch(w, start)
    PROVE  WatchInv'
  <1> DEFINE o == watch[w]
             s == subs[w]
             d == delivered[w]
             rev == IF start > 0 THEN start - 1 ELSE 0
             oo == [o EXCEPT !.pc = "rows", !.rev = rev]
             ss == Open(s)
  <1>1. /\ seq \in Nat /\ poll \in PollState /\ s \in Subscription /\ o \in Watch
        /\ WatchOK(seq, KeyOwed, poll, s, o, d)
    BY WatchTypes
  <1>2. rev \in Nat /\ rev <= seq
    BY <1>1
  <1> HIDE DEF rev
  <1>3. /\ o.pc = "idle" /\ poll.pc \notin {"off", "start"}
        /\ watch' = [watch EXCEPT ![w] = oo]
        /\ subs' = [subs EXCEPT ![w] = ss]
        /\ delivered' = delivered /\ UNCHANGED <<storeVars, poll, polled>>
    BY DEF StartWatch, rev
  <1>4. /\ oo \in Watch /\ oo.pc = "rows" /\ oo.rev = rev /\ oo.rows = o.rows
        /\ oo.seen = o.seen /\ oo.upto = o.upto
    BY <1>1, <1>2 DEF Watch
  <1>5. ss \in Subscription /\ ss.buf = s.buf
    BY <1>1 DEF Subscription, Open
  <1> HIDE DEF oo, ss
  <1>6. s.buf = <<>> /\ d = <<>>
    BY <1>1, <1>3 DEF WatchOK, StageOK
  <1>7. BufferOK(poll, ss)
    BY <1>5, <1>6, AllOfEmpty DEF BufferOK
  <1>8. StageOK(seq, poll, ss, oo, d)
    BY <1>1, <1>2, <1>3, <1>4, <1>6 DEF WatchOK, StageOK
  <1>9. OrderOK(poll, ss, oo, d)
    BY <1>4, <1>6, AllOfEmpty DEF OrderOK
  <1>10. HoleOK(KeyOwed, poll, ss, oo, d)
    BY <1>4 DEF HoleOK
  <1>11. WatchOK(seq, KeyOwed, poll, ss, oo, d)
    BY <1>7, <1>8, <1>9, <1>10 DEF WatchOK
  <1>12. /\ subs' \in [Watchers -> Subscription] /\ watch' \in [Watchers -> Watch]
         /\ delivered' \in [Watchers -> Seq(SUBSET Nat)]
         /\ subs'[w] = ss /\ watch'[w] = oo /\ delivered'[w] = d
         /\ \A v \in Watchers \ {w} : /\ subs'[v] = subs[v]
                                      /\ watch'[v] = watch[v]
                                      /\ delivered'[v] = delivered[v]
    BY <1>3, <1>4, <1>5 DEF WatchInv, FeedTypes
  <1> QED BY <1>3, <1>11, <1>12, OneWatch

LEMMA ListRowsStep ==
    ASSUME WatchInv, NEW w \in Watchers, ListRows(w)
    PROVE  WatchInv'
  <1> DEFINE o == watch[w]
             s == subs[w]
             d == delivered[w]
             all == {r.id : r \in After(kine, Keys, o.rev)}
  <1>0. PICK end \in 0..seq :
           watch' = [watch EXCEPT ![w].pc = "revision", ![w].seen = seq,
                                  ![w].rows = {i \in all : i <= end},
                                  ![w].lost = {i \in all : i > end}]
    BY DEF ListRows
  <1> DEFINE rows == {i \in all : i <= end}
             lost == {i \in all : i > end}
             oo == [o EXCEPT !.pc = "revision", !.seen = seq, !.rows = rows,
                             !.lost = lost]
  <1>1. /\ seq \in Nat /\ poll \in PollState /\ s \in Subscription /\ o \in Watch
        /\ WatchOK(seq, KeyOwed, poll, s, o, d) /\ IInv
    BY WatchTypes DEF WatchInv
  <1>2. \A x \in all : x \in Nat /\ x <= seq
    BY <1>1 DEF After, Named, IInv, KineInv
  <1>3. \A x \in KeyOwed : o.rev < x => x \in all
    <2> SUFFICES ASSUME NEW r \in log, r.name \in Keys, ~CompactedAway(r), o.rev < r.id
                 PROVE  r.id \in all
      BY DEF KeyOwed, Named
    <2>1. r \in Named(kine, Keys)
      BY <1>1 DEF IInv, TableIsCompactedLog, CompactedAway
    <2>2. r.id \in Nat /\ o.rev \in Nat
      BY <1>1 DEF IInv, LogInv, Watch
    <2> QED BY <2>1, <2>2 DEF After
  <1>4. /\ o.pc = "rows" /\ watch' = [watch EXCEPT ![w] = oo]
        /\ subs' = subs /\ delivered' = delivered /\ UNCHANGED <<storeVars, poll, polled>>
    BY <1>0 DEF ListRows
  <1> HIDE DEF all
  <1>12. /\ \A x \in rows : x \in Nat /\ x <= seq
         /\ \A x \in lost : x \in Nat
         /\ \A x \in all : x \in rows \cup lost
    BY <1>1, <1>2
  <1> HIDE DEF rows, lost
  <1>5. /\ oo \in Watch /\ oo.pc = "revision" /\ oo.rev = o.rev /\ oo.rows = rows
        /\ oo.lost = lost /\ oo.seen = seq /\ oo.upto = o.upto
    BY <1>1, <1>12 DEF Watch
  <1> HIDE DEF oo
  <1>6. BufferOK(poll, s)
    BY <1>1 DEF WatchOK
  <1>7. StageOK(seq, poll, s, oo, d)
    BY <1>1, <1>4, <1>5, <1>12 DEF WatchOK, StageOK
  <1>8. OrderOK(poll, s, oo, d)
    BY <1>1, <1>5 DEF WatchOK, OrderOK
  <1>9. HoleOK(KeyOwed, poll, s, oo, d)
    <2>1. \A x \in KeyOwed : x \in Nat /\ x <= seq
      BY <1>1, OwedIssued
    <2> QED BY <1>1, <1>3, <1>5, <1>12, <2>1 DEF HoleOK
  <1>10. WatchOK(seq, KeyOwed, poll, s, oo, d)
    BY <1>6, <1>7, <1>8, <1>9 DEF WatchOK
  <1>11. /\ subs' \in [Watchers -> Subscription] /\ watch' \in [Watchers -> Watch]
         /\ delivered' \in [Watchers -> Seq(SUBSET Nat)]
         /\ subs'[w] = s /\ watch'[w] = oo /\ delivered'[w] = d
         /\ \A v \in Watchers \ {w} : /\ subs'[v] = subs[v]
                                      /\ watch'[v] = watch[v]
                                      /\ delivered'[v] = delivered[v]
    BY <1>4, <1>5 DEF WatchInv, FeedTypes
  <1> QED BY <1>4, <1>10, <1>11, OneWatch

\* The list goes out as the first batch; everything underway is not below it
\* but within it, or after it.
LEMMA ListRevisionStep ==
    ASSUME WatchInv, NEW w \in Watchers, ListRevision(w)
    PROVE  WatchInv'
  <1> DEFINE o == watch[w]
             s == subs[w]
             d == delivered[w]
             up == ListedUpTo(o)
             c == o.cancelled \/ (o.rev > 0 /\ o.rev < CompactRev(kine))
             oo == [o EXCEPT !.pc = "stream", !.rows = {}, !.upto = up, !.cancelled = c]
             dd == IF o.rows = {} THEN d ELSE Append(d, o.rows)
  <1>1. /\ seq \in Nat /\ poll \in PollState /\ s \in Subscription /\ o \in Watch
        /\ WatchOK(seq, KeyOwed, poll, s, o, d) /\ IInv
        /\ polled \in SUBSET Nat /\ d \in Seq(SUBSET Nat)
        /\ PollOK(seq, Owed, poll, polled)
    BY WatchTypes DEF WatchInv
  <1>2. o.rev \in Nat /\ o.rows \in SUBSET Nat /\ o.seen \in Nat
    BY <1>1 DEF Watch
  <1>3. up \in Nat /\ up <= seq /\ (o.rows # {} => up = seq)
    BY <1>1, <1>2, MaxIdIsSeq DEF ListedUpTo, WatchOK, StageOK
  <1>4. c \in BOOLEAN /\ (~c => ~o.cancelled)
    BY <1>1 DEF Watch
  <1> HIDE DEF up, c
  <1>5. /\ o.pc = "revision" /\ watch' = [watch EXCEPT ![w] = oo]
        /\ subs' = subs /\ delivered' = [delivered EXCEPT ![w] = dd]
        /\ UNCHANGED <<storeVars, poll, polled>>
    BY DEF ListRevision, up, c
  <1>6. /\ oo \in Watch /\ oo.pc = "stream" /\ oo.rev = o.rev /\ oo.rows = {}
        /\ oo.lost = o.lost
        /\ oo.seen = o.seen /\ oo.upto = up /\ (~oo.cancelled => ~o.cancelled)
    BY <1>1, <1>3, <1>4 DEF Watch
  <1>7. d = <<>> /\ AllOf(d) = {} /\ Ascending(d) /\ o.upto = 0
    BY <1>1, <1>5, AllOfEmpty DEF WatchOK, StageOK
  <1>8. dd \in Seq(SUBSET Nat) /\ AllOf(dd) = o.rows /\ Ascending(dd)
    <2>1. CASE o.rows = {}
      BY <1>1, <1>7, <2>1
    <2>2. CASE o.rows # {}
      <3>1. dd = Append(d, o.rows) /\ dd \in Seq(SUBSET Nat)
        BY <1>1, <1>2, <2>2
      <3>2. AllOf(Append(d, o.rows)) = AllOf(d) \cup o.rows /\ Ascending(Append(d, o.rows))
        BY <1>1, <1>2, <1>7, AppendBatch
      <3> QED BY <1>7, <3>1, <3>2
    <2> QED BY <2>1, <2>2
  <1> HIDE DEF oo, dd
  <1>9. \A x \in o.rows : x \in Nat /\ x <= o.seen /\ x <= seq
    BY <1>1, <1>2 DEF WatchOK, StageOK
  <1>10. BufferOK(poll, s)
    BY <1>1 DEF WatchOK
  <1>11. StageOK(seq, poll, s, oo, dd)
    BY <1>1, <1>3, <1>5, <1>6 DEF WatchOK, StageOK
  <1>12. OrderOK(poll, s, oo, dd)
    BY <1>3, <1>6, <1>8, <1>9 DEF OrderOK
  <1>13. HoleOK(KeyOwed, poll, s, oo, dd)
    <2> SUFFICES ASSUME ~oo.cancelled, NEW x \in KeyOwed
                 PROVE  /\ o.rev < x /\ x <= o.seen => x \in o.rows \cup o.lost
                        /\ o.seen < x =>
                              \/ x \in Coming(poll, s)
                              \/ /\ \A y \in Coming(poll, s) \cup o.rows : y < x
                                 /\ s.open => poll.last < x
      BY <1>6, <1>8 DEF HoleOK
    <2>1. x \in Nat /\ 0 < x
      BY <1>1, OwedIssued
    <2>2. ~(x <= o.upto)
      BY <1>7, <2>1
    <2>3. HoleOK(KeyOwed, poll, s, o, d) /\ ~o.cancelled
      BY <1>1, <1>6 DEF WatchOK
    <2>4. o.rev < x /\ x <= o.seen => x \in o.rows \cup o.lost
      BY <1>5, <2>3 DEF HoleOK
    <2>5. o.seen < x =>
             \/ x \in Coming(poll, s)
             \/ /\ \A y \in Coming(poll, s) : y < x
                /\ s.open => poll.last < x
      BY <1>5, <1>7, <2>2, <2>3 DEF HoleOK
    <2>6. o.seen < x => \A y \in o.rows : y < x
      BY <1>2, <1>9, <2>1
    <2> QED BY <2>4, <2>5, <2>6
  <1>14. WatchOK(seq, KeyOwed, poll, s, oo, dd)
    BY <1>10, <1>11, <1>12, <1>13 DEF WatchOK
  <1>15. /\ subs' \in [Watchers -> Subscription] /\ watch' \in [Watchers -> Watch]
         /\ delivered' \in [Watchers -> Seq(SUBSET Nat)]
         /\ subs'[w] = s /\ watch'[w] = oo /\ delivered'[w] = dd
         /\ \A v \in Watchers \ {w} : /\ subs'[v] = subs[v]
                                      /\ watch'[v] = watch[v]
                                      /\ delivered'[v] = delivered[v]
    BY <1>5, <1>6, <1>8 DEF WatchInv, FeedTypes
  <1> QED BY <1>5, <1>14, <1>15, OneWatch

\* A watch that is cancelled owes nothing.
LEMMA CancelledStep ==
    ASSUME WatchInv, NEW w \in Watchers, ListFails(w) \/ EndWatch(w) \/ CancelWatch(w)
    PROVE  WatchInv'
  <1> DEFINE o == watch[w]
             s == subs[w]
             d == delivered[w]
  <1>1. /\ seq \in Nat /\ poll \in PollState /\ s \in Subscription /\ o \in Watch
        /\ WatchOK(seq, KeyOwed, poll, s, o, d) /\ d \in Seq(SUBSET Nat)
    BY WatchTypes
  <1>2. subs' = subs /\ delivered' = delivered /\ UNCHANGED <<storeVars, poll, polled>>
    BY DEF ListFails, EndWatch, CancelWatch
  <1>3. ASSUME NEW oo \in Watch, watch' = [watch EXCEPT ![w] = oo], oo.cancelled,
               StageOK(seq, poll, s, oo, d), OrderOK(poll, s, oo, d)
        PROVE  WatchInv'
    <2>1. WatchOK(seq, KeyOwed, poll, s, oo, d)
      BY <1>1, <1>3 DEF WatchOK, HoleOK
    <2>2. /\ subs' \in [Watchers -> Subscription] /\ watch' \in [Watchers -> Watch]
          /\ delivered' \in [Watchers -> Seq(SUBSET Nat)]
          /\ subs'[w] = s /\ watch'[w] = oo /\ delivered'[w] = d
          /\ \A v \in Watchers \ {w} : /\ subs'[v] = subs[v]
                                       /\ watch'[v] = watch[v]
                                       /\ delivered'[v] = delivered[v]
      BY <1>2, <1>3 DEF WatchInv, FeedTypes
    <2> QED BY <1>2, <2>1, <2>2, OneWatch
  <1>4. CASE ListFails(w)
    <2> DEFINE oo == [o EXCEPT !.pc = "stream", !.rows = {}, !.lost = {},
                               !.upto = o.rev, !.cancelled = TRUE]
    <2>1. watch' = [watch EXCEPT ![w] = oo] /\ o.pc \in {"rows", "revision"}
      BY <1>4 DEF ListFails
    <2>2. /\ oo \in Watch /\ oo.pc = "stream" /\ oo.rev = o.rev /\ oo.rows = {}
          /\ oo.seen = o.seen /\ oo.upto = o.rev /\ oo.cancelled
      BY <1>1 DEF Watch
    <2> HIDE DEF oo
    <2>3. StageOK(seq, poll, s, oo, d)
      BY <1>1, <2>1, <2>2 DEF WatchOK, StageOK
    <2>4. d = <<>>
      BY <1>1, <2>1 DEF WatchOK, StageOK
    <2>5. OrderOK(poll, s, oo, d)
      BY <2>4, AllOfEmpty DEF OrderOK
    <2> QED BY <1>3, <2>1, <2>2, <2>3, <2>5
  <1>5. CASE EndWatch(w)
    <2> DEFINE oo == [NoWatch EXCEPT !.pc = "ended", !.cancelled = TRUE]
    <2>1. watch' = [watch EXCEPT ![w] = oo] /\ o.pc = "stream"
      BY <1>5 DEF EndWatch
    <2>2. /\ oo \in Watch /\ oo.pc = "ended" /\ oo.rev = 0 /\ oo.rows = {}
          /\ oo.seen = 0 /\ oo.upto = 0 /\ oo.cancelled
      BY DEF Watch, NoWatch
    <2> HIDE DEF oo
    <2>3. StageOK(seq, poll, s, oo, d)
      BY <1>1, <2>1, <2>2 DEF WatchOK, StageOK
    <2>4. OrderOK(poll, s, oo, d)
      BY <1>1, <2>2 DEF WatchOK, OrderOK
    <2> QED BY <1>3, <2>1, <2>2, <2>3, <2>4
  <1>6. CASE CancelWatch(w)
    <2> DEFINE oo == [o EXCEPT !.cancelled = TRUE]
    <2>1. watch' = [watch EXCEPT ![w] = oo]
      BY <1>6 DEF CancelWatch
    <2>2. /\ oo \in Watch /\ oo.pc = o.pc /\ oo.rev = o.rev /\ oo.rows = o.rows
          /\ oo.seen = o.seen /\ oo.upto = o.upto /\ oo.cancelled
      BY <1>1 DEF Watch
    <2> HIDE DEF oo
    <2>3. StageOK(seq, poll, s, oo, d)
      BY <1>1, <2>2 DEF WatchOK, StageOK
    <2>4. OrderOK(poll, s, oo, d)
      BY <1>1, <2>2 DEF WatchOK, OrderOK
    <2> QED BY <1>3, <2>1, <2>2, <2>3, <2>4
  <1> QED BY <1>4, <1>5, <1>6

\* The next batch goes out, without what the list has sent: it is above all
\* that was delivered, and below all that is still to come.
LEMMA DeliverStep ==
    ASSUME WatchInv, NEW w \in Watchers, Deliver(w)
    PROVE  WatchInv'
  <1> DEFINE o == watch[w]
             s == subs[w]
             d == delivered[w]
             head == Head(s.buf)
             tail == Tail(s.buf)
             new == {i \in head \cap KeyEvents : i > o.upto}
             ss == [s EXCEPT !.buf = tail]
             dd == IF new = {} THEN d ELSE Append(d, new)
  <1>1. /\ seq \in Nat /\ poll \in PollState /\ s \in Subscription /\ o \in Watch
        /\ WatchOK(seq, KeyOwed, poll, s, o, d) /\ IInv
        /\ d \in Seq(SUBSET Nat)
    BY WatchTypes DEF WatchInv
  <1>2. o.upto \in Nat /\ s.buf \in Seq(SUBSET Nat) /\ poll.last \in Nat
        /\ poll.batch \in SUBSET Nat
    BY <1>1 DEF Watch, Subscription, PollState
  <1>3. o.pc = "stream" /\ s.buf # <<>>
    BY DEF Deliver
  <1>4. /\ head \in SUBSET Nat /\ tail \in Seq(SUBSET Nat)
        /\ AllOf(s.buf) = head \cup AllOf(tail)
        /\ Ascending(s.buf) => /\ Ascending(tail)
                               /\ \A x \in head, y \in AllOf(tail) : x < y
    BY <1>2, <1>3, TakeBatch
  <1>5. /\ Ascending(s.buf)
        /\ \A x \in AllOf(s.buf) : x <= poll.last /\ \A y \in poll.batch : x < y
    BY <1>1 DEF WatchOK, BufferOK
  <1>6. /\ new \in SUBSET Nat /\ new \subseteq head /\ (\A x \in new : o.upto < x)
        /\ \A x \in KeyOwed : x \in head => x \in new \/ x <= o.upto
    <2>1. KeyOwed \subseteq KeyEvents /\ KeyOwed \subseteq 1..seq
      BY <1>1, OwedIssued
    <2> QED BY <1>2, <1>4, <2>1
  <1> HIDE DEF head, tail
  <1>7. /\ subs' = [subs EXCEPT ![w] = ss] /\ watch' = watch
        /\ delivered' = [delivered EXCEPT ![w] = dd]
        /\ UNCHANGED <<storeVars, poll, polled>>
    BY DEF Deliver, head, tail
  <1> HIDE DEF new
  <1>8. ss \in Subscription /\ ss.buf = tail /\ (ss.open <=> s.open)
    BY <1>1, <1>4 DEF Subscription
  <1>9. \A x \in AllOf(d), y \in new : x < y
    <2>1. AllOf(d) \subseteq Nat
      BY <1>1 DEF AllOf
    <2> SUFFICES ASSUME NEW x \in AllOf(d), NEW y \in new PROVE x < y
      OBVIOUS
    <2>2. \/ x <= o.upto
          \/ \A z \in AllOf(s.buf) : x < z
      BY <1>1, <1>3 DEF WatchOK, OrderOK
    <2>3. y \in AllOf(s.buf) /\ o.upto < y /\ y \in Nat
      BY <1>4, <1>6
    <2> QED BY <1>2, <2>1, <2>2, <2>3
  <1>10. dd \in Seq(SUBSET Nat) /\ AllOf(dd) = AllOf(d) \cup new /\ Ascending(dd)
    <2>1. Ascending(d)
      BY <1>1 DEF WatchOK, OrderOK
    <2>2. CASE new = {}
      BY <1>1, <2>1, <2>2
    <2>3. CASE new # {}
      <3>1. dd = Append(d, new) /\ dd \in Seq(SUBSET Nat)
        BY <1>1, <1>6, <2>3
      <3>2. AllOf(Append(d, new)) = AllOf(d) \cup new /\ Ascending(Append(d, new))
        BY <1>1, <1>6, <1>9, <2>1, AppendBatch
      <3> QED BY <3>1, <3>2
    <2> QED BY <2>2, <2>3
  <1> HIDE DEF ss, dd
  <1>11. BufferOK(poll, ss)
    BY <1>4, <1>5, <1>8 DEF BufferOK
  <1>12. StageOK(seq, poll, ss, o, dd)
    BY <1>1, <1>3, <1>8 DEF WatchOK, StageOK
  <1>13. OrderOK(poll, ss, o, dd)
    <2> SUFFICES ASSUME NEW x \in AllOf(d) \cup new
                 PROVE  \/ x <= o.upto
                        \/ /\ x <= poll.last
                           /\ \A y \in AllOf(tail) \cup poll.batch : x < y
      BY <1>8, <1>10 DEF OrderOK
    <2>1. CASE x \in AllOf(d)
      BY <1>1, <1>3, <1>4, <2>1 DEF WatchOK, OrderOK
    <2>2. CASE x \in new
      BY <1>4, <1>5, <1>6, <2>2
    <2> QED BY <2>1, <2>2
  <1>14. HoleOK(KeyOwed, poll, ss, o, dd)
    <2>1. Coming(poll, ss) \cup AllOf(dd) \subseteq Coming(poll, s) \cup AllOf(d)
      BY <1>4, <1>6, <1>8, <1>10 DEF Coming
    <2>2. \A x \in KeyOwed : x \in Coming(poll, s) \cup AllOf(d) =>
             x \in Coming(poll, ss) \cup AllOf(dd) \/ x <= o.upto
      BY <1>4, <1>6, <1>8, <1>10 DEF Coming
    <2>3. HoleOK(KeyOwed, poll, s, o, d)
      BY <1>1 DEF WatchOK
    <2>4. AllOf(d) \subseteq AllOf(dd)
      BY <1>10
    <2> QED BY <1>3, <1>8, <2>1, <2>2, <2>3, <2>4 DEF HoleOK
  <1>15. WatchOK(seq, KeyOwed, poll, ss, o, dd)
    BY <1>11, <1>12, <1>13, <1>14 DEF WatchOK
  <1>16. /\ subs' \in [Watchers -> Subscription] /\ watch' \in [Watchers -> Watch]
         /\ delivered' \in [Watchers -> Seq(SUBSET Nat)]
         /\ subs'[w] = ss /\ watch'[w] = o /\ delivered'[w] = dd
         /\ \A v \in Watchers \ {w} : /\ subs'[v] = subs[v]
                                      /\ watch'[v] = watch[v]
                                      /\ delivered'[v] = delivered[v]
    BY <1>7, <1>8, <1>10 DEF WatchInv, FeedTypes
  <1> QED BY <1>7, <1>15, <1>16, OneWatch

\* Closing a subscription only keeps events away, from a watch that owes
\* nothing or that they are ahead of.
LEMMA CloseKeeps ==
    ASSUME NEW s \in Subscription
    PROVE  /\ Close(s) \in Subscription /\ Close(s).buf = s.buf /\ ~Close(s).open
  BY DEF Close, Subscription

LEMMA UnsubStep ==
    ASSUME WatchInv, NEW w \in Watchers, Unsub(w)
    PROVE  WatchInv'
  <1> DEFINE o == watch[w]
             s == subs[w]
             d == delivered[w]
             ss == Close(s)
  <1>1. /\ s \in Subscription /\ o \in Watch /\ WatchOK(seq, KeyOwed, poll, s, o, d)
    BY WatchTypes
  <1>2. ss \in Subscription /\ ss.buf = s.buf /\ ~ss.open
    BY <1>1, CloseKeeps
  <1> HIDE DEF ss
  <1>3. /\ o.cancelled /\ subs' = [subs EXCEPT ![w] = ss] /\ watch' = watch
        /\ delivered' = delivered /\ UNCHANGED <<storeVars, poll, polled>>
    BY DEF Unsub, ss
  <1>4. BufferOK(poll, ss) /\ OrderOK(poll, ss, o, d)
    BY <1>1, <1>2 DEF WatchOK, BufferOK, OrderOK
  <1>5. StageOK(seq, poll, ss, o, d)
    BY <1>1, <1>2 DEF WatchOK, StageOK
  <1>6. HoleOK(KeyOwed, poll, ss, o, d)
    BY <1>3 DEF HoleOK
  <1>7. WatchOK(seq, KeyOwed, poll, ss, o, d)
    BY <1>4, <1>5, <1>6 DEF WatchOK
  <1>8. /\ subs' \in [Watchers -> Subscription] /\ watch' \in [Watchers -> Watch]
        /\ delivered' \in [Watchers -> Seq(SUBSET Nat)]
        /\ subs'[w] = ss /\ watch'[w] = o /\ delivered'[w] = d
        /\ \A v \in Watchers \ {w} : /\ subs'[v] = subs[v]
                                     /\ watch'[v] = watch[v]
                                     /\ delivered'[v] = delivered[v]
    BY <1>2, <1>3 DEF WatchInv, FeedTypes
  <1> QED BY <1>3, <1>7, <1>8, OneWatch

-----------------------------------------------------------------------------
(* Steps of the poll loop and the broadcaster *)

LEMMA PollTypes ==
    ASSUME WatchInv
    PROVE  /\ seq \in Nat /\ poll \in PollState /\ polled \in SUBSET Nat
           /\ poll.from \in Nat /\ poll.last \in Nat /\ poll.skip \in Nat
           /\ poll.batch \in SUBSET Nat
           /\ subs \in [Watchers -> Subscription]
           /\ PollOK(seq, Owed, poll, polled) /\ IInv
  BY DEF WatchInv, FeedTypes, IInv, TypeOK, PollState

\* The poll loop is elsewhere, with the same batch.
LEMMA PollElsewhere ==
    ASSUME NEW n, NEW owed, NEW p \in PollState, NEW q \in PollState,
           p.last = q.last, p.batch = q.batch,
           q.pc \in {"off", "start"} => p.pc \in {"off", "start"},
           NEW s, NEW o, NEW d, WatchOK(n, owed, p, s, o, d)
    PROVE  WatchOK(n, owed, q, s, o, d)
  <1>1. BufferOK(q, s) /\ OrderOK(q, s, o, d)
    BY DEF WatchOK, BufferOK, OrderOK
  <1>2. StageOK(n, q, s, o, d)
    BY DEF WatchOK, StageOK
  <1>3. Coming(q, s) = Coming(p, s)
    BY DEF Coming
  <1>4. HoleOK(owed, q, s, o, d)
    BY <1>3 DEF WatchOK, HoleOK
  <1> QED BY <1>1, <1>2, <1>4 DEF WatchOK

LEMMA StutterGrows ==
    ASSUME IInv, UNCHANGED storeVars
    PROVE  IInv' /\ compactRev <= compactRev' /\ HistoryGrows
  BY StutterStep DEF HistoryGrows, storeVars

LEMMA StartCompactRowStep ==
    ASSUME WatchInv, StartCompactRow PROVE WatchInv'
  <1> DEFINE q == [poll EXCEPT !.pc = "start"]
             rows == CreateSQL(kine, NextId, CompactRevKey, NoValue, 0)
  <1>1. /\ seq \in Nat /\ poll \in PollState /\ polled \in SUBSET Nat
        /\ subs \in [Watchers -> Subscription]
        /\ PollOK(seq, Owed, poll, polled) /\ IInv
    BY PollTypes
  <1>2. /\ poll.pc = "off" /\ poll' = q /\ polled' = polled /\ subs' = subs
        /\ watch' = watch /\ delivered' = delivered /\ compactor' = compactor
        /\ \/ \E row \in rows : Insert(row)
           \/ rows = {} /\ UNCHANGED <<kine, seq, log>>
    BY DEF StartCompactRow
  <1>3. /\ q \in PollState /\ q.pc = "start" /\ q.from = poll.from /\ q.last = poll.last
        /\ q.skip = poll.skip /\ q.batch = poll.batch
    BY <1>1 DEF PollState
  <1> HIDE DEF q
  <1>4. compactor' \in [Nodes -> CompactionState]
    BY <1>1, <1>2 DEF IInv, TypeOK
  <1>5. \A row \in rows : row.id = seq + 1
    BY DEF CreateSQL, NextId
  <1>6. IInv' /\ compactRev <= compactRev'
    BY <1>1, <1>2, <1>4, CompactRowStep
  <1>7. HistoryGrows
    BY <1>2, <1>5 DEF HistoryGrows, Insert
  <1>8. PollOK(seq, Owed, q, polled)
    BY <1>1, <1>2, <1>3 DEF PollOK
  <1>9. \A w \in Watchers : WatchOK(seq, KeyOwed, q, subs[w], watch[w], delivered[w])
    BY <1>1, <1>2, <1>3, PollElsewhere DEF WatchInv
  <1> QED BY <1>1, <1>2, <1>3, <1>6, <1>7, <1>8, <1>9, FeedMoves

\* Nobody watches yet.
LEMMA StartPollStep ==
    ASSUME WatchInv, StartPoll PROVE WatchInv'
  <1> DEFINE q == [poll EXCEPT !.pc = "wait", !.from = compactRev, !.last = compactRev]
  <1>1. /\ seq \in Nat /\ poll \in PollState /\ polled \in SUBSET Nat
        /\ subs \in [Watchers -> Subscription]
        /\ PollOK(seq, Owed, poll, polled) /\ IInv
    BY PollTypes
  <1>2. /\ poll.pc = "start" /\ poll' = q /\ polled' = polled /\ subs' = subs
        /\ watch' = watch /\ delivered' = delivered /\ UNCHANGED storeVars
    BY DEF StartPoll, compactRev
  <1>3. compactRev \in Nat /\ compactRev <= seq
    BY <1>1 DEF IInv, KineInv
  <1>4. /\ q \in PollState /\ q.pc = "wait" /\ q.from = compactRev /\ q.last = compactRev
        /\ q.batch = poll.batch
    BY <1>1, <1>3 DEF PollState
  <1> HIDE DEF q
  <1>5. poll.batch = {} /\ polled = {}
    BY <1>1, <1>2 DEF PollOK
  <1>6. PollOK(seq, Owed, q, polled)
    <2>1. \A x \in Owed : ~(compactRev < x /\ x <= compactRev)
      BY <1>1, <1>3, OwedIssued
    <2> QED BY <1>3, <1>4, <1>5, <2>1 DEF PollOK
  <1>7. ASSUME NEW w \in Watchers
        PROVE  WatchOK(seq, KeyOwed, q, subs[w], watch[w], delivered[w])
    <2> DEFINE s == subs[w]
               o == watch[w]
               d == delivered[w]
    <2>1. WatchOK(seq, KeyOwed, poll, s, o, d)
      BY WatchTypes
    <2>2. o.pc = "idle" /\ s.buf = <<>>
      BY <1>2, <2>1 DEF WatchOK, StageOK
    <2>3. BufferOK(q, s)
      BY <2>2, AllOfEmpty DEF BufferOK
    <2>4. StageOK(seq, q, s, o, d)
      BY <1>4, <2>1 DEF WatchOK, StageOK
    <2>5. OrderOK(q, s, o, d) /\ HoleOK(KeyOwed, q, s, o, d)
      BY <2>1, <2>2 DEF WatchOK, OrderOK, HoleOK
    <2> QED BY <2>3, <2>4, <2>5 DEF WatchOK
  <1>8. IInv' /\ compactRev <= compactRev' /\ HistoryGrows
    BY <1>1, <1>2, StutterGrows
  <1> QED BY <1>1, <1>2, <1>4, <1>6, <1>7, <1>8, FeedMoves

\* The poll loop fills a gap below the newest revision, or comes too late.
LEMMA PollFillStep ==
    ASSUME WatchInv, PollFill PROVE WatchInv'
  <1> DEFINE pc == IF poll.batch = {} THEN "wait" ELSE "send"
             q == [poll EXCEPT !.pc = pc]
  <1>1. /\ seq \in Nat /\ poll \in PollState /\ polled \in SUBSET Nat
        /\ poll.skip \in Nat /\ subs \in [Watchers -> Subscription]
        /\ PollOK(seq, Owed, poll, polled) /\ IInv
    BY PollTypes
  <1>2. /\ poll.pc = "fill" /\ poll' = q /\ polled' = polled /\ subs' = subs
        /\ watch' = watch /\ delivered' = delivered /\ UNCHANGED <<seq, log, compactor>>
        /\ \/ /\ Accepts(kine, FillRow(poll.skip))
              /\ kine' = kine \cup {FillRow(poll.skip)}
           \/ UNCHANGED kine
    BY DEF PollFill
  <1>3. pc \in {"wait", "send"} /\ (pc = "wait" => poll.batch = {})
    OBVIOUS
  <1> HIDE DEF pc
  <1>4. /\ q \in PollState /\ q.pc = pc /\ q.from = poll.from /\ q.last = poll.last
        /\ q.skip = poll.skip /\ q.batch = poll.batch
    BY <1>1, <1>3 DEF PollState
  <1> HIDE DEF q
  <1>5. poll.skip \in 1..seq
    BY <1>1, <1>2 DEF PollOK
  <1>6. IInv' /\ compactRev <= compactRev'
    <2>1. CASE UNCHANGED kine
      BY <1>1, <1>2, <2>1, StutterStep DEF storeVars
    <2>2. CASE /\ Accepts(kine, FillRow(poll.skip))
               /\ kine' = kine \cup {FillRow(poll.skip)}
      BY <1>1, <1>2, <1>5, <2>2, FillRowStep
    <2> QED BY <1>2, <2>1, <2>2
  <1>7. HistoryGrows
    BY <1>2 DEF HistoryGrows
  <1>8. PollOK(seq, Owed, q, polled)
    BY <1>1, <1>3, <1>4 DEF PollOK
  <1>9. \A w \in Watchers : WatchOK(seq, KeyOwed, q, subs[w], watch[w], delivered[w])
    BY <1>1, <1>3, <1>4, PollElsewhere DEF WatchInv
  <1> QED BY <1>1, <1>2, <1>4, <1>6, <1>7, <1>8, <1>9, FeedMoves

LEMMA StopPollStep ==
    ASSUME WatchInv, StopPoll PROVE WatchInv'
  <1> DEFINE q == [poll EXCEPT !.pc = "stopped"]
  <1>1. /\ seq \in Nat /\ poll \in PollState /\ polled \in SUBSET Nat
        /\ subs \in [Watchers -> Subscription]
        /\ PollOK(seq, Owed, poll, polled) /\ IInv
    BY PollTypes
  <1>2. /\ poll.pc = "wait" /\ poll' = q /\ polled' = polled /\ subs' = subs
        /\ watch' = watch /\ delivered' = delivered /\ UNCHANGED storeVars
    BY DEF StopPoll
  <1>3. /\ q \in PollState /\ q.pc = "stopped" /\ q.from = poll.from /\ q.last = poll.last
        /\ q.skip = poll.skip /\ q.batch = poll.batch
    BY <1>1 DEF PollState
  <1> HIDE DEF q
  <1>4. PollOK(seq, Owed, q, polled)
    BY <1>1, <1>2, <1>3 DEF PollOK
  <1>5. \A w \in Watchers : WatchOK(seq, KeyOwed, q, subs[w], watch[w], delivered[w])
    BY <1>1, <1>3, PollElsewhere DEF WatchInv
  <1>6. IInv' /\ compactRev <= compactRev' /\ HistoryGrows
    BY <1>1, <1>2, StutterGrows
  <1> QED BY <1>1, <1>2, <1>3, <1>4, <1>5, <1>6, FeedMoves

\* A subscription is closed, with or without a batch that is dropped for it.
LEMMA ClosedOK ==
    ASSUME NEW n \in Nat, NEW owed \in SUBSET Nat, NEW due, NEW ids \in SUBSET Nat,
           NEW p \in PollState, NEW q \in PollState, q.last = p.last, q.batch = {},
           q.pc \notin {"off", "start"},
           NEW s \in Subscription, NEW o \in Watch, NEW d \in Seq(SUBSET Nat),
           PollOK(n, due, p, ids), WatchOK(n, owed, p, s, o, d)
    PROVE  WatchOK(n, owed, q, Close(s), o, d)
  <1> DEFINE ss == Close(s)
  <1>1. ss \in Subscription /\ ss.buf = s.buf /\ ~ss.open
    BY CloseKeeps
  <1> HIDE DEF ss
  <1>2. BufferOK(q, ss) /\ StageOK(n, q, ss, o, d)
    BY <1>1 DEF WatchOK, BufferOK, StageOK
  <1>3. OrderOK(q, ss, o, d)
    BY <1>1 DEF WatchOK, OrderOK
  <1>4. p.batch \in SUBSET Nat /\ o.upto \in Nat /\ AllOf(d) \subseteq Nat
    BY DEF PollState, Watch, AllOf
  <1>5. Coming(q, ss) = AllOf(s.buf)
    BY <1>1 DEF Coming
  <1>6. HoleOK(owed, q, ss, o, d)
    <2> SUFFICES ASSUME ~o.cancelled, o.pc \in {"revision", "stream"},
                        NEW x \in owed, o.seen < x,
                        x \notin AllOf(s.buf) \cup AllOf(d), ~(x <= o.upto)
                 PROVE  \A y \in AllOf(s.buf) \cup AllOf(d) : y < x
      BY <1>1, <1>5 DEF WatchOK, HoleOK
    <2>1. CASE x \in Coming(p, s)
      <3>1. x \in p.batch /\ x \in Nat
        BY <1>4, <2>1 DEF Coming
      <3>2. \A y \in AllOf(s.buf) : y < x
        BY <3>1 DEF WatchOK, BufferOK
      <3>3. ASSUME NEW y \in AllOf(d) PROVE y < x
        <4>1. o.pc = "stream"
          BY AllOfEmpty DEF WatchOK, StageOK
        <4>2. y <= o.upto \/ y < x
          BY <3>1, <3>3, <4>1 DEF WatchOK, OrderOK
        <4> QED BY <1>4, <3>1, <3>3, <4>2
      <3> QED BY <3>2, <3>3
    <2>2. CASE \A y \in Coming(p, s) \cup AllOf(d) : y < x
      BY <2>2 DEF Coming
    <2> QED BY <2>1, <2>2 DEF WatchOK, HoleOK
  <1> QED BY <1>2, <1>3, <1>6 DEF WatchOK, ss

LEMMA EndStreamStep ==
    ASSUME WatchInv, EndStream PROVE WatchInv'
  <1> DEFINE q == [poll EXCEPT !.pc = "closed"]
  <1>1. /\ seq \in Nat /\ poll \in PollState /\ polled \in SUBSET Nat
        /\ subs \in [Watchers -> Subscription]
        /\ PollOK(seq, Owed, poll, polled) /\ IInv
    BY PollTypes
  <1>2. /\ poll.pc = "stopped" /\ poll' = q /\ polled' = polled
        /\ subs' = [w \in Watchers |-> Close(subs[w])]
        /\ watch' = watch /\ delivered' = delivered /\ UNCHANGED storeVars
    BY DEF EndStream
  <1>3. /\ q \in PollState /\ q.pc = "closed" /\ q.from = poll.from /\ q.last = poll.last
        /\ q.skip = poll.skip /\ q.batch = poll.batch
    BY <1>1 DEF PollState
  <1> HIDE DEF q
  <1>4. poll.batch = {}
    BY <1>1, <1>2 DEF PollOK
  <1>5. PollOK(seq, Owed, q, polled)
    BY <1>1, <1>2, <1>3 DEF PollOK
  <1>6. KeyOwed \in SUBSET Nat
    BY <1>1, OwedIssued
  <1>7. ASSUME NEW w \in Watchers
        PROVE  WatchOK(seq, KeyOwed, q, Close(subs[w]), watch[w], delivered[w])
    <2>1. /\ subs[w] \in Subscription /\ watch[w] \in Watch
          /\ delivered[w] \in Seq(SUBSET Nat)
          /\ WatchOK(seq, KeyOwed, poll, subs[w], watch[w], delivered[w])
      BY WatchTypes
    <2>2. q.last = poll.last /\ q.batch = {} /\ q.pc \notin {"off", "start"}
      BY <1>3, <1>4
    <2> QED BY <1>1, <1>3, <1>6, <2>1, <2>2, ClosedOK
  <1>8. subs' \in [Watchers -> Subscription]
    BY <1>1, <1>2, CloseKeeps
  <1>9. \A w \in Watchers : WatchOK(seq, KeyOwed, q, subs'[w], watch[w], delivered[w])
    BY <1>2, <1>7
  <1>10. IInv' /\ compactRev <= compactRev' /\ HistoryGrows
    BY <1>1, <1>2, StutterGrows
  <1> QED BY <1>1, <1>2, <1>3, <1>5, <1>8, <1>9, <1>10, FeedMoves

\* The batch is not for a closed subscription.
LEMMA PassedOK ==
    ASSUME NEW n, NEW owed, NEW p \in PollState, NEW q \in PollState,
           q.last = p.last, q.batch = {}, q.pc \notin {"off", "start"},
           NEW s \in Subscription, ~s.open, NEW o, NEW d, WatchOK(n, owed, p, s, o, d)
    PROVE  WatchOK(n, owed, q, s, o, d)
  <1>1. BufferOK(q, s) /\ StageOK(n, q, s, o, d) /\ OrderOK(q, s, o, d)
    BY DEF WatchOK, BufferOK, StageOK, OrderOK
  <1>2. Coming(q, s) = Coming(p, s)
    BY DEF Coming
  <1>3. HoleOK(owed, q, s, o, d)
    BY <1>2 DEF WatchOK, HoleOK
  <1> QED BY <1>1, <1>3 DEF WatchOK

\* The batch goes into the buffer.
LEMMA BufferedOK ==
    ASSUME NEW n, NEW owed, NEW due, NEW ids, NEW p \in PollState, NEW q \in PollState,
           q.last = p.last, q.batch = {}, q.pc \notin {"off", "start"},
           NEW s \in Subscription, s.open, NEW o, NEW d,
           PollOK(n, due, p, ids), WatchOK(n, owed, p, s, o, d),
           NEW t \in Subscription, t.open, t.buf = Append(s.buf, p.batch)
    PROVE  WatchOK(n, owed, q, t, o, d)
  <1>1. s.buf \in Seq(SUBSET Nat) /\ p.batch \in SUBSET Nat
    BY DEF Subscription, PollState
  <1>2. /\ Ascending(s.buf)
        /\ \A x \in AllOf(s.buf) : x <= p.last /\ \A y \in p.batch : x < y
    BY DEF WatchOK, BufferOK
  <1>3. AllOf(t.buf) = AllOf(s.buf) \cup p.batch /\ Ascending(t.buf)
    BY <1>1, <1>2, AppendBatch
  <1>4. \A x \in p.batch : x <= p.last
    BY DEF PollOK
  <1>5. BufferOK(q, t)
    BY <1>2, <1>3, <1>4 DEF BufferOK
  <1>6. o.pc # "idle"
    BY DEF WatchOK, StageOK
  <1>7. StageOK(n, q, t, o, d)
    BY <1>6 DEF WatchOK, StageOK
  <1>8. OrderOK(q, t, o, d)
    BY <1>3 DEF WatchOK, OrderOK
  <1>9. Coming(q, t) = Coming(p, s)
    BY <1>3 DEF Coming
  <1>10. HoleOK(owed, q, t, o, d)
    BY <1>9 DEF WatchOK, HoleOK
  <1> QED BY <1>5, <1>7, <1>8, <1>10 DEF WatchOK

LEMMA PublishStep ==
    ASSUME WatchInv, Publish PROVE WatchInv'
  <1> DEFINE q == [poll EXCEPT !.pc = "wait", !.batch = {}]
             Next1(w) == [subs[w] EXCEPT !.buf = Append(subs[w].buf, poll.batch)]
  <1>1. /\ seq \in Nat /\ poll \in PollState /\ polled \in SUBSET Nat
        /\ subs \in [Watchers -> Subscription] /\ poll.batch \in SUBSET Nat
        /\ PollOK(seq, Owed, poll, polled) /\ IInv
    BY PollTypes
  <1>2. /\ poll.pc = "send" /\ poll' = q /\ polled' = polled
        /\ watch' = watch /\ delivered' = delivered /\ UNCHANGED storeVars
    BY DEF Publish
  <1>3. \A w \in Watchers :
           \/ ~subs[w].open /\ subs'[w] = subs[w]
           \/ subs[w].open /\ subs'[w] = Next1(w)
           \/ subs[w].open /\ subs'[w] = Close(subs[w])
    BY DEF Publish
  <1>4. DOMAIN subs' = Watchers /\ subs' = [w \in Watchers |-> subs'[w]]
    BY DEF Publish
  <1>5. /\ q \in PollState /\ q.pc = "wait" /\ q.from = poll.from /\ q.last = poll.last
        /\ q.skip = poll.skip /\ q.batch = {}
    BY <1>1 DEF PollState
  <1> HIDE DEF q
  <1>6. PollOK(seq, Owed, q, polled)
    BY <1>1, <1>2, <1>5 DEF PollOK
  <1>7. KeyOwed \in SUBSET Nat
    BY <1>1, OwedIssued
  <1>8. ASSUME NEW w \in Watchers
        PROVE  /\ subs'[w] \in Subscription
               /\ WatchOK(seq, KeyOwed, q, subs'[w], watch[w], delivered[w])
    <2>1. /\ subs[w] \in Subscription /\ watch[w] \in Watch
          /\ delivered[w] \in Seq(SUBSET Nat)
          /\ WatchOK(seq, KeyOwed, poll, subs[w], watch[w], delivered[w])
      BY WatchTypes
    <2>2. q.last = poll.last /\ q.batch = {} /\ q.pc \notin {"off", "start"}
      BY <1>5
    <2>3. CASE ~subs[w].open /\ subs'[w] = subs[w]
      BY <1>1, <1>5, <2>1, <2>2, <2>3, PassedOK
    <2>4. CASE subs[w].open /\ subs'[w] = Next1(w)
      <3>1. Append(subs[w].buf, poll.batch) \in Seq(SUBSET Nat)
        BY <1>1, <2>1 DEF Subscription
      <3>2. /\ Next1(w) \in Subscription /\ (Next1(w).open <=> subs[w].open)
            /\ Next1(w).buf = Append(subs[w].buf, poll.batch)
        BY <2>1, <3>1 DEF Subscription
      <3> HIDE DEF Next1
      <3> QED BY <1>1, <1>5, <2>1, <2>2, <2>4, <3>2, BufferedOK
    <2>5. CASE subs'[w] = Close(subs[w])
      <3>1. Close(subs[w]) \in Subscription
        BY <2>1, CloseKeeps
      <3> QED BY <1>1, <1>5, <1>7, <2>1, <2>2, <2>5, <3>1, ClosedOK
    <2> QED BY <1>3, <2>3, <2>4, <2>5
  <1>9. subs' \in [Watchers -> Subscription]
    BY <1>4, <1>8
  <1>10. IInv' /\ compactRev <= compactRev' /\ HistoryGrows
    BY <1>1, <1>2, StutterGrows
  <1> QED BY <1>1, <1>2, <1>5, <1>6, <1>8, <1>9, <1>10, FeedMoves

-----------------------------------------------------------------------------
(* What one poll reads *)

\* The query returns the first rows after the last revision.
LEMMA PolledIs ==
    ASSUME IInv, poll.last \in Nat, NEW size \in Nat
    PROVE  /\ \A i \in Polled(size) : i \in Nat /\ poll.last < i /\ i <= seq
           /\ \A i \in Polled(size) : \A r \in kine :
                 poll.last < r.id /\ r.id < i => r.id \in Polled(size)
  <1> DEFINE ids == {r.id : r \in {q \in kine : q.id > poll.last}}
             below(i) == {j \in ids : j < i}
  <1>1. /\ seq \in Nat /\ \A r \in kine : r.id \in 1..seq
    BY DEF IInv, TypeOK, KineInv
  <1>2. \A i \in ids : i \in 1..seq /\ poll.last < i
    BY <1>1
  <1>3. \A r \in kine : poll.last < r.id => r.id \in ids
    BY <1>1
  <1>4. Polled(size) = {i \in ids : Cardinality(below(i)) < size}
    BY DEF Polled
  <1> HIDE DEF ids
  <1>5. ASSUME NEW i \in ids, NEW j \in ids, j < i,
               Cardinality(below(i)) < size
        PROVE  Cardinality(below(j)) < size
    <2>1. IsFiniteSet(1..seq)
      BY <1>1, FS_Interval
    <2>2. below(i) \in SUBSET (1..seq)
      BY <1>2
    <2>3. IsFiniteSet(below(i))
      BY <2>1, <2>2, FS_Subset
    <2>4. below(j) \in SUBSET below(i)
      BY <1>1, <1>2, <1>5
    <2> HIDE DEF below
    <2>5. IsFiniteSet(below(j)) /\ Cardinality(below(j)) <= Cardinality(below(i))
      BY <2>3, <2>4, FS_Subset
    <2>6. Cardinality(below(j)) \in Nat /\ Cardinality(below(i)) \in Nat
      BY <2>3, <2>5, FS_CardinalityType
    <2> QED BY <1>5, <2>5, <2>6
  <1> HIDE DEF below
  <1>6. \A i \in Polled(size) : i \in Nat /\ poll.last < i /\ i <= seq
    BY <1>1, <1>2, <1>4
  <1>7. \A i \in Polled(size) : \A r \in kine :
           poll.last < r.id /\ r.id < i => r.id \in Polled(size)
    BY <1>3, <1>4, <1>5
  <1> QED BY <1>6, <1>7

\* An initial part of what was read.
Initial(size, ids) ==
    /\ ids \subseteq Polled(size)
    /\ \A i \in ids, j \in Polled(size) : j < i => j \in ids

\* The rows of a run are all those up to its end.
LEMMA RunIs ==
    ASSUME NEW ids \in SUBSET Nat, NEW rev \in Int
    PROVE  /\ Run(ids, rev) \subseteq ids
           /\ \A i \in Run(ids, rev), j \in ids : rev < j /\ j < i => j \in Run(ids, rev)
  <1>1. Run(ids, rev) \subseteq ids
    BY DEF Run
  <1>2. ASSUME NEW i \in Run(ids, rev), NEW j \in ids, rev < j, j < i
        PROVE  j \in Run(ids, rev)
    <2>1. i \in Nat /\ j \in Nat /\ \A k \in rev + 1..i : k \in ids
      BY DEF Run
    <2>2. \A k \in rev + 1..j : k \in rev + 1..i
      BY <1>2, <2>1
    <2> QED BY <1>2, <2>1, <2>2 DEF Run
  <1> QED BY <1>1, <1>2

LEMMA InOrderInitial ==
    ASSUME IInv, poll.last \in Nat, NEW size \in Nat PROVE Initial(size, InOrder(size))
  <1>1. Polled(size) \in SUBSET Nat /\ \A j \in Polled(size) : poll.last < j
    BY PolledIs
  <1>2. poll.last \in Int
    OBVIOUS
  <1> QED BY <1>1, <1>2, RunIs DEF Initial, InOrder

\* With the rows behind a gap, up to the next gap.
LEMMA AfterGapInitial ==
    ASSUME IInv, poll.last \in Nat, NEW size \in Nat, BeyondGap(size) # {}
    PROVE  /\ Initial(size, InOrder(size) \cup AfterGap(size))
           /\ AfterGap(size) # {} /\ AfterGap(size) \subseteq Polled(size)
  <1> DEFINE first == CHOOSE i \in BeyondGap(size) : \A j \in BeyondGap(size) : i <= j
  <1>1. Polled(size) \in SUBSET Nat /\ BeyondGap(size) \in SUBSET Nat
    BY PolledIs DEF BeyondGap
  <1>2. \E i \in BeyondGap(size) : \A j \in BeyondGap(size) : i <= j
    BY <1>1, LeastExists
  <1>3. first \in BeyondGap(size) /\ \A j \in BeyondGap(size) : first <= j
    BY <1>2
  <1>4. AfterGap(size) = Run(Polled(size), first - 1)
    BY DEF AfterGap
  <1> HIDE DEF first
  <1>5. first \in Nat /\ first \in Polled(size)
    BY <1>1, <1>3 DEF BeyondGap
  <1>6. first \in AfterGap(size)
    BY <1>4, <1>5 DEF Run
  <1>7. /\ AfterGap(size) \subseteq Polled(size)
        /\ \A i \in AfterGap(size), j \in Polled(size) :
              first - 1 < j /\ j < i => j \in AfterGap(size)
    <2> DEFINE b == first - 1
    <2>1. b \in Int
      BY <1>5
    <2> HIDE DEF b
    <2>2. /\ Run(Polled(size), b) \subseteq Polled(size)
          /\ \A i \in Run(Polled(size), b), j \in Polled(size) :
                b < j /\ j < i => j \in Run(Polled(size), b)
      BY <1>1, <2>1, RunIs
    <2> QED BY <1>4, <2>2 DEF b
  <1>8. ASSUME NEW i \in AfterGap(size), NEW j \in Polled(size), j < i
        PROVE  j \in InOrder(size) \cup AfterGap(size)
    <2>1. CASE j \in InOrder(size)
      BY <2>1
    <2>2. CASE j \notin InOrder(size)
      <3>1. first <= j /\ j \in Nat
        BY <1>1, <1>3, <2>2 DEF BeyondGap
      <3> QED BY <1>5, <1>7, <1>8, <3>1
    <2> QED BY <2>1, <2>2
  <1>9. Initial(size, InOrder(size))
    BY InOrderInitial
  <1> QED BY <1>6, <1>7, <1>8, <1>9 DEF Initial

\* A row was read beyond the missing revision, so that has been issued.
LEMMA MissingIs ==
    ASSUME IInv, poll.last \in Nat, NEW size \in Nat, BeyondGap(size) # {}
    PROVE  Missing(size) \in 1..seq
  <1>1. /\ Polled(size) \in SUBSET Nat
        /\ \A i \in Polled(size) : i \in Nat /\ poll.last < i /\ i <= seq
    BY PolledIs
  <1>2. PICK i \in Polled(size) : i \notin InOrder(size)
    BY DEF BeyondGap
  <1>3. i \in Nat /\ poll.last < i /\ i <= seq /\ seq \in Nat
    BY <1>1 DEF IInv, TypeOK
  <1>4. PICK j \in poll.last + 1..i : j \notin Polled(size)
    BY <1>2, <1>3 DEF InOrder, Run
  <1> DEFINE R == Run(Polled(size), poll.last)
             a == poll.last + 1
             b == j - 1
             I == a..b
  <1>5. j \in Nat /\ poll.last < j /\ j <= i
    BY <1>3, <1>4
  <1>6. R \in SUBSET I
    <2> SUFFICES ASSUME NEW k \in R PROVE k \in I
      OBVIOUS
    <2>1. k \in Nat /\ poll.last < k /\ \A l \in poll.last + 1..k : l \in Polled(size)
      BY <1>1 DEF Run
    <2>2. ~(j <= k)
      BY <1>4, <1>5, <2>1
    <2> QED BY <1>5, <2>1, <2>2
  <1>7. IsFiniteSet(I) /\ Cardinality(I) = IF a > b THEN 0 ELSE b - a + 1
    <2>1. a \in Int /\ b \in Int
      BY <1>5
    <2> HIDE DEF a, b
    <2> QED BY <2>1, FS_Interval
  <1>8. Cardinality(I) = j - 1 - poll.last
    BY <1>5, <1>7
  <1> HIDE DEF I, R
  <1>9. /\ IsFiniteSet(R) /\ Cardinality(R) <= Cardinality(I)
    BY <1>6, <1>7, FS_Subset
  <1>10. Cardinality(R) \in Nat
    BY <1>9, FS_CardinalityType
  <1>11. Missing(size) = poll.last + Cardinality(R) + 1
    BY DEF Missing, EndOf, R
  <1> QED BY <1>3, <1>5, <1>8, <1>9, <1>10, <1>11

-----------------------------------------------------------------------------
(* The poll loop advances *)

\* A row of the history that is not compacted is in the table, and no fill.
LEMMA OwedInTable ==
    ASSUME IInv, NEW x \in Owed
    PROVE  \E q \in kine : q.id = x /\ ~IsFill(q.name)
  <1>1. PICK r \in log : r.id = x /\ ~CompactedAway(r)
    BY DEF Owed
  <1>2. CASE r.name \in Keys
    <2>1. r \in Named(kine, Keys)
      BY <1>1, <1>2 DEF IInv, TableIsCompactedLog, CompactedAway
    <2> QED BY <1>1, <1>2, <2>1 DEF Named, IsFill
  <1>3. CASE r.name = CompactRevKey
    BY <1>1, <1>3 DEF IInv, KineInv, IsFill
  <1> QED BY <1>2, <1>3 DEF IInv, LogInv

\* So the poll loop does not pass an event without taking it along.
LEMMA BatchCovers ==
    ASSUME IInv, poll.last \in Nat, NEW size \in Nat, NEW ids, Initial(size, ids),
           NEW x \in Owed, NEW m \in ids, poll.last < x, x <= m
    PROVE  x \in Sequential(ids)
  <1>1. PICK q \in kine : q.id = x /\ ~IsFill(q.name)
    BY OwedInTable
  <1>2. x \in Nat /\ m \in Polled(size) /\ m \in Nat
    BY OwedIssued, PolledIs DEF Initial
  <1>3. x \in ids
    <2>1. CASE x = m
      BY <2>1
    <2>2. CASE x < m
      BY <1>1, <1>2, <2>2, PolledIs DEF Initial
    <2> QED BY <1>2, <2>1, <2>2
  <1> QED BY <1>1, <1>3 DEF Sequential

\* The batch of the poll loop is above all that went before.
LEMMA NextBatchOK ==
    ASSUME NEW n \in Nat, NEW owed \in SUBSET Nat,
           NEW p \in PollState, NEW q \in PollState,
           p.batch = {}, p.last <= q.last,
           \A x \in q.batch : p.last < x /\ x <= q.last,
           \A x \in owed : p.last < x /\ x <= q.last => x \in q.batch,
           q.pc \notin {"off", "start"},
           NEW s \in Subscription, NEW o \in Watch, NEW d \in Seq(SUBSET Nat),
           WatchOK(n, owed, p, s, o, d)
    PROVE  WatchOK(n, owed, q, s, o, d)
  <1>1. /\ p.last \in Nat /\ q.last \in Nat /\ q.batch \in SUBSET Nat
        /\ s.buf \in Seq(SUBSET Nat)
    BY DEF PollState, Subscription
  <1>2. AllOf(s.buf) \subseteq Nat /\ AllOf(d) \subseteq Nat
    BY <1>1 DEF AllOf
  <1>3. BufferOK(q, s)
    BY <1>1, <1>2 DEF WatchOK, BufferOK
  <1>4. StageOK(n, q, s, o, d)
    BY DEF WatchOK, StageOK
  <1>5. OrderOK(q, s, o, d)
    BY <1>1, <1>2 DEF WatchOK, OrderOK
  <1>6. Coming(p, s) = AllOf(s.buf)
    BY DEF Coming
  <1>7. ASSUME NEW x \in owed, \A y \in AllOf(s.buf) \cup AllOf(d) : y < x,
               s.open => p.last < x
        PROVE  \/ x \in Coming(q, s)
               \/ /\ \A y \in Coming(q, s) \cup AllOf(d) : y < x
                  /\ s.open => q.last < x
    <2>1. CASE ~s.open
      BY <1>7, <2>1 DEF Coming
    <2>2. CASE s.open /\ x <= q.last
      BY <1>7, <2>2 DEF Coming
    <2>3. CASE q.last < x
      <3>1. ASSUME NEW y \in q.batch PROVE y < x
        <4>1. y \in Nat /\ y <= q.last /\ x \in Nat
          BY <1>1
        <4> QED BY <1>1, <2>3, <4>1
      <3> QED BY <1>7, <2>3, <3>1 DEF Coming
    <2>4. x <= q.last \/ q.last < x
      <3>1. x \in Nat
        OBVIOUS
      <3> QED BY <1>1, <3>1
    <2> QED BY <2>1, <2>2, <2>3, <2>4
  <1>8. AllOf(s.buf) \subseteq Coming(q, s)
    BY DEF Coming
  <1>9. HoleOK(owed, q, s, o, d)
    <2> SUFFICES ASSUME ~o.cancelled, NEW x \in owed
                 PROVE  /\ o.pc = "revision" /\ o.rev < x /\ x <= o.seen =>
                              x \in o.rows \cup o.lost
                        /\ o.pc = "stream" /\ o.rev < x /\ x <= o.seen =>
                              x \in AllOf(d) \cup o.lost
                        /\ o.pc \in {"revision", "stream"} /\ o.seen < x =>
                              \/ x \in Coming(q, s) \cup AllOf(d)
                              \/ x <= o.upto
                              \/ /\ \A y \in Coming(q, s) \cup AllOf(d) : y < x
                                 /\ s.open => q.last < x
      BY DEF HoleOK
    <2> QED BY <1>6, <1>7, <1>8 DEF WatchOK, HoleOK
  <1> QED BY <1>3, <1>4, <1>5, <1>9 DEF WatchOK

LEMMA AdvanceStep ==
    ASSUME WatchInv, poll.pc = "wait", NEW pc \in {"wait", "fill"},
           NEW size \in Nat, NEW ids, Initial(size, ids),
           NEW skip \in Nat, pc = "fill" => 0 < skip /\ skip <= seq,
           Advance(pc, ids, skip)
    PROVE  WatchInv'
  <1> DEFINE batch == Sequential(ids)
             to == IF pc = "wait" /\ batch # {} THEN "send" ELSE pc
             m == MaxOf(ids \cup {poll.last})
             q == [poll EXCEPT !.pc = to, !.last = m, !.skip = skip, !.batch = batch]
  <1>1. /\ seq \in Nat /\ poll \in PollState /\ polled \in SUBSET Nat
        /\ poll.from \in Nat /\ poll.last \in Nat
        /\ subs \in [Watchers -> Subscription]
        /\ PollOK(seq, Owed, poll, polled) /\ IInv
    BY PollTypes
  <1>2. \A i \in ids : i \in Polled(size) /\ i \in Nat /\ poll.last < i /\ i <= seq
    BY <1>1, PolledIs DEF Initial
  <1>3. m \in ids \cup {poll.last} /\ \A i \in ids \cup {poll.last} : i <= m
    <2>1. poll.last <= seq
      BY <1>1 DEF PollOK
    <2>2. /\ ids \cup {poll.last} \in SUBSET Nat /\ ids \cup {poll.last} # {}
          /\ \A i \in ids \cup {poll.last} : i <= seq
      BY <1>1, <1>2, <2>1
    <2> QED BY <1>1, <2>2, MaxOfBounded
  <1>4. batch \subseteq ids /\ batch \in SUBSET Nat
    BY <1>2 DEF Sequential
  <1>5. \A x \in Owed : poll.last < x /\ x <= m => x \in batch
    <2> SUFFICES ASSUME NEW x \in Owed, poll.last < x, x <= m PROVE x \in batch
      OBVIOUS
    <2>1. x \in Nat
      BY <1>1, OwedIssued
    <2>2. m \in ids
      BY <1>1, <1>3, <2>1
    <2> HIDE DEF m, batch
    <2> QED BY <1>1, <2>2, BatchCovers DEF batch
  <1>6. /\ poll' = q /\ polled' = polled \cup batch /\ subs' = subs
        /\ watch' = watch /\ delivered' = delivered /\ UNCHANGED storeVars
    BY DEF Advance
  <1> HIDE DEF m, batch
  <1>7. /\ to \in {"wait", "fill", "send"}
        /\ to = "wait" => batch = {}
        /\ to = "fill" => 0 < skip /\ skip <= seq
    OBVIOUS
  <1> HIDE DEF to
  <1>8. m \in Nat /\ poll.last <= m /\ m <= seq
    <2>1. poll.last <= seq
      BY <1>1 DEF PollOK
    <2> QED BY <1>1, <1>2, <1>3, <2>1
  <1>9. /\ q \in PollState /\ q.pc = to /\ q.from = poll.from /\ q.last = m
        /\ q.skip = skip /\ q.batch = batch
    BY <1>1, <1>4, <1>7, <1>8 DEF PollState
  <1> HIDE DEF q
  <1>10. poll.batch = {}
    BY <1>1 DEF PollOK
  <1>11. \A x \in batch : poll.last < x /\ x <= m
    BY <1>2, <1>3, <1>4
  <1>12. PollOK(seq, Owed, q, polled \cup batch)
    <2>1. q.from <= q.last /\ q.last <= seq
      BY <1>1, <1>8, <1>9 DEF PollOK
    <2>2. \A i \in polled \cup batch : i <= q.last
      BY <1>1, <1>8, <1>9, <1>11 DEF PollOK
    <2>3. ASSUME NEW x \in Owed, q.from < x, x <= q.last PROVE x \in polled \cup batch
      <3>1. x \in Nat
        BY <1>1, OwedIssued
      <3>2. CASE x <= poll.last
        BY <1>1, <1>9, <2>3, <3>2 DEF PollOK
      <3>3. CASE poll.last < x
        BY <1>5, <1>9, <2>3, <3>3
      <3> QED BY <1>1, <3>1, <3>2, <3>3
    <2> QED BY <1>7, <1>9, <2>1, <2>2, <2>3 DEF PollOK
  <1>13. ASSUME NEW w \in Watchers
         PROVE  WatchOK(seq, KeyOwed, q, subs[w], watch[w], delivered[w])
    <2>1. /\ subs[w] \in Subscription /\ watch[w] \in Watch
          /\ delivered[w] \in Seq(SUBSET Nat)
          /\ WatchOK(seq, KeyOwed, poll, subs[w], watch[w], delivered[w])
      BY WatchTypes
    <2>2. KeyOwed \in SUBSET Nat /\ KeyOwed \subseteq Owed
      BY <1>1, OwedIssued
    <2>3. /\ poll.last <= q.last /\ q.pc \notin {"off", "start"}
          /\ \A x \in q.batch : poll.last < x /\ x <= q.last
          /\ \A x \in KeyOwed : poll.last < x /\ x <= q.last => x \in q.batch
      BY <1>5, <1>7, <1>8, <1>9, <1>11, <2>2
    <2> QED BY <1>1, <1>9, <1>10, <2>1, <2>2, <2>3, NextBatchOK
  <1>14. polled' \in SUBSET Nat
    BY <1>1, <1>4, <1>6
  <1>15. IInv' /\ compactRev <= compactRev' /\ HistoryGrows
    BY <1>1, <1>6, StutterGrows
  <1> QED BY <1>1, <1>6, <1>9, <1>12, <1>13, <1>14, <1>15, FeedMoves

\* Whatever an iteration finds, it takes an initial part of what it read.
LEMMA PollSteps ==
    ASSUME WatchInv, Poll \/ PollGap \/ PollGapAgain \/ PollSkip PROVE WatchInv'
  <1>1. IInv /\ poll.last \in Nat /\ poll.skip \in Nat /\ seq \in Nat
    BY PollTypes
  <1>2. \A size \in 1..PollLimit : size \in Nat /\ Initial(size, InOrder(size))
    BY <1>1, InOrderInitial, WatchAssumption
  <1>3. poll.pc = "wait"
    BY DEF Poll, PollGap, PollGapAgain, PollSkip
  <1>4. \A size \in 1..PollLimit : BeyondGap(size) # {} => Missing(size) \in 1..seq
    BY <1>1, <1>2, MissingIs
  <1>5. CASE Poll
    <2>1. PICK size \in 1..PollLimit : Advance("wait", InOrder(size), poll.skip)
      BY <1>5 DEF Poll
    <2> QED BY <1>1, <1>2, <1>3, <2>1, AdvanceStep
  <1>6. CASE PollGap
    <2>1. PICK size \in 1..PollLimit :
             BeyondGap(size) # {} /\ Advance("wait", InOrder(size), Missing(size))
      BY <1>6 DEF PollGap
    <2>2. Missing(size) \in Nat
      BY <1>1, <1>4, <2>1
    <2> QED BY <1>2, <1>3, <2>1, <2>2, AdvanceStep
  <1>7. CASE PollGapAgain
    <2>1. PICK size \in 1..PollLimit :
             /\ BeyondGap(size) # {} /\ poll.skip = Missing(size)
             /\ Advance("fill", InOrder(size), poll.skip)
      BY <1>7 DEF PollGapAgain
    <2>2. 0 < poll.skip /\ poll.skip <= seq
      BY <1>1, <1>4, <2>1
    <2> QED BY <1>1, <1>2, <1>3, <2>1, <2>2, AdvanceStep
  <1>8. CASE PollSkip
    <2>1. PICK size \in 1..PollLimit :
             /\ BeyondGap(size) # {}
             /\ Advance("wait", InOrder(size) \cup AfterGap(size),
                        IF BeyondGap(size) = AfterGap(size)
                        THEN poll.skip ELSE MaxOf(AfterGap(size)) + 1)
      BY <1>8 DEF PollSkip
    <2> DEFINE after == AfterGap(size)
               skip == IF BeyondGap(size) = after THEN poll.skip ELSE MaxOf(after) + 1
    <2>2. Initial(size, InOrder(size) \cup after) /\ after # {} /\ after \subseteq Polled(size)
      BY <1>1, <1>2, <2>1, AfterGapInitial
    <2>3. after \in SUBSET Nat /\ \A i \in after : i <= seq
      BY <1>1, <1>2, <2>2, PolledIs
    <2>4. MaxOf(after) \in Nat
      BY <1>1, <2>2, <2>3, MaxOfBounded
    <2>5. skip \in Nat
      BY <1>1, <2>4
    <2>6. Advance("wait", InOrder(size) \cup after, skip)
      BY <2>1
    <2> HIDE DEF skip, after
    <2> QED BY <1>2, <1>3, <2>2, <2>5, <2>6, AdvanceStep
  <1> QED BY <1>5, <1>6, <1>7, <1>8

-----------------------------------------------------------------------------
(* The theorems *)

LEMMA WatchInitially ==
    ASSUME WatchInit PROVE WatchInv
  <1>1. IInv
    BY InitStep DEF WatchInit
  <1>2. FeedTypes
    BY DEF WatchInit, FeedTypes, PollState, Subscription, Watch, NoWatch
  <1>3. seq = 0 /\ log = {}
    BY DEF WatchInit, Init
  <1>4. Owed = {} /\ KeyOwed = {}
    BY <1>3 DEF Owed, KeyOwed, Named
  <1>5. PollOK(seq, Owed, poll, polled)
    BY <1>3, <1>4 DEF PollOK, WatchInit
  <1>6. ASSUME NEW w \in Watchers
        PROVE  WatchOK(seq, KeyOwed, poll, subs[w], watch[w], delivered[w])
    <2>1. /\ subs[w].buf = <<>> /\ ~subs[w].open /\ delivered[w] = <<>>
          /\ watch[w].pc = "idle" /\ watch[w].rev = 0 /\ watch[w].seen = 0
          /\ watch[w].upto = 0 /\ watch[w].rows = {}
      BY DEF WatchInit, NoWatch
    <2> QED BY <1>3, <2>1, AllOfEmpty DEF WatchOK, BufferOK, StageOK, OrderOK, HoleOK
  <1> QED BY <1>1, <1>2, <1>5, <1>6 DEF WatchInv

LEMMA WatchSteps ==
    ASSUME WatchInv, WatchNext PROVE WatchInv'
  <1>1. CASE Next /\ UNCHANGED feedVars
    <2>1. IInv
      BY DEF WatchInv
    <2>2. IInv' /\ compactRev <= compactRev' /\ HistoryGrows
      BY <1>1, <2>1, NextStep, NextGrows
    <2> QED BY <1>1, <2>2, StoreMoves
  <1>2. CASE PollStep
    BY <1>2, StartCompactRowStep, StartPollStep, PollSteps, PollFillStep, PublishStep
       DEF PollStep
  <1>3. CASE StopPoll \/ EndStream
    BY <1>3, StopPollStep, EndStreamStep
  <1>4. ASSUME NEW w \in Watchers, WatchStep(w) PROVE WatchInv'
    <2>1. CASE \E start \in 0..seq + 1 : StartWatch(w, start)
      BY <2>1, StartWatchStep
    <2>2. CASE ListRows(w) \/ ListRevision(w) \/ Deliver(w) \/ Unsub(w)
      BY <2>2, ListRowsStep, ListRevisionStep, DeliverStep, UnsubStep
    <2>3. CASE ListFails(w) \/ EndWatch(w) \/ CancelWatch(w)
      BY <2>3, CancelledStep
    <2> QED BY <1>4, <2>1, <2>2, <2>3 DEF WatchStep
  <1> QED BY <1>1, <1>2, <1>3, <1>4 DEF WatchNext

\* The invariant of the table, the poll loop and every watch.
THEOREM WatchInvariance == WatchSpec => []WatchInv
  <1>1. WatchInit => WatchInv
    BY WatchInitially
  <1>2. ASSUME WatchInv, UNCHANGED vars PROVE WatchInv'
    <2>1. UNCHANGED storeVars /\ UNCHANGED feedVars
      BY <1>2 DEF vars
    <2>2. IInv' /\ compactRev <= compactRev' /\ HistoryGrows
      BY <1>2, <2>1, StutterGrows DEF WatchInv
    <2> QED BY <1>2, <2>1, <2>2, StoreMoves
  <1>3. WatchInv /\ [WatchNext]_vars => WatchInv'
    BY <1>2, WatchSteps
  <1> QED BY <1>1, <1>3, PTL DEF WatchSpec

\* The poll loop passes over no event but those that compaction had removed,
\* whatever gaps it met, filled or skipped (sqllog poll).
THEOREM PollIsComplete == WatchSpec => []PollMissesOnlyCompacted
  <1>1. WatchInv => PollMissesOnlyCompacted
    BY DEF WatchInv, PollOK, Owed, PollMissesOnlyCompacted
  <1> QED BY <1>1, WatchInvariance, PTL

\* Every watch sends its events once and in order, although what it lists and
\* what it is sent overlap (LogStructured.Watch).
THEOREM WatchesAscend == WatchSpec => []WatchInOrder
  <1>1. WatchInv => WatchInOrder
    BY DEF WatchInv, WatchOK, OrderOK, Ascending, WatchInOrder
  <1> QED BY <1>1, WatchInvariance, PTL

\* A watch that was not closed has jumped over nothing but what was compacted,
\* committed between the two statements of its list, or lost by the list with
\* its cursor: a slow watch is closed rather than left with a hole.
THEOREM NoOtherHole == WatchSpec => []WatchHasNoOtherHole
  <1>1. WatchInv => WatchHasNoOtherHole
    <2> SUFFICES ASSUME WatchInv, NEW w \in Watchers, Streaming(w),
                        NEW r \in Named(log, Keys), r.id \in Jumped(w),
                        r.id \notin watch[w].lost, ~CompactedAway(r)
                 PROVE  watch[w].seen < r.id /\ r.id <= watch[w].upto
      BY DEF WatchHasNoOtherHole
    <2> DEFINE o == watch[w]
               s == subs[w]
               d == delivered[w]
               top == MaxOf(AllOf(d))
    <2>1. /\ seq \in Nat /\ poll \in PollState /\ polled \in SUBSET Nat
          /\ s \in Subscription /\ o \in Watch /\ d \in Seq(SUBSET Nat)
          /\ WatchOK(seq, KeyOwed, poll, s, o, d)
          /\ PollOK(seq, Owed, poll, polled) /\ IInv
      BY WatchTypes DEF WatchInv
    <2>2. o.pc = "stream" /\ ~o.cancelled
      BY DEF Streaming
    <2>3. o.rev \in Nat /\ o.seen \in Nat /\ o.upto \in Nat
      BY <2>1 DEF Watch
    <2>4. \A x \in AllOf(d) : x \in Nat /\ x <= seq
      BY <2>1, <2>2, FeedIsIssued
    <2>5. r.id \in KeyOwed /\ r.id \in Nat
      BY <2>1, OwedIssued DEF KeyOwed
    <2>6. d # <<>> /\ r.id \in o.rev + 1..top /\ r.id \notin AllOf(d)
      BY DEF Jumped, Delivered, AllOf
    <2>7. PICK x \in AllOf(d) : r.id <= x
      <3>1. CASE AllOf(d) = {}
        <4>1. top = 0
          BY <3>1 DEF MaxOf
        <4> QED BY <2>3, <2>5, <2>6, <4>1
      <3>2. CASE AllOf(d) # {}
        <4>1. top \in AllOf(d)
          BY <2>1, <2>4, <3>2, MaxOfBounded
        <4> QED BY <2>6, <4>1
      <3> QED BY <3>1, <3>2
    <2>8. o.rev < r.id /\ x \in Nat
      BY <2>3, <2>4, <2>5, <2>6
    <2>9. HoleOK(KeyOwed, poll, s, o, d)
      BY <2>1 DEF WatchOK
    <2>10. o.seen < r.id
      BY <2>2, <2>3, <2>5, <2>6, <2>8, <2>9 DEF HoleOK
    <2>11. \/ r.id \in Coming(poll, s)
           \/ r.id <= o.upto
           \/ \A y \in AllOf(d) : y < r.id
      BY <2>2, <2>5, <2>6, <2>9, <2>10 DEF HoleOK
    <2>12. CASE r.id \in Coming(poll, s)
      <3>1. x <= o.upto \/ x < r.id
        BY <2>1, <2>2, <2>12 DEF WatchOK, OrderOK, Coming
      <3> QED BY <2>3, <2>5, <2>7, <2>8, <2>10, <3>1
    <2>13. CASE \A y \in AllOf(d) : y < r.id
      BY <2>5, <2>7, <2>8, <2>13
    <2> QED BY <2>10, <2>11, <2>12, <2>13
  <1> QED BY <1>1, WatchInvariance, PTL
=============================================================================
