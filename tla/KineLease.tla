----------------------------- MODULE KineLease -----------------------------
(***************************************************************************)
(* How one node expires keys with a lease (ttl and ttlEvents in            *)
(* logstructured.go).  One goroutine lists the keys, page by page, another *)
(* one subscribes to the feed; both hand every leased version they meet to *)
(* ttl, which starts a timer for it and deletes that version in the end.   *)
(*                                                                         *)
(* The feed is what KineWatch promises: the rows of the table in order,    *)
(* to a subscription that is closed when it is full.                       *)
(***************************************************************************)
EXTENDS KineStore, FiniteSets, Sequences

CONSTANTS
    Rank,      \* the order of the keys in the name column
    PageSize,  \* keys that one list query of ttlEvents returns at most
    SubCap     \* events that the subscription buffers

ASSUME LeaseAssumption ==
    /\ Rank \in [Keys -> Nat \ {0}]
    /\ \A k, l \in Keys : Rank[k] = Rank[l] => k = l
    /\ PageSize \in Nat \ {0} /\ SubCap \in Nat \ {0}

VARIABLES
    lister,   \* the goroutine that lists
    feed,     \* the subscription, and the goroutine that reads it
    timers,   \* the revisions that have a timer
    tried,    \* history: the revisions ttl has tried to delete
    ttl       \* stopped: the context is done; running: ttl has not returned;
              \* shouldClose: the flag of ttlEvents; closed: its channel is closed

leaseVars == <<lister, feed, timers, tried, ttl>>
vars == <<storeVars, leaseVars>>

(***************************************************************************)
(* lister: after is the rank of the last key, rev the revision the pages   *)
(* are read at, page the page in hand, and seen the newest revision when   *)
(* the first page was read (history).                                      *)
(* The goroutines start when compactStart has run, which is when Serving.  *)
(* feed: last is the newest revision published, since the newest one       *)
(* published before the subscription (history).                            *)
(***************************************************************************)
LeaseInit ==
    /\ Init
    /\ lister = [pc |-> "page", after |-> 0, rev |-> 0, page |-> {}, seen |-> 0]
    /\ feed = [pc |-> "idle", open |-> FALSE, buf |-> <<>>, last |-> 0, since |-> 0]
    /\ timers = {}
    /\ tried = {}
    /\ ttl = [stopped |-> FALSE, running |-> TRUE, shouldClose |-> FALSE, closed |-> FALSE]

\* The revisions among some rows that carry a lease.
Leased(rows) == {r.id : r \in {q \in rows : q.lease > 0}}

\* Mutant: does not leave it to the second goroutine.
ReleaseBoth == ttl' = [ttl EXCEPT !.shouldClose = TRUE, !.closed = TRUE]

\* The CompareAndSwap on shouldClose: the second goroutine closes the channel.
Release == ttl' = [ttl EXCEPT !.shouldClose = TRUE, !.closed = ttl.shouldClose]

-----------------------------------------------------------------------------
(* The list *)

\* Mutant: the next page starts one key too late.
PageOfLate(t, after, rev, n) ==
    LET keys == {k \in Keys : Rank[k] > (IF after = 0 THEN 0 ELSE after + 1)}
        rows == IF rev = 0 THEN ListCurrent(t, keys) ELSE List(t, keys, rev)
    IN  {r \in rows :
            Cardinality({q \in rows : Rank[q.name] < Rank[r.name]}) < n}

\* One query for n keys after the last one.
PageOf(t, after, rev, n) ==
    LET keys == {k \in Keys : Rank[k] > after}
        rows == IF rev = 0 THEN ListCurrent(t, keys) ELSE List(t, keys, rev)
    IN  {r \in rows :
            Cardinality({q \in rows : Rank[q.name] < Rank[r.name]}) < n}

\* RowsToEvents takes a cursor that is lost midway for the end of the rows: the
\* page is shorter, and the next one starts behind it.
ListPage ==
    /\ lister.pc = "page" /\ Serving
    /\ \E n \in 1..PageSize :
          lister' = [lister EXCEPT
              !.pc = "revision", !.page = PageOf(kine, lister.after, lister.rev, n),
              !.seen = IF lister.rev = 0 THEN seq ELSE @]
    /\ UNCHANGED <<storeVars, feed, timers, tried, ttl>>

\* The second statement of SQLLog.List.  ErrCompacted with a page in hand
\* makes the goroutine return without a word.
PageRevision ==
    LET compacted == lister.rev > 0 /\ lister.rev < CompactRev(kine)
    IN  /\ lister.pc = "revision" /\ lister.page # {}
        /\ lister' = [lister EXCEPT
              !.pc = IF compacted THEN "failed" ELSE "send",
              !.rev = IF @ = 0 THEN MaxId(kine) ELSE @]
        /\ UNCHANGED <<storeVars, feed, timers, tried, ttl>>

\* An empty page, and one that either statement failed to read or that lost its
\* cursor before the first row: the rest is not listed, as if there were none.
EndListing ==
    /\ \/ /\ lister.pc = "revision" /\ lister.page = {}
          /\ lister' = [lister EXCEPT !.pc = "ended"]
       \/ /\ lister.pc \in {"page", "revision"} /\ Serving
          /\ lister' = [lister EXCEPT !.pc = "broken", !.page = {}]
    /\ Release
    /\ UNCHANGED <<storeVars, feed, timers, tried>>

SendPage ==
    /\ lister.pc = "send"
    /\ timers' = timers \cup Leased(lister.page)
    /\ lister' = [lister EXCEPT !.pc = "page", !.page = {},
          !.after = MaxOf({Rank[r.name] : r \in lister.page})]
    /\ UNCHANGED <<storeVars, feed, tried, ttl>>

-----------------------------------------------------------------------------
(* The subscription *)

\* The poll loop publishes the next row; a full subscription is closed.
Feed ==
    LET next == {r \in kine : r.id > feed.last /\ \A q \in kine : q.id > feed.last => r.id <= q.id}
    IN  /\ \E r \in next :
              feed' = [feed EXCEPT
                  !.last = r.id,
                  !.open = @ /\ (IsFill(r.name) \/ Len(feed.buf) < SubCap),
                  !.buf = IF feed.open /\ ~IsFill(r.name) /\ Len(@) < SubCap
                          THEN Append(@, r) ELSE @]
        /\ UNCHANGED <<storeVars, lister, timers, tried, ttl>>

Subscribe ==
    /\ feed.pc = "idle" /\ Serving
    /\ feed' = [feed EXCEPT !.pc = "reading", !.open = ~ttl.stopped, !.since = feed.last]
    /\ UNCHANGED <<storeVars, lister, timers, tried, ttl>>

ReadEvent ==
    /\ feed.pc = "reading" /\ feed.buf # <<>>
    /\ feed' = [feed EXCEPT !.buf = Tail(@)]
    /\ timers' = timers \cup Leased({Head(feed.buf)})
    /\ UNCHANGED <<storeVars, lister, tried, ttl>>

\* The subscription is closed and drained.
EndReading ==
    /\ feed.pc = "reading" /\ ~feed.open /\ feed.buf = <<>>
    /\ feed' = [feed EXCEPT !.pc = "ended"]
    /\ Release
    /\ UNCHANGED <<storeVars, lister, timers, tried>>

-----------------------------------------------------------------------------
(* ttl *)

\* A timer runs out: delete that version, if it is still there.  A delete that
\* fails is not repeated.
Expire(rev) ==
    /\ rev \in timers /\ ~ttl.stopped
    /\ timers' = timers \ {rev}
    /\ tried' = tried \cup {rev}
    /\ LET rows == UNION {DeleteSQL(kine, NextId, k, rev) : k \in Keys}
       IN  \/ \E row \in rows : Insert(row)
           \/ UNCHANGED <<kine, seq, log>>
    /\ UNCHANGED <<compactor, lister, feed, ttl>>

\* The context is done: the subscription is closed, the timers are dropped.
Stop ==
    /\ ~ttl.stopped /\ Serving
    /\ ttl' = [ttl EXCEPT !.stopped = TRUE]
    /\ feed' = [feed EXCEPT !.open = FALSE]
    /\ timers' = {}
    /\ UNCHANGED <<storeVars, lister, tried>>

\* The channel is closed: ttl returns, whether or not the context is done.
EndTtl ==
    /\ ttl.running /\ ttl.closed
    /\ ttl' = [ttl EXCEPT !.running = FALSE]
    /\ UNCHANGED <<storeVars, lister, feed, timers, tried>>

-----------------------------------------------------------------------------

TtlStep ==
    \/ ListPage \/ PageRevision \/ SendPage \/ EndListing
    \/ Subscribe \/ ReadEvent \/ EndReading
    \/ \E rev \in timers : Expire(rev)
    \/ EndTtl

LeaseNext ==
    \/ Next /\ UNCHANGED leaseVars
    \/ Feed
    \/ TtlStep
    \/ Stop

LeaseSpec == LeaseInit /\ [][LeaseNext]_vars

-----------------------------------------------------------------------------
(* Properties *)

\* Both sources work as they should: the list has come to its end and the
\* subscription is open.
Following == lister.pc = "ended" /\ feed.pc = "reading" /\ feed.open

\* Published live versions with a lease that ttl knows nothing about.
Untimed ==
    {r \in ListCurrent(log, Keys) :
        /\ r.lease > 0 /\ r.id <= feed.last
        /\ r.id \notin timers \cup tried
        /\ \A i \in DOMAIN feed.buf : feed.buf[i].id # r.id}

\* A leased key has a timer, by the pages of the list, read at different times,
\* or by the stream.  The only one that escapes was written after the first page
\* was read and published before the subscription began.
OnlyTheRaceIsUntimed ==
    Following => \A r \in Untimed : lister.seen < r.id /\ r.id <= feed.since

\* The channel to ttl is closed when both goroutines are through with it, not
\* before, when the other one could still send, and ttl goes on until then.  The
\* exception is a list that a compaction interrupts.
ClosedByTheLast ==
    /\ ttl.closed <=> feed.pc = "ended" /\ lister.pc \in {"ended", "broken"}
    /\ ttl.running \/ ttl.closed

\* "Shutdown cleans up any resources": it waits for ttl, which returns when its
\* channel is closed, and nobody is left to close it once both have returned.
LastOneCloses ==
    feed.pc = "ended" /\ lister.pc \in {"ended", "broken", "failed"} => ttl.closed
=============================================================================
