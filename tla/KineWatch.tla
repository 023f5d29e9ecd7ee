----------------------------- MODULE KineWatch -----------------------------
(***************************************************************************)
(* How a committed row reaches a watcher on one node: the poll loop of     *)
(* sqllog/sql.go reads the table in revision order, hands batches to the   *)
(* broadcaster, which copies them to one bounded channel per watch, and    *)
(* LogStructured.Watch puts the rows it lists itself in front of them.     *)
(* Clients, compaction and the pollers of other nodes work on the same     *)
(* table (KineStore).                                                      *)
(*                                                                         *)
(* An event is its revision; a batch is a set of revisions, delivered in   *)
(* ascending order.  The channels behind the subscription (of SQLLog.Watch *)
(* and LogStructured.Watch) only delay events and are merged with it.      *)
(***************************************************************************)
EXTENDS KineStore, FiniteSets, Sequences

CONSTANTS
    Watchers,    \* the watches of this node
    PollLimit,   \* rows that one poll query returns at most
    SubCap       \* batches that a subscription buffers

ASSUME WatchAssumption == PollLimit \in Nat \ {0} /\ SubCap \in Nat \ {0}

VARIABLES
    poll,       \* the poll loop: pc, from, last, skip, and the batch to send
    polled,     \* history: the revisions that were ever in a batch
    subs,       \* per watch, its subscription: open and the buffered batches
    watch,      \* per watch, where LogStructured.Watch is
    delivered   \* per watch, the batches sent to the client

feedVars == <<poll, polled, subs, watch, delivered>>
vars == <<storeVars, feedVars>>

(***************************************************************************)
(* A watch lists the rows after rev, takes its stream from upto on, and    *)
(* has a context that is cancelled or not.  seen is the newest revision    *)
(* when the rows were listed, lost the rows that the list should have had  *)
(* but a cursor that broke off did not return (history).                   *)
(***************************************************************************)
NoWatch == [pc |-> "idle", rev |-> 0, rows |-> {}, lost |-> {}, seen |-> 0,
            upto |-> 0, cancelled |-> FALSE]

WatchInit ==
    /\ Init
    /\ poll = [pc |-> "off", from |-> 0, last |-> 0, skip |-> 0, batch |-> {}]
    /\ polled = {}
    /\ subs = [w \in Watchers |-> [open |-> FALSE, buf |-> <<>>]]
    /\ watch = [w \in Watchers |-> NoWatch]
    /\ delivered = [w \in Watchers |-> <<>>]

-----------------------------------------------------------------------------
(* The poll loop *)

\* startWatch: make sure that the compact_rev_key row exists ...
StartCompactRow ==
    LET rows == CreateSQL(kine, NextId, CompactRevKey, NoValue, 0)
    IN  /\ poll.pc = "off"
        /\ poll' = [poll EXCEPT !.pc = "start"]
        /\ \/ \E row \in rows : Insert(row)
           \/ rows = {} /\ UNCHANGED <<kine, seq, log>>
        /\ UNCHANGED <<compactor, polled, subs, watch, delivered>>

\* ... and poll from the compact revision on.
StartPoll ==
    /\ poll.pc = "start"
    /\ poll' = [poll EXCEPT !.pc = "wait", !.from = CompactRev(kine),
                            !.last = CompactRev(kine)]
    /\ UNCHANGED <<storeVars, polled, subs, watch, delivered>>

\* The revisions that a poll query of a size returns.  RowsToEvents takes a lost
\* cursor for the end of the rows: the query was as good as a smaller one.
Polled(size) ==
    LET ids == {r.id : r \in {q \in kine : q.id > poll.last}}
    IN  {i \in ids : Cardinality({j \in ids : j < i}) < size}

\* The revisions that follow a revision without a gap.
Run(ids, rev) == {i \in ids : i > rev /\ \A j \in rev + 1..i : j \in ids}

EndOf(ids, rev) == rev + Cardinality(Run(ids, rev))

\* The events among the revisions: fill rows trigger nothing.
Sequential(ids) == {r.id : r \in {q \in kine : q.id \in ids /\ ~IsFill(q.name)}}

\* The rows up to the first gap, the rows after it, and those up to the next.
InOrder(size) == Run(Polled(size), poll.last)

BeyondGap(size) == Polled(size) \ InOrder(size)

AfterGap(size) ==
    LET beyond == BeyondGap(size)
        first == CHOOSE i \in beyond : \A j \in beyond : i <= j
    IN  Run(Polled(size), first - 1)

\* The revision that is missing when there is a gap.
Missing(size) == EndOf(Polled(size), poll.last) + 1

\* Mutant: saves the last revision read, beyond a gap or not.
AdvanceBeyondGap(pc, ids, skip) ==
    LET batch == Sequential(ids)
    IN  /\ poll' = [poll EXCEPT
              !.pc = IF pc = "wait" /\ batch # {} THEN "send" ELSE pc,
              !.last = MaxOf(Polled(PollLimit) \cup {@}), !.skip = skip, !.batch = batch]
        /\ polled' = polled \cup batch
        /\ UNCHANGED <<storeVars, subs, watch, delivered>>

\* Mutant: forgets the gap between two iterations.
AdvanceForgetful(pc, ids, skip) ==
    LET batch == Sequential(ids)
    IN  /\ poll' = [poll EXCEPT
              !.pc = IF pc = "wait" /\ batch # {} THEN "send" ELSE pc,
              !.last = MaxOf(ids \cup {@}), !.skip = 0, !.batch = batch]
        /\ polled' = polled \cup batch
        /\ UNCHANGED <<storeVars, subs, watch, delivered>>

\* Move past some revisions, with their events as the next batch.
Advance(pc, ids, skip) ==
    LET batch == Sequential(ids)
    IN  /\ poll' = [poll EXCEPT
              !.pc = IF pc = "wait" /\ batch # {} THEN "send" ELSE pc,
              !.last = MaxOf(ids \cup {@}), !.skip = skip, !.batch = batch]
        /\ polled' = polled \cup batch
        /\ UNCHANGED <<storeVars, subs, watch, delivered>>

\* One iteration is one query and a loop over its rows.  Without a gap:
Poll ==
    \E size \in 1..PollLimit :
        /\ poll.pc = "wait"
        /\ Polled(size) # {} /\ BeyondGap(size) = {}
        /\ Advance("wait", InOrder(size), poll.skip)

\* A gap that is seen for the first time: look again soon.
PollGap ==
    \E size \in 1..PollLimit :
        /\ poll.pc = "wait"
        /\ BeyondGap(size) # {} /\ poll.skip # Missing(size)
        /\ Advance("wait", InOrder(size), Missing(size))

\* Seen before, less than a second ago: fill it.
PollGapAgain ==
    \E size \in 1..PollLimit :
        /\ poll.pc = "wait"
        /\ BeyondGap(size) # {} /\ poll.skip = Missing(size)
        /\ Advance("fill", InOrder(size), poll.skip)

\* Seen before, more than a second ago: go on behind it, to the next gap.
PollSkip ==
    \E size \in 1..PollLimit :
        /\ poll.pc = "wait"
        /\ BeyondGap(size) # {} /\ poll.skip = Missing(size)
        /\ Advance("wait", InOrder(size) \cup AfterGap(size),
                   IF BeyondGap(size) = AfterGap(size)
                   THEN poll.skip ELSE MaxOf(AfterGap(size)) + 1)

\* The fill statement; it fails if another node's poller was faster.
PollFill ==
    /\ poll.pc = "fill"
    /\ \/ /\ Accepts(kine, FillRow(poll.skip))
          /\ kine' = kine \cup {FillRow(poll.skip)}
       \/ /\ ~Accepts(kine, FillRow(poll.skip))
          /\ UNCHANGED kine
    /\ poll' = [poll EXCEPT !.pc = IF poll.batch = {} THEN "wait" ELSE "send"]
    /\ UNCHANGED <<seq, log, compactor, polled, subs, watch, delivered>>

\* The context is done: poll returns and closes the channel.
StopPoll ==
    /\ poll.pc = "wait"
    /\ poll' = [poll EXCEPT !.pc = "stopped"]
    /\ UNCHANGED <<storeVars, polled, subs, watch, delivered>>

-----------------------------------------------------------------------------
(* The broadcaster *)

Open(sub) == [sub EXCEPT !.open = TRUE]

\* Closing keeps what is buffered; closing again does nothing.
Close(sub) == [sub EXCEPT !.open = FALSE]

\* Mutant: a batch for which there is no room is dropped silently.
PublishLossy ==
    /\ poll.pc = "send"
    /\ poll' = [poll EXCEPT !.pc = "wait", !.batch = {}]
    /\ subs' = [w \in Watchers |->
          IF subs[w].open /\ Len(subs[w].buf) < SubCap
          THEN [subs[w] EXCEPT !.buf = Append(@, poll.batch)] ELSE subs[w]]
    /\ UNCHANGED <<storeVars, polled, watch, delivered>>

\* The poll loop sends a batch and the broadcaster publishes it: the channel
\* between them is unbuffered and the broadcaster does nothing else.  A
\* subscription that has no room is closed.
Publish ==
    /\ poll.pc = "send"
    /\ poll' = [poll EXCEPT !.pc = "wait", !.batch = {}]
    /\ subs' = [w \in Watchers |->
          CASE ~subs[w].open -> subs[w]
            [] subs[w].open /\ Len(subs[w].buf) < SubCap ->
                   [subs[w] EXCEPT !.buf = Append(@, poll.batch)]
            [] OTHER -> Close(subs[w])]
    /\ UNCHANGED <<storeVars, polled, watch, delivered>>

\* The poll loop is gone: stream closes every subscription.
EndStream ==
    /\ poll.pc = "stopped"
    /\ subs' = [w \in Watchers |-> Close(subs[w])]
    /\ poll' = [poll EXCEPT !.pc = "closed"]
    /\ UNCHANGED <<storeVars, polled, watch, delivered>>

\* The context of a watch is done: unsub, from a goroutine of its own.
Unsub(w) ==
    /\ watch[w].cancelled
    /\ subs[w].open
    /\ subs' = [subs EXCEPT ![w] = Close(@)]
    /\ UNCHANGED <<storeVars, poll, polled, watch, delivered>>

-----------------------------------------------------------------------------
(* LogStructured.Watch *)

\* Subscribe first; the list will include the start revision.
StartWatch(w, start) ==
    /\ watch[w].pc = "idle"
    /\ poll.pc \notin {"off", "start"}
    /\ watch' = [watch EXCEPT ![w].pc = "rows",
                              ![w].rev = IF start > 0 THEN start - 1 ELSE 0]
    /\ subs' = [subs EXCEPT ![w] = Open(@)]
    /\ UNCHANGED <<storeVars, poll, polled, delivered>>

\* SQLLog.After, first statement, in the order of the revisions.  RowsToEvents
\* does not tell the end of the rows from that of a cursor that is lost midway.
ListRows(w) ==
    LET all == {r.id : r \in After(kine, Keys, watch[w].rev)}
    IN  /\ watch[w].pc = "rows"
        /\ \E end \in 0..seq :
              watch' = [watch EXCEPT ![w].pc = "revision", ![w].seen = seq,
                                     ![w].rows = {i \in all : i <= end},
                                     ![w].lost = {i \in all : i > end}]
        /\ UNCHANGED <<storeVars, poll, polled, subs, delivered>>

\* Mutant: the stream repeats what was listed.
ListedUpToStart(o) == o.rev

\* Where the list ends and the stream takes over.
ListedUpTo(o) == IF o.rows = {} THEN o.rev ELSE MaxId(kine)

\* SQLLog.After, second statement.  ErrCompacted cancels the watch, but what
\* was listed is sent all the same.
ListRevision(w) ==
    LET o == watch[w]
    IN  /\ o.pc = "revision"
        /\ watch' = [watch EXCEPT ![w].pc = "stream", ![w].rows = {},
               ![w].upto = ListedUpTo(o),
               ![w].cancelled = @ \/ (o.rev > 0 /\ o.rev < CompactRev(kine))]
        /\ delivered' = [delivered EXCEPT ![w] =
               IF o.rows = {} THEN @ ELSE Append(@, o.rows)]
        /\ UNCHANGED <<storeVars, poll, polled, subs>>

\* SQLLog.After returns an error, because a statement cannot be executed or a row
\* not be read: nothing was listed, the watch is cancelled.
ListFails(w) ==
    /\ watch[w].pc \in {"rows", "revision"}
    /\ watch' = [watch EXCEPT ![w].pc = "stream", ![w].rows = {}, ![w].lost = {},
                              ![w].upto = watch[w].rev, ![w].cancelled = TRUE]
    /\ UNCHANGED <<storeVars, poll, polled, subs, delivered>>

\* The revisions of client keys.
KeyEvents == {r.id : r \in Named(log, Keys)}

\* Mutant: a batch that starts with a listed event is dropped as a whole.
DeliverWhole(w) ==
    LET events == Head(subs[w].buf) \cap KeyEvents
        new == IF \E i \in events : i <= watch[w].upto THEN {} ELSE events
    IN  /\ watch[w].pc = "stream"
        /\ subs[w].buf # <<>>
        /\ subs' = [subs EXCEPT ![w].buf = Tail(@)]
        /\ delivered' = [delivered EXCEPT ![w] = IF new = {} THEN @ ELSE Append(@, new)]
        /\ UNCHANGED <<storeVars, poll, polled, watch>>

\* The next batch, without other prefixes and without what the list has sent.
Deliver(w) ==
    LET new == {i \in Head(subs[w].buf) \cap KeyEvents : i > watch[w].upto}
    IN  /\ watch[w].pc = "stream"
        /\ subs[w].buf # <<>>
        /\ subs' = [subs EXCEPT ![w].buf = Tail(@)]
        /\ delivered' = [delivered EXCEPT ![w] = IF new = {} THEN @ ELSE Append(@, new)]
        /\ UNCHANGED <<storeVars, poll, polled, watch>>

\* The subscription is closed and drained: the client is told.
EndWatch(w) ==
    /\ watch[w].pc = "stream"
    /\ subs[w] = [open |-> FALSE, buf |-> <<>>]
    /\ watch' = [watch EXCEPT ![w] = [NoWatch EXCEPT !.pc = "ended", !.cancelled = TRUE]]
    /\ UNCHANGED <<storeVars, poll, polled, subs, delivered>>

\* The client cancels, or its connection is lost.
CancelWatch(w) ==
    /\ watch[w].pc \in {"rows", "revision", "stream"}
    /\ ~watch[w].cancelled
    /\ watch' = [watch EXCEPT ![w].cancelled = TRUE]
    /\ UNCHANGED <<storeVars, poll, polled, subs, delivered>>

-----------------------------------------------------------------------------

PollStep ==
    \/ StartCompactRow \/ StartPoll
    \/ Poll \/ PollGap \/ PollGapAgain \/ PollSkip
    \/ PollFill \/ Publish

WatchStep(w) ==
    \/ \E start \in 0..seq + 1 : StartWatch(w, start)
    \/ ListRows(w) \/ ListRevision(w) \/ ListFails(w)
    \/ Deliver(w) \/ EndWatch(w) \/ CancelWatch(w) \/ Unsub(w)

WatchNext ==
    \/ Next /\ UNCHANGED feedVars
    \/ PollStep \/ StopPoll \/ EndStream
    \/ \E w \in Watchers : WatchStep(w)

WatchSpec == WatchInit /\ [][WatchNext]_vars

(***************************************************************************)
(* The poll loop is woken by every write and by a ticker; a gap that stays *)
(* is a second old in the end; and no goroutine of the feed is stopped for *)
(* ever.  Nothing is assumed of clients, compactions and cancellations.    *)
(***************************************************************************)
PollFairness ==
    /\ WF_vars(StartCompactRow) /\ WF_vars(StartPoll)
    /\ WF_vars(Poll \/ PollGap \/ PollGapAgain \/ PollSkip)
    /\ SF_vars(PollSkip)
    /\ WF_vars(PollFill) /\ WF_vars(Publish)

FeedFairness ==
    /\ WF_vars(EndStream)
    /\ \A w \in Watchers :
          /\ WF_vars(ListRows(w)) /\ WF_vars(ListRevision(w))
          /\ WF_vars(Deliver(w)) /\ WF_vars(EndWatch(w)) /\ WF_vars(Unsub(w))

FairWatchSpec == WatchSpec /\ PollFairness /\ FeedFairness

\* The loops that serve nobody in particular: polling and compacting.
FairLoopsSpec == WatchSpec /\ PollFairness /\ CompactionFairness

-----------------------------------------------------------------------------
(* Properties *)

Delivered(w) == UNION {delivered[w][i] : i \in DOMAIN delivered[w]}

\* A watch that is listed and whose context is not cancelled.
Streaming(w) == watch[w].pc = "stream" /\ ~watch[w].cancelled

\* The revisions a watch has passed over.
Jumped(w) ==
    IF delivered[w] = <<>> THEN {}
    ELSE (watch[w].rev + 1..MaxOf(Delivered(w))) \ Delivered(w)

\* A row that no read at the compact revision or later can see.
CompactedAway(r) ==
    Superseded(r, compactRev) \/ (r.deleted /\ r.id <= compactRev)

\* A watch never sends an event twice or out of order, although its list and
\* its stream overlap (LogStructured.Watch and its filter).
WatchInOrder ==
    \A w \in Watchers : \A i, j \in DOMAIN delivered[w] :
        i < j => \A x \in delivered[w][i], y \in delivered[w][j] : x < y

\* The poll loop, with its gap detection, fills and skips, passes over no event
\* but those that compaction had removed before it could read them.
PollMissesOnlyCompacted ==
    \A r \in log : poll.from < r.id /\ r.id <= poll.last /\ r.id \notin polled =>
        CompactedAway(r)

\* A watch that was not closed has no hole in what it delivered: an event that
\* it jumped over was compacted, or was committed between the two statements of
\* its list, or is one that the list lost with its cursor.  So a slow watch is
\* closed rather than left with a hole, and no batch falls between the list and
\* the stream.
WatchHasNoOtherHole ==
    \A w \in Watchers : Streaming(w) =>
        \A r \in Named(log, Keys) :
            r.id \in Jumped(w) =>
                \/ watch[w].seen < r.id /\ r.id <= watch[w].upto
                \/ r.id \in watch[w].lost
                \/ CompactedAway(r)

\* "starting watching right away so we don't miss anything": a watch that was
\* not closed has delivered every event up to the last it delivered, unless its
\* list lost it with the cursor.
WatchMissesNothing ==
    \A w \in Watchers : Streaming(w) =>
        Jumped(w) \cap KeyEvents \subseteq watch[w].lost

\* The poll loop gets past every revision, gaps or not, or was told to stop.
PollCatchesUp ==
    \A rev \in 1..MaxRev :
        (seq >= rev) ~> (poll.last >= rev \/ poll.pc \in {"stopped", "closed"})

\* A watch is served or closed: every event after its list, but for those that the
\* list lost with its cursor, is delivered or compacted, or the watch ends, or the
\* poll loop has been told to stop and its end closes every watch.  (Revision 1 is
\* the compact_rev_key row, and no event of a key.)
WatchIsServed ==
    \A w \in Watchers, rev \in 2..MaxRev :
        (/\ watch[w].pc = "stream" /\ rev \in KeyEvents
         /\ rev > watch[w].upto /\ rev \notin watch[w].lost) ~>
            \/ rev \in Delivered(w)
            \/ \E r \in log : r.id = rev /\ CompactedAway(r)
            \/ watch[w].pc = "ended"
            \/ poll.pc = "closed"
=============================================================================
