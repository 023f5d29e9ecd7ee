----------------------------- MODULE KineReads -----------------------------
(***************************************************************************)
(* The read half of the etcd facade on top of the table: Range and the     *)
(* read that answers a failed transaction, from server/list.go, get.go,    *)
(* create.go, update.go and delete.go through logstructured.go and         *)
(* sqllog/sql.go down to the queries.                                      *)
(*                                                                         *)
(* A request is several SQL statements without a transaction around them:  *)
(* the rows first, then the compact and the current revision, then maybe a *)
(* count.  Writers, pollers and compactors run in between (KineStore).     *)
(* The loop that reads the rows does not ask whether it ended because of   *)
(* an error, so each of these reads may get only the first of its rows.    *)
(***************************************************************************)
EXTENDS KineStore, FiniteSets

CONSTANTS
    Clients,   \* requests in flight
    NoKey,     \* no start key
    Rank,      \* the order of the keys in the name column
    Limits     \* page sizes; 0 is no limit

ASSUME ReadsAssumption ==
    /\ NoKey \notin Keys
    /\ Rank \in [Keys -> Nat]
    /\ \A k, l \in Keys : Rank[k] = Rank[l] => k = l
    /\ Limits \subseteq Nat

VARIABLE op   \* per client, its request and how far it has come

vars == <<storeVars, op>>

(***************************************************************************)
(* pc       the statement that is next, or "done"                          *)
(* counting the backend's Count is under way, not its List or Get          *)
(* rev      the revision the next statement reads at, 0 for the newest     *)
(* rows     the rows SQLLog.List has read                                  *)
(* cut      the cursor was lost before the last of them (history)          *)
(* ok       FALSE when the request failed with an error or, for a          *)
(*          transaction, when its comparison failed                        *)
(* kvs      the rows in the response, at revision page                     *)
(* head     the revision in the response header                            *)
(* since    the newest revision when the request arrived (history)         *)
(* mine     the revisions of the rows it has inserted (history)            *)
(***************************************************************************)
NoRequest == [kind |-> "get", key |-> NoKey, rev |-> 0, limit |-> 0,
              value |-> NoValue, lease |-> 0]

Ready == [pc |-> "idle", req |-> NoRequest, counting |-> FALSE, rev |-> 0,
          rows |-> {}, cut |-> FALSE, ok |-> TRUE, kvs |-> {}, page |-> 0, head |-> 0,
          count |-> 0, since |-> 0, mine |-> {}]

ReadsInit == Init /\ op = [c \in Clients |-> Ready]

-----------------------------------------------------------------------------

\* LogStructured.Get, for a range request without an end or a failed
\* transaction: one key, and ErrCompacted is ignored.
GetsOne(req) == req.kind \notin {"list", "count"}

\* The keys after a start key, or the single key.
KeyRange(req) ==
    CASE GetsOne(req) -> {req.key}
      [] ~GetsOne(req) /\ req.key = NoKey -> Keys
      [] OTHER -> {k \in Keys : Rank[k] > Rank[req.key]}

\* ORDER BY name LIMIT n
First(rows, n) ==
    {r \in rows : n = 0 \/
        Cardinality({q \in rows : Rank[q.name] < Rank[r.name]}) < n}

\* RowsToEvents takes the end of a lost cursor for the end of the rows: it
\* returns those that came first, in the order of the names.
InitialPart(part, rows) ==
    /\ part \subseteq rows
    /\ \A p \in part, r \in rows : Rank[r.name] <= Rank[p.name] => r \in part

\* LimitedServer.list asks for one row more than the client.
QueryLimit(o) == IF o.req.limit > 0 /\ ~o.counting THEN o.req.limit + 1 ELSE 0

\* Mutant: deleted keys show up at the newest revision.
RowsAtDeletedToo(t, keys, rev) ==
    IF rev = 0 THEN Latest(t, keys) ELSE List(t, keys, rev)

\* The rows of a table that SQLLog.List reads for a request at a revision.
RowsAt(t, keys, rev) ==
    IF rev = 0 THEN ListCurrent(t, keys) ELSE List(t, keys, rev)

Is(c, pc) == op[c].pc = pc

Set(c, o) == op' = [op EXCEPT ![c] = o]

\* A request arrives, at any revision, one that is yet to come included.
Receive(c, req) ==
    /\ Is(c, "idle") /\ Serving
    /\ Set(c, [Ready EXCEPT !.pc = IF req.kind = "count" THEN "count" ELSE "rows",
                            !.counting = req.kind = "count",
                            !.req = req, !.rev = req.rev, !.since = seq])
    /\ UNCHANGED storeVars

\* Mutant: reads the revision of the comparison instead of the newest.
RefusedOld(o) ==
    [o EXCEPT !.pc = IF o.req.kind = "create" THEN "done" ELSE "rows",
              !.ok = FALSE, !.rev = o.req.rev]

\* A transaction whose comparison failed goes on to read the newest version
\* of the key; create answers without one.
Refused(o) ==
    [o EXCEPT !.pc = IF o.req.kind = "create" THEN "done" ELSE "rows", !.ok = FALSE]

\* Mutant: an update goes by the newest revision of the key.
StatementOfNewest(req) ==
    CASE req.kind = "delete" -> DeleteSQL(kine, NextId, req.key, req.rev)
      [] req.kind # "delete" /\ req.rev = 0 ->
            CreateSQL(kine, NextId, req.key, req.value, req.lease)
      [] OTHER -> UNION {UpdateSQL(kine, NextId, req.key, req.value, r.id, req.lease) :
                            r \in kine}

\* The rows that the conditional insert of a transaction would insert.  An
\* update that compares with revision 0 is a create.
Statement(req) ==
    CASE req.kind = "delete" -> DeleteSQL(kine, NextId, req.key, req.rev)
      [] req.kind # "delete" /\ req.rev = 0 ->
            CreateSQL(kine, NextId, req.key, req.value, req.lease)
      [] OTHER -> UpdateSQL(kine, NextId, req.key, req.value, req.rev, req.lease)

\* Generic.execute: the insert.  Its reply may be lost with the connection, and
\* the loop executes it again.  (One that has inserted nothing and is repeated is
\* as one that came later.)
Execute(c, o) ==
    /\ seq < MaxRev
    /\ \/ /\ \E row \in Statement(o.req) : Insert(row)
          /\ \E pc \in {"done", "execute"} :
                Set(c, [o EXCEPT !.pc = pc, !.head = NextId, !.mine = @ \cup {NextId}])
       \/ /\ Statement(o.req) = {}
          /\ Set(c, Refused(o))
          /\ UNCHANGED <<kine, seq, log>>
    /\ UNCHANGED compactor

\* A transaction arrives.
Txn(c, kind, k, v, rev, lease) ==
    /\ Is(c, "idle") /\ Serving
    /\ Execute(c, [Ready EXCEPT !.req = [kind |-> kind, key |-> k, rev |-> rev,
                                         limit |-> 0, value |-> v, lease |-> lease],
                                !.since = seq])

Retry(c) ==
    /\ Is(c, "execute")
    /\ Execute(c, op[c])

\* maxRetries, or an error that Retry does not know: the client gets an error.
TxnFails(c) ==
    /\ Is(c, "execute")
    /\ Set(c, Ready)
    /\ UNCHANGED storeVars

CreateTxn(c) ==
    \E k \in Keys, v \in Values, lease \in Leases : Txn(c, "create", k, v, 0, lease)

UpdateTxn(c) ==
    \E k \in Keys, v \in Values, rev \in 0..seq, lease \in Leases :
        Txn(c, "update", k, v, rev, lease)

DeleteTxn(c) ==
    \E k \in Keys, rev \in 0..seq : Txn(c, "delete", k, NoValue, rev, 0)

\* SQLLog.List, first statement.  A recount starts over from the first key.
ReadRows(c) ==
    LET o == op[c]
        keys == IF o.counting THEN Keys ELSE KeyRange(o.req)
        all == First(RowsAt(kine, keys, o.rev), QueryLimit(o))
    IN  /\ Is(c, "rows")
        /\ \E rows \in SUBSET all :
              /\ InitialPart(rows, all)
              /\ Set(c, [o EXCEPT !.pc = "interval", !.rows = rows, !.cut = rows # all])
        /\ UNCHANGED storeVars

\* LimitedServer.list found the extra row.
HasMore(o) ==
    ~o.counting /\ o.req.limit > 0 /\ Cardinality(o.rows) > o.req.limit

\* Mutant: off by one.
IsCompactedLate(rev) == rev > 0 /\ rev + 1 < CompactRev(kine)

\* The test for ErrCompacted.
IsCompacted(rev) == rev > 0 /\ rev < CompactRev(kine)

\* SQLLog.List, second statement, and what its caller makes of the answer.
ReadRevision(c) ==
    LET o == op[c]
        head == IF o.rev = 0 THEN MaxId(kine) ELSE o.rev
        n == Cardinality(o.rows)
        compacted == ~GetsOne(o.req) /\ IsCompacted(o.rev)
        relist == o.req.kind = "list" /\ o.rev = 0 /\ o.rows = {}
        more == HasMore(o)
    IN  /\ Is(c, "interval")
        /\ \/ \* ErrCompacted, which LogStructured.get ignores
              /\ compacted
              /\ Set(c, [o EXCEPT !.pc = "done", !.ok = FALSE])
           \/ \* nothing found at the newest revision: list again at a fixed one
              /\ relist
              /\ Set(c, [o EXCEPT !.pc = "relist"])
           \/ \* there is more than a page: cut the extra row and count
              /\ more /\ ~compacted
              /\ Set(c, [o EXCEPT !.pc = "count", !.counting = TRUE, !.rev = head,
                                  !.page = head, !.kvs = First(o.rows, o.req.limit)])
           \/ /\ ~compacted /\ ~relist /\ ~more
              /\ Set(c, IF o.counting
                        THEN [o EXCEPT !.pc = "done", !.head = head, !.count = n]
                        ELSE [o EXCEPT !.pc = "done", !.head = head, !.count = n,
                                       !.page = head, !.kvs = o.rows])
        /\ UNCHANGED storeVars

\* LogStructured.List or Count found nothing: fix the current revision and
\* list again.
Relist(c) ==
    /\ Is(c, "relist")
    /\ Set(c, [op[c] EXCEPT !.pc = "rows", !.rev = MaxId(kine)])
    /\ UNCHANGED storeVars

\* Mutant: the header of the time when the request arrived.
CountRowsOldHeader(c) ==
    LET o == op[c]
        n == Cardinality(RowsAt(kine, KeyRange(o.req), o.rev))
    IN  /\ Is(c, "count")
        /\ Set(c, IF n = 0 THEN [o EXCEPT !.pc = "relist"]
                           ELSE [o EXCEPT !.pc = "done", !.count = n, !.head = o.since])
        /\ UNCHANGED storeVars

\* SQLLog.Count, one statement; a count of zero is taken again by listing.
CountRows(c) ==
    LET o == op[c]
        n == Cardinality(RowsAt(kine, KeyRange(o.req), o.rev))
    IN  /\ Is(c, "count")
        /\ Set(c, IF n = 0 THEN [o EXCEPT !.pc = "relist"]
                           ELSE [o EXCEPT !.pc = "done", !.count = n,
                                          !.head = MaxId(kine)])
        /\ UNCHANGED storeVars

Finish(c) ==
    /\ Is(c, "done")
    /\ Set(c, Ready)
    /\ UNCHANGED storeVars

-----------------------------------------------------------------------------

ReceiveRange(c) ==
    \E rev \in 0..(MaxRev + 1) :
        \/ \E kind \in {"list", "count"}, k \in Keys \cup {NoKey}, limit \in Limits :
               Receive(c, [NoRequest EXCEPT !.kind = kind, !.key = k, !.rev = rev,
                               !.limit = IF kind = "list" THEN limit ELSE 0])
        \/ \E k \in Keys :
               Receive(c, [NoRequest EXCEPT !.key = k, !.rev = rev])

ReadsNext ==
    \/ Next /\ UNCHANGED op
    \/ \E c \in Clients :
          \/ ReceiveRange(c)
          \/ CreateTxn(c)
          \/ UpdateTxn(c)
          \/ DeleteTxn(c)
          \/ Retry(c)
          \/ TxnFails(c)
          \/ ReadRows(c)
          \/ ReadRevision(c)
          \/ Relist(c)
          \/ CountRows(c)
          \/ Finish(c)

ReadsSpec == ReadsInit /\ [][ReadsNext]_vars

-----------------------------------------------------------------------------
(* Properties *)

Done(c, kinds) == op[c].pc = "done" /\ op[c].req.kind \in kinds

\* The rows of the history that a page at a revision consists of.
PageAt(req, rev) == First(List(log, KeyRange(req), rev), req.limit)

\* The answer is the page of a revision, or the part of it that RowsToEvents got
\* before it lost the cursor.
Answers(o, rev) ==
    /\ InitialPart(o.kvs, PageAt(o.req, rev))
    /\ o.kvs = PageAt(o.req, rev) \/ (o.cut /\ ~o.counting)

\* A list at a revision that is answered without ErrCompacted is exactly the
\* page of that revision, although a compaction may have removed rows of it
\* before, between or after its two statements: SQLLog.List reads the compact
\* revision after the rows.  The same holds for the relist of an empty answer
\* at revision 0, and for a get of a revision that is not compacted yet.  Only a
\* cursor that is lost midway shortens the page, at its end: RowsToEvents does
\* not look at rows.Err().
ReadAtRevisionIsExact ==
    \A c \in Clients :
        LET o == op[c]
        IN  /\ Done(c, {"list"}) /\ o.ok
                /\ (o.req.rev \in 1..o.since \/ (o.req.rev = 0 /\ o.kvs = {})) =>
                  Answers(o, o.page)
            /\ Done(c, {"get"}) /\ o.req.rev \in 1..o.since /\ o.req.rev >= compactRev =>
                  Answers(o, o.req.rev)

\* A read of the newest revision, by a list, a get or a failed transaction, or of
\* one that was yet to come when the request arrived, returns the state at some
\* revision between the request and the answer, and at none after the one it
\* asked for; if the cursor is lost midway, the first rows of that state.
CurrentReadIsRecent ==
    \A c \in Clients :
        LET o == op[c]
        IN  Done(c, {"list", "get", "update", "delete"}) /\ o.page > 0
                /\ (o.req.kind \in {"list", "get"} =>
                        o.ok /\ o.req.rev \notin 1..o.since)
                /\ ~(o.req.kind = "get" /\ o.req.rev \in 1..(compactRev - 1)) =>
            \E rev \in o.since..o.page : rev <= seq /\ Answers(o, rev)

\* A transaction whose comparison fails is never answered with the version it
\* compared with: the conditional insert and the read after it cannot both
\* miss the change that made it fail.
FailedTxnShowsAnother ==
    \A c \in Clients :
        LET o == op[c]
        IN  Done(c, {"update", "delete"}) /\ ~o.ok =>
                \A r \in o.kvs : r.id # o.req.rev

\* However often a write is repeated because its replies were lost, it takes
\* effect once: an update or delete that has inserted its row cannot match the
\* revision it compares with again.  Only a create may come back, when somebody
\* has deleted the key in between.
WriteTakesEffectOnce ==
    \A c \in Clients :
        LET o == op[c]
        IN  \A i, j \in o.mine : i < j =>
                /\ o.req.rev = 0
                /\ \E r \in log : r.name = o.req.key /\ r.deleted /\ r.id \in i..j

\* A count is the number of keys at the revision that is asked for, or at the one
\* in its header when that is older or no revision is given.  A count of zero is
\* the exception: LogStructured.Count takes it for one without a revision and
\* lists the keys at the newest, all of them, whatever the start key, and as
\* many as the cursor gives.  Revisions that have been compacted are another, for
\* which Count has no check.  The count that goes with a page is that of the
\* page's revision, although the header it brings may be of a later one.
CountIsExact ==
    \A c \in Clients :
        LET o == op[c]
            at(rev) == List(log, KeyRange(o.req), rev)
            rev == IF o.req.kind = "list" THEN o.page ELSE o.req.rev
            asked == IF rev \in 1..o.head THEN rev ELSE o.head
            first == IF rev \in 1..o.since THEN {rev} ELSE o.since..o.head
        IN  Done(c, {"count", "list"}) /\ o.ok /\ o.counting =>
                /\ \/ rev \in 1..(compactRev - 1)
                   \/ ~o.cut /\ o.count = Cardinality(at(asked))
                   \/ /\ \E r \in first : at(r) = {}
                      /\ o.cut \/ o.count = Cardinality(List(log, Keys, o.head))
                /\ o.req.rev <= o.since => o.page <= o.head

\* "get the current revision and relist ... because between now and getting
\* the current revision something could have been created": the page of a list
\* at the newest revision is the one of the revision it is labelled with.
ListMatchesRevision ==
    \A c \in Clients :
        LET o == op[c]
        IN  Done(c, {"list"}) /\ o.ok /\ ~o.cut /\ o.req.rev <= o.since =>
                o.kvs = PageAt(o.req, o.page)
=============================================================================
