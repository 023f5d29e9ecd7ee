# k8s-dqlite in TLA+

k8s-dqlite offers the etcd v3 API that Kubernetes needs on top of one SQL
table, `kine`, which all nodes of a cluster share through dqlite.  The table is
a log: every write appends a row whose id is its revision.  Several processes
append to it, read it with sequences of statements that no transaction holds
together, poll it to feed watches, and compact it, all at the same time and on
every node.  This project models that core and the life of the process around
it, checks them with TLC and proves with TLAPS every safety property that TLC
checks.

## Inventory

| component | state | operations | correct when |
|---|---|---|---|
| `kine` table (`drivers/generic`, `drivers/sqlite/schema.go`) | rows, AUTOINCREMENT counter | conditional inserts, snapshots, counts, the compaction transaction | a snapshot at a readable revision never changes; no two writers win the same comparison; the newest row survives |
| compaction (`sqllog/sql.go` `DoCompact`, `generic.go` `Compact`) | per node: the interval it has read, the batch it is at | `compactStart`, interval, batches, transaction | exactly the unreadable rows go, whatever nodes overlap, fail or repeat; it keeps up |
| reads (`server/list.go`, `get.go`, `logstructured.go`, `SQLLog.List`, `Count`) | per request: the rows read so far, the revision fixed so far | rows, revision interval, relist, count | the answer is a snapshot and is labelled with its revision |
| transactions (`server/create.go`, `update.go`, `delete.go`, `Generic.execute`) | per request | one conditional insert, again when its reply is lost, then a read if it failed | the answer to a failed comparison explains the failure; a repeated write takes effect once |
| poll loop (`SQLLog.poll`) | last revision, suspected gap and its time | query, gap detection, fill, skip | every event once, in order, never stuck |
| broadcaster | subscriptions with bounded channels | subscribe, publish, close | a slow reader is closed, not left with a hole |
| watch (`LogStructured.Watch`) | list, hand-over revision, stream | subscribe, list, filter, close | no event twice, none lost between list and stream |
| leases (`ttl`, `ttlEvents`) | one timer per leased revision | list, subscribe, delete when due | every leased key expires, no newer version of it does |
| watch bridge (`server/watch.go`) | the watches of a gRPC stream | start, cancel, close | the client hears of the end of a watch; nothing of a watch outlives its stream |
| server (`pkg/server`, `cmd/root.go`) | files of the storage directory, `mustStopCh` | create or update the node, start, storage watch, shutdown | wherever the process dies, the next one comes up as the same node, in the right cluster |
| start of the drivers (`drivers/sqlite`, `drivers/dqlite`) | schema version, indexes, the rows of an old database | schema migration, copy, first rows | a node that serves has the schema it needs; old data is copied all or not at all |
| prepared statements (`prepared`) | statement cache, lock, pool of connections | prepare, call, transaction, close | nothing is leaked, nobody waits for ever, calls after `Close` get an error |
| endpoint, client, migrator, instrumentation, commands | wiring | | |

Components interact through the table (writers, readers, compactors and pollers
of all nodes), through the `notify` channel that wakes the poll loop, and
through the chain poll loop - broadcaster - subscription - watch of one node.
Every statement goes through the prepared statements of its node; the end of the
server's context closes them under the calls of everybody else.
What is hard: statements of different actors between the statements of one
request; intervals that are stale when they are used; several nodes compacting;
rows that disappear before a poller reads them; hand-over from a list to a
stream; bounded channels; replies that are lost and retried; a process that dies
between two writes to its directory or in the middle of a copy.  `PROJECT.json`
lists each of these hazards at its line with the properties that watch over it.

## Modules

- **KineTable** holds the SQL statements as operators on a set of rows: a query
  is a set, an `INSERT ... SELECT` is the set of rows it would insert, a
  `DELETE` or `UPDATE` maps a table to a table.  `CreateSQL`, `UpdateSQL`,
  `DeleteSQL` and the three statements of `TryCompact` keep the names of the
  code.  `Accepts` is the primary key and the unique index of the schema.
- **KineStore** is the state machine on the table: `Create`, `Update`,
  `Delete`, `Fill`, and `DoCompact` of every node broken up at its statements
  (`CompactStart`, `CreateCompactKey`, `ReadInterval`, `StartBatch`,
  `CommitBatch`, `EndCompact`).  `AbortCompact` is any failure or restart.
  `CommitBatch` may leave the compactor where it is: the reply was lost and
  `Compact` tries again.  `seq` is the AUTOINCREMENT counter, `log` is a history
  variable with every row ever inserted under a fresh id.
- **Mvcc** is the abstract specification: a compact revision, a current
  revision, and a snapshot for every revision between them.  A write compares
  with the newest snapshot and appends one, compaction forgets old ones.
- **KineReads** adds requests: `Receive`, for any revision, later than the newest
  included (`test/list_test.go` has that case), and the statements of a range request
  (`ReadRows`, `ReadRevision`, `Relist`, `CountRows`), and `CreateTxn`,
  `UpdateTxn`, `DeleteTxn` with the read that answers a failed comparison.  The
  insert of a transaction may lose its reply; then the loop of `Generic.execute`
  runs it again (`Retry`) or gives up (`TxnFails`), with other clients in between.
  One request record per client carries what the code keeps in local variables,
  and `cut`, a history of whether its cursor was lost.
- **KineWatch** adds the feed of one node: the poll loop (`Poll`, `PollGap`,
  `PollGapAgain`, `PollSkip`, `PollFill`), the broadcaster (`Publish`,
  `EndStream`, `Unsub`) and a watch (`StartWatch`, `ListRows`, `ListRevision`,
  `ListFails`, `Deliver`, `EndWatch`, `CancelWatch`).  `polled` and `delivered`
  are histories, and so is `lost`, the rows that a list did not get from its cursor.
- **KineLease** adds the expiry of leases on one node: the goroutine that lists
  (`ListPage`, `PageRevision`, `SendPage`, `EndListing`), the one that subscribes
  (`Subscribe`, `ReadEvent`, `EndReading`), and `ttl` with its timers (`Expire`,
  `Stop`, `EndTtl`).  The feed is taken as KineWatch shows it: the rows in order,
  one batch each.
- **WatchStream** stands alone.  It models one gRPC stream of `server/watch.go`:
  the receive loop (`RecvCreate`, `RecvCancel` and `Answer`, `RecvFails`,
  `Return`), the goroutine of each watch (`SendCreated`, `ReadBatch`,
  `SendEvents`, `EndOfChannel`, and `Cancel` in its two parts `ForgetWatch` and
  `SendCanceled`), and the bounded channel behind it, with events as a count.
  The batch from the list of `LogStructured.Watch` is counted with the others.
- **StateDir** is `server.New` with the files of a storage directory: `ReadInit`
  and `RemoveInit`, `ReadUpdate`, `Reconfigure`, `WriteInfo`, `WriteCluster` and
  `RemoveUpdate`, and `AppNew`, which stands for go-dqlite.  `CrashInNew` may come
  at any step, also as an error of New (a bad tuning.yaml or certificate is found
  after init.yaml is gone); a file that was being written is then its old self or
  empty.  `mishap` remembers what such a crash has destroyed.
- **DbSetup** extends it with the start of the drivers on the database of the
  cluster: `CheckVersion`, `ApplySchema` and `GiveUp` are the loop around `setup`,
  `CountRows` and `CopyRow` the copy from `./db/state.db`, which does not take place
  when that cannot be read (`OldDataUnreadable`), `StartBackend` and
  `CreateHealth` the first rows.  Nodes of one cluster do this side by side.
- **Server** composes both into the life of a process: `Listen`, the storage
  watcher (`FindLowStorage`, `SendMustStop`, `EndWatcher`), the select of
  `cmd/root.go` (`Signal`, `ReceiveMustStop`) and the four steps of `Shutdown`.  The
  last of them, `WaitBackend`, may return or leave the process "hung": that is the
  lease channel nobody closes (`LastOneCloses`).  Somebody may `Kill` it then.
- **PreparedDB** stands alone.  It models `prepared.DB` and `prepared.Tx` under
  readers, writers and a compaction: `Lookup` and `Lock` are the two halves of
  `prepare`, `Use`, `Connect` and `CloseRows` a call, `BeginTx`, `BeginFails`,
  `NextInTx`, `UseInTx` and `Rollback` a transaction, `CloseLock`, `CloseStmt` and `CloseDB`
  the `Close` that runs when the server's context is done.
- **KineStoreProofs** holds the theorems about KineStore, **KineMvccProofs** the
  refinement of Mvcc.  **KineReadsProofs, KineWatchProofs, KineLeaseProofs,
  WatchStreamProofs, PreparedDBProofs** and **ServerProofs** hold those about the
  module they are named after; the first three extend KineStoreProofs and use its
  invariant and its lemmas about the history.
- **MCKineStore, MCKineReads, MCKineWatch, MCKineLease, MCWatchStream, MCServer,
  MCPreparedDB** give TLC its instances.

Definitions whose comment says *Mutant* are plausible mistakes in the code next
to them.  They are part of no specification; `PROJECT.json` pairs each property
with the mutant that breaks it.

### What is abstracted

- A statement or a transaction is one atomic step: dqlite runs them one after
  the other on its leader.  A statement that returns an error changes nothing,
  and the request, poll or batch that it belongs to is given up or tried again.
- A query whose cursor is lost while its rows are read returns **no** error:
  `RowsToEvents` (`sqllog/sql.go:275-288`) does not ask `rows.Err()`.  Wherever it
  is used the model takes any first part of the rows: in `ReadRows` the first by
  name (`InitialPart`), in `ListRows` the first by revision, in the poll loop and in
  the list of leases a query of any smaller size, in `CompactStart` the row or none.
  The queries for a single aggregate (`CountRows`, the revisions) ask for the error.
- Keys, values and leases are model values; all client keys are below one
  prefix.  The order of keys that pages need is the constant `Rank`.
- A client write that inserts no row is no step of KineStore (its answer is
  modelled in KineReads).
- Clients start when the `compact_rev_key` row is there, since a node listens
  after `Start` has made it (`Serving`).
- The wake-up channel of the poll loop only decides when it runs.  The second
  that a gap is given is a choice between `PollGapAgain` and `PollSkip`.
- Sending a batch to the broadcaster and publishing it are one step: the channel
  is unbuffered and the broadcaster does nothing else.  (Two watches of one
  stream may call `Send` at the same time; WatchStream takes each `Send` as one
  step, which is more than gRPC promises.)  The two channels behind
  a subscription only delay events.
- The recount of `LogStructured.Count` stops at 1000 keys; the model counts all.
- A write that has inserted nothing and is repeated is as one that came later, so
  `Execute` repeats only inserts that took effect.  In PreparedDB, which has no
  data, a statement that is tried again is another call.
- `app.New`, `app.Ready` and `ReconfigureMembership` of go-dqlite are external and
  each one step.  An identity is the node's own or the zero value; an address is
  the one of init.yaml, of update.yaml, or the default.
- A failed attempt at the schema setup changes nothing, and `GiveUp` may follow
  any number of attempts: the code makes 300.
- Of the actions on low storage only `terminate` changes what is modelled.
- An operator gives a node a new address only while it is alone in its cluster
  (`PutUpdate`), since `New` writes a membership of one.
- database/sql in PreparedDB: a call waits for a free connection, `Stmt.Close`
  waits for the calls of its statement, a transaction keeps its connection.  The
  rollback that the end of a context starts by itself is left out.

## Runs

| run | instance | what it shows |
|---|---|---|
| store | 2 keys, 2 values, 2 nodes, 5 revisions, 1 newest kept, batches of 2 | the invariants of KineStore, the inductive invariant, and that KineStore implements Mvcc |
| loops | 1 key, 1 node, no watch, 4 revisions | the poll loop drops only what was compacted and is never stuck; compaction keeps up |
| reads | 2 ordered keys, 1 request, 4 revisions, page sizes none and 1 | reads are snapshots or, with a lost cursor, the first rows of one; repeated writes take effect once |
| watch | 1 key, 1 watch, 4 revisions, poll limit 2, one buffered batch | order, no duplicates, no unknown holes |
| watch_liveness | as watch, 3 revisions | a watch is served or closed |
| lease | 2 ordered keys, pages of up to 2, one buffered event, 3 revisions | every leased key gets a timer, but for one race; the channel is closed once, by the last |
| stream | 1 watch, 4 batches, channels of 2 and 1, 3 cancel requests | nothing outlives the stream; the client hears of the end; a cancelled watch ends, the handler returns |
| prepared | 1 reader, 1 writer, a compaction, 2 connections | no statement or connection is lost, no deadlock, only `BeginTx` can meet a closed database |
| server | 2 nodes, both with an old database, one with a storage watch, 1 crash | identity, cluster, schema and old data survive a crash anywhere, but for the named windows; the process recovers, and ends when its storage is low, unless it waits for its backend for ever |
| list_not_at_its_revision, watch_hole_at_the_handover, lease_channel_left_open | as reads, watch and lease, 5 revisions for the last | where the code departs from what its comments say |

### Bounds

`MaxRev` bounds the rows that clients insert; nothing else is cut.  Revision 1
is the `compact_rev_key` row.  A key that is created, updated, deleted and
created again takes four more, compaction over several batches with the newest
revision kept takes five rows in all, a second key is needed for interleaved
chains and for pages.  Two nodes are enough for stale intervals: a transaction
is disturbed by what one other node commits, and the proofs cover any number.
`SupersededCount` is 100 and `CompactBatchSize` 1000 in the code; the model uses
1 or 2 of each so that compaction happens at once, and 9 (more than there are
revisions) in `watch_hole_at_the_handover`, which is meant to have no compaction.
`watch` leaves two histories out of the comparison of states (`VIEW WatchView`):
which revisions the poll loop has read and where it started.  No guard and neither
of the two invariants of the run reads them, so states that differ in nothing else
have the same future; the properties of the poll loop are checked in `loops`,
without a view.  Requests ask for revisions up to `MaxRev + 1`, which is later than
any there is.  A page of two keys is the smallest that a lost cursor can shorten.
A gap in front of the poll loop takes four revisions, hence `loops`, with one
compacting node; that the intervals of several nodes do no harm is a matter of
safety, in `store` and in the proofs.  Requests and watches do
not touch each other, so one of each meets every interleaving.  A full
subscription needs one buffered batch and another one.

A list of leases that a compaction interrupts takes two keys, two later
revisions and a batch, five revisions in all; `lease_channel_left_open` goes that
far and, to stay small, looks only at behaviours in which the poll loop has
published nothing yet (`PollerIsAsleep`).  In WatchStream a
goroutine that feeds a watch blocks when one batch is in hand, one in the channel
and another one waits: three or four batches.  The watches of a stream share
nothing but the table of cancel functions, in which each looks at its own entry,
so one watch and the receive loop meet every interleaving.  The run may stop, when
the handler has returned.

In `server`, one crash or input/output error (of a file, of the old database, of
the row for the health check) at any point is followed by as many clean
restarts as the run likes; every window in the code is between two steps of one
process, so the second crash of a pair finds nothing new, and the node that is not
crashed meets the other one at every stage.  The first node is new, was set up
before, or has files it must refuse; its database is missing, of upstream kine, or
of a later minor or major version.  In `prepared`, three goroutines are enough for two that
miss the same statement while the third holds a transaction.  With `MaxOpen = 1`
TLC shows that a compaction waits for itself: it holds the one connection and, to
prepare its next statement, asks for another under the lock.  docs/configuration.md
recommends two connections or more; the run may stop when a panic ends the process.

### Fairness

- `CompactionFairness`: every node has a ticker that starts `DoCompact` again
  after an error, so each of its statements is tried again and again; strong
  fairness says that a statement which is tried for ever succeeds once.  Aborts
  are allowed at any step and any number of times.
- `PollFairness`: the loop is woken by writes and by a ticker.  A gap that is
  found again and again is older than a second in the end, hence strong
  fairness for `PollSkip`: compaction may remove each fill again.
- `FairSpec` of WatchStream: goroutines run, `Send` returns (the client reads, or
  the connection is lost), `Recv` fails on a lost connection, and the broadcaster
  acts on a context that is done.  No client is forced to cancel.
- `ServerFairness`: processes run and are restarted by the service manager; a join
  that is tried again finds its cluster and a setup that can succeed does, when
  they are tried again and again (strong fairness of `Ready` and `CheckVersion`).
  Crashes, signals and the storage are never forced.  `WaitBackend` is fair as a
  step, but it may end in "hung" as well as in the end of the process, and nobody
  is forced to kill a process that hangs, so no property rests on its return.
- `Fairness` of PreparedDB: the lock and the pool serve those who wait in turn, so
  strong fairness of each caller's steps; a `Close` that has begun goes on.
- `FeedFairness`: goroutines run.  Clients, compaction, cancellation and the
  end of the poll loop are never forced.

### Findings

- A list of the newest revision with rows in it is labelled with a revision that
  a later statement reads (`ListMatchesRevision`).  `CurrentReadIsRecent` states
  what is still true: it is the state of some revision between the arrival of
  the request and that label.  (The run looks at pages whose cursor was not lost.)
- A watch may lose an event that is committed between the two statements of its
  list (`WatchMissesNothing`), also when no cursor is lost.
  `WatchHasNoOtherHole` shows that this, compaction, and a cursor that is lost in
  the list are the only ways.
- When a compaction interrupts the list of leases, its goroutine returns without
  its part in closing the channel, and the shutdown waits for ever
  (`LastOneCloses`); otherwise the last one closes it (`ClosedByTheLast`).  So a
  process that is told to stop need not end (`LowStorageStops`, `Recovers`).

Other departures have no run of their own; they are the exceptions in properties
that hold:

- A cursor that is lost midway shortens an answer without an error: a page lacks
  its last rows and, when the extra row is among them, the client is told that there
  is no more; a relisted count is too small; a watch goes on without the events its
  list has lost (`ReadAtRevisionIsExact`, `CurrentReadIsRecent`, `CountIsExact`,
  `WatchHasNoOtherHole`).  The poll loop and the pages of leases take up where the
  cursor was lost, so they miss nothing (`PollMissesOnlyCompacted`,
  `OnlyTheRaceIsUntimed`); but when all of a page of leases is lost the list ends.
- A read of a revision that is yet to come is answered with the newest state and
  labelled with the revision that was asked for (`CurrentReadIsRecent`).
- A count at a compacted revision is answered with what is left of it, and a count
  that is zero at an old revision is replaced by the count of the newest one
  (`CountIsExact`).
- A poller that is behind loses events to compaction (`PollMissesOnlyCompacted`),
  although `sqllog/sql.go` expects that compaction makes no gaps.
- A leased key that is written after the list of leases and published before the
  subscription to them is never expired (`OnlyTheRaceIsUntimed`).
- A write whose reply was lost and that is repeated is reported as a failed
  comparison although it took effect; a create that is repeated after somebody
  deleted the key takes effect twice (`WriteTakesEffectOnce`).
- The header of a page is that of its count and may be later than the page
  (`CountIsExact`).
- An old database that cannot be queried is not copied, and after the first rows are
  there nobody tries again (`OldDataUnreadable`); the database has none of the old
  rows then, which `OldDataIsWhole` allows.
- A node that dies between the removal of init.yaml and `app.New` founds a cluster
  of its own at the default address (`ServesAsConfigured`); one that dies while it
  writes info.yaml comes back with the zero identity or not at all
  (`NodeKeepsItsIdentity`, `Recovers`).
- When every attempt at the schema setup fails, the node starts nevertheless, also
  on a database of another major version (`ServingMeansSchema`).
- The copy of an old database is not in the transaction that is begun for it; cut
  short, it is never completed (`OldDataIsWhole`).
- The storage watcher may send on a closed channel during the shutdown and panic,
  when dqlite is closed already (`PanicsOnlyWhenClosed`); a compaction that is about
  to begin its transaction when the database is closed panics too
  (`NilOnlyInBeginTx`).  `Shutdown` waits for the goroutines of `LogStructured`
  only, so compaction may outlive it.

## Proofs

Every invariant and action property of a passing run, and the refinement of Mvcc,
is a theorem for every value of the constants: any sets of keys, values, nodes,
clients and watches, any number of revisions, any batch, page and buffer size, any
number of crashes.  The assumptions are the named ones of the modules: names of
client keys, of the compact row and of fills are different, leases are numbers,
the sizes are positive, the order of the names is strict.  `PROJECT.json` pairs
each theorem with the property it states.  What TLC checks on a small instance of
each module is thus not a matter of its bounds, but for liveness.

Hardly any of the properties is inductive.  Each proof module has its inductive
invariant in front, as a conjunction of named parts, one lemma per action, and the
theorems at the end.  Parts about one client, watch or node are predicates of the
*values* of that client's record and of what it depends on, and one lemma per
module says that a step which leaves sound values keeps the invariant; the lemma
of an action only computes its values.

### The store (KineStoreProofs)

The argument compares the table with the history.  `TableIsCompactedLog` is the
heart: the client rows of the table are those of the history that are neither
superseded at or before the compact revision nor a tombstone at or before it.
It is not inductive on its own:

- `LogInv` says of the history what makes "superseded" mean "not the newest":
  every update and delete names an earlier live row of its key, and a live row
  that its key has moved past was named by a row no later than the next.
- `KineInv` says that only the one `compact_rev_key` row and fills are in the
  table besides, that the `compact_rev_key` row is never removed, that ids are
  unique and never above the counter, and that the row with the newest id is
  there, which the interval of a compaction spares.
- `CompactorInv` says what a compaction that has read its interval may rely on
  when it commits: its low end is at or below the compact revision and its high
  end is below the newest row.  So rows between a stale low end and the compact
  revision have been dealt with already, and the newest row is safe.
- `EventChain` ties the compare-and-swap, which looks at the table, to the
  history: the newest row of a key in the table is its newest in the history,
  unless the key is deleted and its tombstone compacted.

Each action has a lemma that it keeps `IInv`; the longest is that of
`CommitBatch`, where `TryCompact` is expanded into its three statements and the
case of a batch at or below the compact revision is told apart from one above.
`SnapshotIsolation`, `CurrentRevision`, `NoLostUpdate`, `OneCompactRow`,
`CompactionExact`, `NoConflict` and `TypeCorrect` follow from the invariant in a
state; `CompactRevNeverFalls` is an action property and uses it in a step.

### The refinement (KineMvccProofs)

`Refinement` maps the table to the snapshots of Mvcc.  Under `IInv` the snapshot
of the table at a readable revision is that of the history, which a new row leaves
alone but for the newest.  So a client's write is the `Create`, `Update` or
`Delete` of Mvcc, with the same comparison, a fill and the `compact_rev_key` row are a revision that
changes no key, a committed batch only forgets, and every other step of a
compactor is no step at all.

### Reads and transactions (KineReadsProofs)

`ReadsInv` describes what a request has read by the history alone: its rows are the
list of the history at some revision that has been issued, or an initial part of it
if the cursor was lost, or that revision has been compacted since.  A revision that
was yet to come is read as the newest of the moment.  Such a list never changes and the compact revision never
falls, so the fact outlives the steps of everybody between two statements of the
request.  `RefusedOK` remembers why a comparison failed (the newest version of the
key is later than the one that was named), `MineOK` the rows that the request has
inserted itself, `CountOK` and `PageOK` what the count and the page are of.

### The feed (KineWatchProofs)

`WatchInv` says of the poll loop that it reads an initial part of the rows after
its last revision, whatever the size of the query and wherever its cursor was lost, so that what it passes over is not in the table, hence was
compacted; of a subscription that its batches ascend and are above everything
delivered from it; and of a watch that each event after its start is delivered,
underway, within its list, lost by it, compacted, or above all of them (`HoleOK`).  An open
subscription is what makes the last alternative mean "still to come".

### Leases (KineLeaseProofs)

A version that is live now has been live since it was written, and is in the
table.  `ListCovers` says that such a version, when it was there for the first
page, has a timer, is in the page in hand, or has a name after all of that page:
pages are read at different times and revisions, in the order of the names.
`FeedCovers` says the same of the subscription in the order of revisions.  The
race that is left is what neither covers.

### The stream, the prepared statements, the server

- `StreamInv` ties the table of cancel functions, the contexts and the stage of
  each goroutine together, and what was sent last to that stage.
- `PreparedInv` says who holds the lock and that he has seen the statement
  missing under it, and which connections belong to which stage of a goroutine.
  `ConnectionsAreHeld` adds the bound on their number.
- `ServerInv` says for each stage of a process which files exist and agree, with
  what the process has in memory (`FilesOK`), where its configuration came from
  (`OriginOK`), what the setup has done to the database (`SchemaOK`), and that the
  rows not yet copied are in the hands of a process that copies (`CopyOK`); each
  with the mishap that is the only way out of it.

### Only model-checked

The liveness properties (`CompactionCatchesUp`, `PollCatchesUp`, `WatchIsServed`,
`CancelledWatchEnds`, `StreamReturns`, `CallsReturn`, `CloseReturns`, `Recovers`,
`LowStorageStops`), since fairness is beyond the prover, and the absence of
deadlock, which needs ENABLED.  The three findings are counterexamples of TLC.

## Not modelled

The branch of `compactStart` that removes duplicate `compact_rev_key` rows, which
`SingleCompactRow` shows to be unreachable for tables this version has written.
The conversion of events and rows to etcd messages, the parsing of connection
strings, the checks for unsupported options, listeners and gRPC settings.  Not
worth a model: size and status queries, metrics, traces, TLS, flags, the migrator
and the client, which keep no state or only copy data.  dqlite, raft, database/sql
and gRPC are external.

## Plan

1. Proofs: action properties that the invariants make cheap to state and to prove,
   such as what a step may do to a delivered event or to a timer.
2. Duplicate `compact_rev_key` rows written by an older version.
3. `KineLease` on the poll loop of KineWatch instead of the feed it promises.
