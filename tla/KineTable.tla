----------------------------- MODULE KineTable -----------------------------
(***************************************************************************)
(* The kine table and the SQL statements the generic driver runs on it     *)
(* (pkg/kine/drivers/generic/generic.go).                                  *)
(*                                                                         *)
(* A table is a set of rows.  Every query is a set of rows, every INSERT   *)
(* ... SELECT is the set of rows it would insert (empty or a singleton),   *)
(* every DELETE and UPDATE maps a table to a table.  The operators have no *)
(* state: KineStore and the modules that extend it run them as atomic      *)
(* statements.                                                             *)
(***************************************************************************)
EXTENDS Integers

CONSTANTS
    Keys,           \* the names clients write, all below the prefix "/"
    CompactRevKey,  \* the name of the row that stores the compact revision
    Values,         \* what clients write
    NoValue,        \* SQL NULL, and the empty value of the compact_rev_key row
    Leases          \* the leases (in seconds) clients attach; 0 is no lease

\* The name of the row with which a poller plugs a missing revision n.
GapName(n) == <<"gap", n>>

ASSUME NamesAssumption ==
    /\ CompactRevKey \notin Keys
    /\ CompactRevKey \notin {"gap"} \X Nat
    /\ Keys \cap ({"gap"} \X Nat) = {}

ASSUME DataAssumption == Leases \subseteq Nat

IsFill(name) == name \notin Keys \cup {CompactRevKey}

Row == [id : Nat, name : Keys \cup {CompactRevKey} \cup ({"gap"} \X Nat),
        created : BOOLEAN, deleted : BOOLEAN, createRev : Nat, prev : Nat,
        lease : Nat, value : Values \cup {NoValue},
        oldValue : Values \cup {NoValue}]

-----------------------------------------------------------------------------
(* Queries *)

Named(t, names) == {r \in t : r.name \in names}

UpTo(t, rev) == {r \in t : r.id <= rev}

\* SELECT MAX(id) ... GROUP BY name, joined back to the rows.
Latest(t, names) ==
    {r \in Named(t, names) : \A q \in t : q.name = r.name => q.id <= r.id}

\* The newest row of every listed name, without the deleted ones.
ListCurrent(t, names) == {r \in Latest(t, names) : ~r.deleted}

\* The same over the rows that existed at a revision.
List(t, names, rev) == ListCurrent(UpTo(t, rev), names)

\* The rows written after a revision.
After(t, names, rev) == {r \in Named(t, names) : r.id > rev}

MaxOf(S) == IF S = {} THEN 0 ELSE CHOOSE m \in S : \A n \in S : n <= m

\* SELECT MAX(id): the current revision.
MaxId(t) == MaxOf({r.id : r \in t})

\* MAX(prev_revision) over the compact_rev_key rows, NULL read as 0.
CompactRev(t) == MaxOf({r.prev : r \in Named(t, {CompactRevKey})})

\* What a row tells a client: scan() reports a created row as created by
\* itself, whatever its create_revision column says.
CreateRevOf(r) == IF r.created THEN r.id ELSE r.createRev

KV(r) == [key |-> r.name, value |-> r.value, lease |-> r.lease,
          createRev |-> CreateRevOf(r), modRev |-> r.id]

-----------------------------------------------------------------------------
(* Conditional inserts: the rows inserted under the fresh id *)

\* Mutant: creates over a live key.
CreateSQLAnyLatest(t, id, k, v, lease) ==
    {[id |-> id, name |-> k, created |-> TRUE, deleted |-> FALSE,
      createRev |-> 0, prev |-> MaxId(Named(t, {k})), lease |-> lease,
      value |-> v, oldValue |-> NoValue]}

CreateSQL(t, id, k, v, lease) ==
    LET prevs == IF Named(t, {k}) = {}
                 THEN {0}
                 ELSE {r.id : r \in {q \in Latest(t, {k}) : q.deleted}}
    IN  {[id |-> id, name |-> k, created |-> TRUE, deleted |-> FALSE,
          createRev |-> 0, prev |-> p, lease |-> lease, value |-> v,
          oldValue |-> NoValue] : p \in prevs}

\* Mutant: any live row with the revision, newest of its key or not.
CurrentStale(t, k, rev) == {r \in Named(t, {k}) : ~r.deleted /\ r.id = rev}

\* The live latest row of k, provided it is the one with the given revision.
Current(t, k, rev) == {r \in Latest(t, {k}) : ~r.deleted /\ r.id = rev}

UpdateSQL(t, id, k, v, rev, lease) ==
    {[id |-> id, name |-> k, created |-> FALSE, deleted |-> FALSE,
      createRev |-> CreateRevOf(r), prev |-> r.id, lease |-> lease,
      value |-> v, oldValue |-> r.value] : r \in Current(t, k, rev)}

DeleteSQL(t, id, k, rev) ==
    {[id |-> id, name |-> k, created |-> FALSE, deleted |-> TRUE,
      createRev |-> CreateRevOf(r), prev |-> r.id, lease |-> r.lease,
      value |-> NoValue, oldValue |-> r.value] : r \in Current(t, k, rev)}

FillRow(rev) ==
    [id |-> rev, name |-> GapName(rev), created |-> FALSE, deleted |-> TRUE,
     createRev |-> 0, prev |-> 0, lease |-> 0, value |-> NoValue,
     oldValue |-> NoValue]

\* PRIMARY KEY (id) and UNIQUE INDEX (prev_revision, name).
Accepts(t, row) ==
    \A q \in t : q.id # row.id /\ ~(q.prev = row.prev /\ q.name = row.name)

-----------------------------------------------------------------------------
(* The three statements of a compaction transaction over (start, end] *)

\* Mutant: leaves out the last revision of the interval.
SupersededIdsShort(t, start, end) ==
    {r.prev : r \in {q \in t : /\ q.name # CompactRevKey /\ ~q.created /\ q.prev # 0
                               /\ start < q.id /\ q.id < end}}

SupersededIds(t, start, end) ==
    {r.prev : r \in {q \in t : /\ q.name # CompactRevKey
                               /\ ~q.created
                               /\ q.prev # 0
                               /\ start < q.id
                               /\ q.id <= end}}

DeleteSuperseded(t, start, end) ==
    {r \in t : r.id \notin SupersededIds(t, start, end)}

\* Mutant: tombstones of every revision.
DeleteTombstonesAll(t, start, end) == {r \in t : ~r.deleted}

DeleteTombstones(t, start, end) ==
    {r \in t : ~(r.deleted /\ start < r.id /\ r.id <= end)}

\* Mutant: moves the compact revision back, too.
UpdateCompactSQLAlways(t, end) ==
    {IF r.name = CompactRevKey THEN [r EXCEPT !.prev = end] ELSE r : r \in t}

UpdateCompactSQL(t, end) ==
    {IF r.name = CompactRevKey /\ r.prev < end
     THEN [r EXCEPT !.prev = end] ELSE r : r \in t}

\* Mutant: the tombstones first, while the rows they supersede remain.
TryCompactTombstonesFirst(t, start, end) ==
    UpdateCompactSQL(
        DeleteSuperseded(DeleteTombstones(t, start, end), start, end), end)

TryCompact(t, start, end) ==
    UpdateCompactSQL(
        DeleteTombstones(DeleteSuperseded(t, start, end), start, end), end)
=============================================================================
