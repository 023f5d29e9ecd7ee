----------------------------- MODULE PreparedDB -----------------------------
(***************************************************************************)
(* prepared/db.go and tx.go between the generic driver and database/sql:   *)
(* statements prepared once and kept behind a lock, the connections of a   *)
(* bounded pool, the transaction of a compaction, and the Close that the   *)
(* end of the server's context sets off while calls are under way.         *)
(*                                                                         *)
(* database/sql is external: a call waits for a connection, Stmt.Close     *)
(* waits for the calls of its statement, a transaction pins a connection.  *)
(***************************************************************************)
EXTENDS Naturals, FiniteSets

CONSTANTS
    Readers, Writers,   \* client requests; writers take the driver's lock
    Compactor,          \* the goroutine that compacts
    Closer,             \* the function that runs when the context is done
    NoOne,
    MaxOpen             \* the limit of the pool

ASSUME PreparedAssumption ==
    /\ MaxOpen \in Nat \ {0}
    /\ Readers \cap Writers = {}
    /\ {Compactor, Closer, NoOne} \cap (Readers \cup Writers) = {}
    /\ Compactor # Closer /\ NoOne \notin {Compactor, Closer}

VARIABLES
    mu,       \* who holds DB.mu for writing; readers of it hold it for one step
    writeMu,  \* who holds the lock of the driver (LockWrites)
    store,    \* the queries in DB.store
    open,     \* per query, how many of its statements are not closed
    conns,    \* the connections in use: who holds each, and for a call or a tx
    state,    \* of the database: "open", "closing", "closed" (underlying is nil)
    th        \* per goroutine, where it is

vars == <<mu, writeMu, store, open, conns, state, th>>

Callers == Readers \cup Writers \cup {Compactor}

\* A write, GetCompactRevision, which lists and compactions run, and the
\* statements of a compaction (tryCompact has three).
TxQueries == {"delete", "update compact"}
Queries == {"insert", "revisions"} \cup TxQueries

Idle == [pc |-> "idle", query |-> "revisions", todo |-> {}, tx |-> FALSE]

Init ==
    /\ mu = NoOne /\ writeMu = NoOne
    /\ store = {}
    /\ open = [q \in Queries |-> 0]
    /\ conns = {}
    /\ state = "open"
    /\ th = [t \in Callers |-> Idle]

-----------------------------------------------------------------------------

At(t, pc) == th[t].pc = pc

Goto(t, pc) == th' = [th EXCEPT ![t].pc = pc]

Dead == \E t \in Callers : At(t, "panicked")

\* Mutant: the limit of the pool is one less than configured.
FreeOneLess == Cardinality(conns) + 1 < MaxOpen

\* A connection is to be had.
Free == Cardinality(conns) < MaxOpen

\* What is in use when a goroutine has given its connections back.
Without(t) == {c \in conns : c[1] # t}

\* Generic.query
Query(t, query) ==
    /\ At(t, "idle")
    /\ th' = [th EXCEPT ![t].pc = "lookup", ![t].query = query]
    /\ UNCHANGED <<mu, writeMu, store, open, conns, state>>

\* Generic.execute with LockWrites
Execute(t, query) ==
    /\ At(t, "idle") /\ writeMu = NoOne
    /\ writeMu' = t
    /\ th' = [th EXCEPT ![t].pc = "lookup", ![t].query = query]
    /\ UNCHANGED <<mu, store, open, conns, state>>

\* A call, or a transaction, is over; the driver is done or goes on to BeginTx.
\* (A statement that Generic tries again is another call here.)
Return(t, pc) ==
    /\ th' = [th EXCEPT ![t] = IF pc = "begin"
                               THEN [Idle EXCEPT !.pc = "begin", !.todo = TxQueries]
                               ELSE Idle]
    /\ writeMu' = IF writeMu = t THEN NoOne ELSE writeMu

\* An error ends a call; Compact may begin a failed transaction again.
Fails(t) == Return(t, "idle") \/ (th[t].tx /\ Return(t, "begin"))

\* prepare, under the read lock.
Lookup(t) ==
    /\ At(t, "lookup") /\ mu = NoOne
    /\ Goto(t, IF th[t].query \in store THEN "use" ELSE "lock")
    /\ UNCHANGED <<mu, writeMu, store, open, conns, state>>

\* Mutant: the store is not looked at again.
LockAndPrepare(t) ==
    /\ At(t, "lock") /\ mu = NoOne
    /\ \/ /\ state = "closed"
          /\ Return(t, "idle")
          /\ conns' = Without(t)
          /\ UNCHANGED mu
       \/ /\ state # "closed"
          /\ mu' = t
          /\ Goto(t, "prepare")
          /\ UNCHANGED <<writeMu, conns>>
    /\ UNCHANGED <<store, open, state>>

\* Mutant: nobody asks whether the database is closed.
LockUnasked(t) ==
    /\ At(t, "lock") /\ mu = NoOne
    /\ IF th[t].query \in store
       THEN Goto(t, "use") /\ UNCHANGED mu
       ELSE Goto(t, "prepare") /\ mu' = t
    /\ UNCHANGED <<writeMu, store, open, conns, state>>

\* prepare, under the write lock, until it asks for a connection: the database
\* may be closed by now, and another goroutine may have been faster.
Lock(t) ==
    /\ At(t, "lock") /\ mu = NoOne
    /\ \/ /\ state = "closed"
          /\ Return(t, "idle")
          /\ conns' = Without(t)
          /\ UNCHANGED mu
       \/ /\ state # "closed" /\ th[t].query \in store
          /\ Goto(t, "use")
          /\ UNCHANGED <<mu, writeMu, conns>>
       \/ /\ state # "closed" /\ th[t].query \notin store
          /\ mu' = t
          /\ Goto(t, "prepare")
          /\ UNCHANGED <<writeMu, conns>>
    /\ UNCHANGED <<store, open, state>>

\* underlying.PrepareContext gets a connection.
Prepare(t) ==
    /\ At(t, "prepare")
    /\ IF state = "closed" THEN Goto(t, "panicked") /\ UNCHANGED conns
                           ELSE Free /\ Goto(t, "preparing") /\ conns' = conns \cup {<<t, "call">>}
    /\ UNCHANGED <<mu, writeMu, store, open, state>>

\* The statement is prepared and kept, the connection and the lock are free.
Prepared(t) ==
    /\ At(t, "preparing")
    /\ store' = store \cup {th[t].query}
    /\ open' = [open EXCEPT ![th[t].query] = @ + 1]
    /\ mu' = NoOne
    /\ conns' = conns \ {<<t, "call">>}
    /\ Goto(t, "use")
    /\ UNCHANGED <<writeMu, state>>

\* Mutant: the lock is kept on the way out.
PrepareFailsLocked(t) ==
    /\ th[t].pc \in {"prepare", "preparing"}
    /\ Fails(t)
    /\ conns' = Without(t)
    /\ UNCHANGED <<mu, store, open, state>>

\* PrepareContext fails, in the pool's queue too: the context is done, the
\* connection is bad.
PrepareFails(t) ==
    /\ th[t].pc \in {"prepare", "preparing"}
    /\ mu' = NoOne
    /\ Fails(t)
    /\ conns' = Without(t)
    /\ UNCHANGED <<store, open, state>>

\* The call on the statement begins, unless it is closed.
Use(t) ==
    /\ At(t, "use") /\ ~th[t].tx
    /\ IF open[th[t].query] = 0 THEN Return(t, "idle")
                                ELSE Goto(t, "connect") /\ UNCHANGED writeMu
    /\ UNCHANGED <<mu, store, open, conns, state>>

\* It gets a connection, which the rows keep until they are closed.
Connect(t) ==
    /\ At(t, "connect") /\ Free
    /\ conns' = conns \cup {<<t, "call">>}
    /\ Goto(t, "rows")
    /\ UNCHANGED <<mu, writeMu, store, open, state>>

\* It fails, in the pool's queue or at the server.
ConnectFails(t) ==
    /\ At(t, "connect")
    /\ Return(t, "idle")
    /\ UNCHANGED <<mu, store, open, conns, state>>

\* Compact reads its revisions and goes on, if there is anything to compact.
AfterRows(t) == IF t = Compactor THEN {"begin", "idle"} ELSE {"idle"}

\* Mutant: an early return leaves the rows open.
CloseRowsNot(t) ==
    /\ At(t, "rows")
    /\ \E pc \in AfterRows(t) : Return(t, pc)
    /\ UNCHANGED <<mu, store, open, conns, state>>

CloseRows(t) ==
    /\ At(t, "rows")
    /\ conns' = Without(t)
    /\ \E pc \in AfterRows(t) : Return(t, pc)
    /\ UNCHANGED <<mu, store, open, state>>

-----------------------------------------------------------------------------

\* DB.BeginTx looks at underlying without the lock.
BeginTx(t) ==
    /\ At(t, "begin")
    /\ \/ /\ state = "closed"
          /\ Goto(t, "panicked")
          /\ UNCHANGED conns
       \/ /\ state # "closed" /\ Free
          /\ conns' = conns \cup {<<t, "tx">>}
          /\ th' = [th EXCEPT ![t].pc = "next", ![t].tx = TRUE]
    /\ UNCHANGED <<mu, writeMu, store, open, state>>

\* BeginTx fails, in the pool's queue too, and tryCompact with it.  (When
\* Compact tries again nothing has changed.)
BeginFails(t) ==
    /\ At(t, "begin")
    /\ Return(t, "idle")
    /\ UNCHANGED <<mu, store, open, conns, state>>

\* The transaction's next statement, or its commit.
NextInTx(t) ==
    /\ At(t, "next")
    /\ \/ \E q \in th[t].todo :
             /\ th' = [th EXCEPT ![t].pc = "lookup", ![t].query = q, ![t].todo = @ \ {q}]
             /\ UNCHANGED <<writeMu, conns>>
       \/ /\ th[t].todo = {}
          /\ Return(t, "idle")
          /\ conns' = Without(t)
    /\ UNCHANGED <<mu, store, open, state>>

\* Tx.ExecContext runs the statement on the connection of the transaction.
UseInTx(t) ==
    /\ At(t, "use") /\ th[t].tx
    /\ IF open[th[t].query] = 0
       THEN Return(t, "idle") /\ conns' = Without(t)
       ELSE Goto(t, "next") /\ UNCHANGED <<writeMu, conns>>
    /\ UNCHANGED <<mu, store, open, state>>

\* A statement of the transaction fails: the deferred Rollback.
Rollback(t) ==
    /\ At(t, "next")
    /\ Fails(t)
    /\ conns' = Without(t)
    /\ UNCHANGED <<mu, store, open, state>>

-----------------------------------------------------------------------------

\* The context is done: Close takes the lock.
CloseLock ==
    /\ state = "open" /\ mu = NoOne
    /\ mu' = Closer
    /\ state' = "closing"
    /\ UNCHANGED <<writeMu, store, open, conns, th>>

\* It closes a statement, when no call is in it.
CloseStmt(q) ==
    /\ state = "closing" /\ q \in store
    /\ \A t \in Callers : ~(At(t, "connect") /\ th[t].query = q)
    /\ store' = store \ {q}
    /\ open' = [open EXCEPT ![q] = @ - 1]
    /\ UNCHANGED <<mu, writeMu, conns, state, th>>

\* It closes the pool and sets underlying to nil.
CloseDB ==
    /\ state = "closing" /\ store = {}
    /\ state' = "closed"
    /\ mu' = NoOne
    /\ UNCHANGED <<writeMu, store, open, conns, th>>

-----------------------------------------------------------------------------

Call(t) ==
    \/ t \in Readers \cup {Compactor} /\ Query(t, "revisions")
    \/ t \in Writers /\ Execute(t, "insert")

Step(t) ==
    \/ Lookup(t) \/ Lock(t)
    \/ Prepare(t) \/ Prepared(t)
    \/ Use(t) \/ Connect(t) \/ CloseRows(t)
    \/ BeginTx(t) \/ NextInTx(t) \/ UseInTx(t)

Fail(t) == PrepareFails(t) \/ ConnectFails(t) \/ BeginFails(t) \/ Rollback(t)

Close == CloseLock \/ (\E q \in Queries : CloseStmt(q)) \/ CloseDB

\* A panic ends the process.
Next ==
    \/ \E t \in Callers : ~Dead /\ (Call(t) \/ Step(t) \/ Fail(t))
    \/ ~Dead /\ Close

\* Goroutines run; the lock and the pool serve those who wait in turn.  Nothing
\* has to fail, nobody has to call, and the context need never be done.
Fairness ==
    /\ \A t \in Callers : SF_vars(~Dead /\ Step(t))
    /\ WF_vars(~Dead /\ state = "closing" /\ Close)

Spec == Init /\ [][Next]_vars /\ Fairness

-----------------------------------------------------------------------------
(* Properties *)

\* A query is prepared once however many goroutines miss it in the store at the
\* same time, and whatever is open can be found by Close: DB.prepare asks again
\* under the write lock.  After Close nothing is open.
StatementsAreFound == \A q \in Queries : open[q] = IF q \in store THEN 1 ELSE 0

\* Every connection that is in use is in some goroutine's hands, on the error
\* paths of calls, transactions and preparations too, and there are never more
\* than the pool may open.
ConnectionsAreHeld ==
    /\ conns = {<<t, "tx">> : t \in {u \in Callers : th[u].tx}}
          \cup {<<t, "call">> : t \in {u \in Callers : th[u].pc \in {"preparing", "rows"}}}
    /\ Cardinality(conns) <= MaxOpen

\* After Close, calls get an error.  Only the compaction may still dereference
\* the database that is gone, between its read of the revisions and BeginTx.
NilOnlyInBeginTx ==
    \A t \in Callers : At(t, "panicked") => t = Compactor /\ th[t].todo = TxQueries

\* With two connections or more nobody waits for ever: a compaction holds one
\* and, under the lock of the store, waits for another.  Its transactions end,
\* and none waits for ever to begin.
CallsReturn ==
    \A t \in Callers :
        /\ ~At(t, "idle") ~> (At(t, "idle") \/ At(t, "begin") \/ Dead)
        /\ At(t, "begin") ~> (~At(t, "begin") \/ Dead)

\* Close, once begun, comes to its end, although it waits under the lock for
\* calls that wait for connections.
CloseReturns == state = "closing" ~> (state = "closed" \/ Dead)
=============================================================================
