-------------------------- MODULE PreparedDBProofs --------------------------
(***************************************************************************)
(* Proofs about the prepared statements and the connection pool, for any   *)
(* number of readers and writers and any limit of the pool.                *)
(***************************************************************************)
EXTENDS PreparedDB, FiniteSetTheorems, TLAPS

ThreadState ==
    [pc : {"idle", "lookup", "lock", "prepare", "preparing", "use", "connect", "rows",
           "begin", "next", "panicked"},
     query : Queries, todo : SUBSET TxQueries, tx : BOOLEAN]

\* A goroutine that prepares a statement holds the lock of the store, has seen
\* that the statement is not there, and Close has not begun.
LockOK(t, r) ==
    r.pc \in {"prepare", "preparing"} => mu = t /\ r.query \notin store /\ state = "open"

\* Only the compaction has a transaction, and only between BeginTx and its end.
TxOK(t, r) ==
    /\ r.tx => t = Compactor /\ r.pc \in {"next", "lookup", "lock", "prepare", "preparing", "use"}
    /\ r.pc \in {"begin", "panicked"} => t = Compactor /\ r.todo = TxQueries

\* The connections in the hands of a goroutine.
HeldBy(t, r) ==
    {c \in {<<t, "tx">>, <<t, "call">>} :
        \/ c = <<t, "tx">> /\ r.tx
        \/ c = <<t, "call">> /\ r.pc \in {"preparing", "rows"}}

PreparedInv ==
    /\ th \in [Callers -> ThreadState]
    /\ store \subseteq Queries
    /\ open = [q \in Queries |-> IF q \in store THEN 1 ELSE 0]
    /\ state \in {"open", "closing", "closed"}
    /\ state = "closing" <=> mu = Closer
    /\ \A t \in Callers : LockOK(t, th[t]) /\ TxOK(t, th[t])
    /\ conns = UNION {HeldBy(t, th[t]) : t \in Callers}
    /\ IsFiniteSet(conns) /\ Cardinality(conns) <= MaxOpen

-----------------------------------------------------------------------------

\* Every connection carries the name of the goroutine that holds it.
LEMMA HeldHasOwner ==
    ASSUME NEW t, NEW r, NEW c \in HeldBy(t, r) PROVE c[1] = t
  BY DEF HeldBy

\* The pool stays within its limit.
LEMMA PoolStep ==
    ASSUME IsFiniteSet(conns), Cardinality(conns) <= MaxOpen, NEW S,
           \/ S \subseteq conns
           \/ Free /\ \E c : S = conns \cup {c}
    PROVE  IsFiniteSet(S) /\ Cardinality(S) <= MaxOpen
  <1>1. Cardinality(conns) \in Nat /\ MaxOpen \in Nat
    BY FS_CardinalityType, PreparedAssumption
  <1>2. CASE S \subseteq conns
    <2>1. IsFiniteSet(S) /\ Cardinality(S) <= Cardinality(conns)
      BY <1>2, FS_Subset
    <2>2. Cardinality(S) \in Nat
      BY <2>1, FS_CardinalityType
    <2> QED BY <1>1, <2>1, <2>2
  <1>3. CASE Free /\ \E c : S = conns \cup {c}
    <2>1. PICK c : S = conns \cup {c}
      BY <1>3
    <2>2. /\ IsFiniteSet(S)
          /\ Cardinality(S) = IF c \in conns THEN Cardinality(conns)
                                             ELSE Cardinality(conns) + 1
      BY <2>1, FS_AddElement
    <2> QED BY <1>1, <1>3, <2>2 DEF Free
  <1> QED BY <1>2, <1>3

\* What a step of one goroutine has to respect.
LEMMA CallerStep ==
    ASSUME PreparedInv, NEW t \in Callers, NEW new \in ThreadState,
           th' = [th EXCEPT ![t] = new],
           state' = state, store' \subseteq Queries,
           open' = [q \in Queries |-> IF q \in store' THEN 1 ELSE 0],
           \/ UNCHANGED <<mu, store>>
           \/ mu \in {t, NoOne} /\ mu' \in {t, NoOne},
           new.pc \in {"prepare", "preparing"} =>
               mu' = t /\ new.query \notin store' /\ state = "open",
           TxOK(t, new),
           conns' = Without(t) \cup HeldBy(t, new),
           \/ conns' \subseteq conns
           \/ Free /\ \E c : conns' = conns \cup {c}
    PROVE  PreparedInv'
  <1>1. th' \in [Callers -> ThreadState] /\ th'[t] = new
    BY DEF PreparedInv
  <1>2. \A u \in Callers \ {t} : th'[u] = th[u]
    BY DEF PreparedInv
  <1>3. state' = "closing" <=> mu' = Closer
    BY PreparedAssumption DEF PreparedInv, Callers
  <1>4. ASSUME NEW u \in Callers PROVE LockOK(u, th[u])' /\ TxOK(u, th[u])'
    <2>1. CASE u = t
      BY <1>1, <2>1 DEF LockOK, TxOK
    <2>2. CASE u # t
      <3>1. th'[u] = th[u] /\ LockOK(u, th[u]) /\ TxOK(u, th[u]) /\ u # NoOne
        BY <1>2, <2>2, PreparedAssumption DEF PreparedInv, Callers
      <3> QED BY <2>2, <3>1 DEF LockOK, TxOK
    <2> QED BY <2>1, <2>2
  <1>5. conns' = UNION {HeldBy(u, th'[u]) : u \in Callers}
    <2>1. ASSUME NEW c \in conns' PROVE \E u \in Callers : c \in HeldBy(u, th'[u])
      <3>1. CASE c \in HeldBy(t, new)
        BY <1>1, <3>1
      <3>2. CASE c \in Without(t)
        <4>1. PICK u \in Callers : c \in HeldBy(u, th[u])
          BY <3>2 DEF Without, PreparedInv
        <4>2. c[1] = u /\ c[1] # t
          BY <3>2, <4>1, HeldHasOwner DEF Without
        <4> QED BY <1>2, <4>1, <4>2
      <3> QED BY <3>1, <3>2
    <2>2. ASSUME NEW u \in Callers, NEW c \in HeldBy(u, th'[u]) PROVE c \in conns'
      <3>1. CASE u = t
        BY <1>1, <2>2, <3>1
      <3>2. CASE u # t
        <4>1. c \in HeldBy(u, th[u]) /\ c[1] = u
          BY <1>2, <2>2, <3>2, HeldHasOwner
        <4>2. c \in conns
          BY <4>1 DEF PreparedInv
        <4> QED BY <3>2, <4>1, <4>2 DEF Without
      <3> QED BY <3>1, <3>2
    <2> QED BY <2>1, <2>2
  <1>6. IsFiniteSet(conns') /\ Cardinality(conns') <= MaxOpen
    BY PoolStep DEF PreparedInv
  <1>7. conns' = UNION {HeldBy(u, th[u])' : u \in Callers}
    BY <1>5 DEF HeldBy
  <1> QED BY <1>1, <1>3, <1>4, <1>6, <1>7 DEF PreparedInv

\* A goroutine's part of the pool.
LEMMA HeldSplit ==
    ASSUME PreparedInv, NEW t \in Callers
    PROVE  conns = Without(t) \cup HeldBy(t, th[t])
  <1>1. ASSUME NEW c \in conns PROVE c \in Without(t) \cup HeldBy(t, th[t])
    <2>1. PICK u \in Callers : c \in HeldBy(u, th[u])
      BY DEF PreparedInv
    <2>2. c[1] = u
      BY <2>1, HeldHasOwner
    <2> QED BY <2>1, <2>2 DEF Without
  <1>2. HeldBy(t, th[t]) \subseteq conns
    BY DEF PreparedInv
  <1> QED BY <1>1, <1>2 DEF Without

\* The records a goroutine's steps put in place.
LEMMA ThreadTypes ==
    /\ Idle \in ThreadState
    /\ [Idle EXCEPT !.pc = "begin", !.todo = TxQueries] \in ThreadState
    /\ [Idle EXCEPT !.pc = "begin", !.todo = TxQueries].pc = "begin"
    /\ [Idle EXCEPT !.pc = "begin", !.todo = TxQueries].todo = TxQueries
    /\ ~[Idle EXCEPT !.pc = "begin", !.todo = TxQueries].tx
  <1>1. "revisions" \in Queries /\ {} \in SUBSET TxQueries
    BY DEF Queries
  <1>2. Idle \in ThreadState
    BY <1>1 DEF Idle, ThreadState
  <1> QED BY <1>2 DEF Idle, ThreadState

\* A goroutine that returns gives everything back.
LEMMA ReturnStep ==
    ASSUME PreparedInv, NEW t \in Callers, NEW pc \in {"idle", "begin"}, Return(t, pc),
           pc = "begin" => t = Compactor,
           conns' = Without(t),
           UNCHANGED <<store, open, state>>,
           mu' = mu \/ (mu = t /\ mu' = NoOne)
    PROVE  PreparedInv'
  <1> DEFINE new == IF pc = "begin" THEN [Idle EXCEPT !.pc = "begin", !.todo = TxQueries]
                                    ELSE Idle
  <1>1. /\ new \in ThreadState
        /\ new.pc = pc /\ ~new.tx /\ (pc = "begin" => new.todo = TxQueries)
    BY ThreadTypes DEF Idle
  <1>2. th' = [th EXCEPT ![t] = new]
    BY DEF Return
  <1>3. store' \subseteq Queries /\ open' = [q \in Queries |-> IF q \in store' THEN 1 ELSE 0]
    BY DEF PreparedInv
  <1>4. TxOK(t, new)
    BY <1>1 DEF TxOK
  <1>5. conns' = Without(t) \cup HeldBy(t, new) /\ conns' \subseteq conns
    BY <1>1 DEF HeldBy, Without
  <1> HIDE DEF new
  <1> QED BY CallerStep, <1>1, <1>2, <1>3, <1>4, <1>5

\* A goroutine that goes on without connections coming or going.
LEMMA GoOnStep ==
    ASSUME PreparedInv, NEW t \in Callers, NEW new \in ThreadState,
           th' = [th EXCEPT ![t] = new],
           HeldBy(t, new) = HeldBy(t, th[t]),
           TxOK(t, new),
           UNCHANGED <<store, open, conns, state>>,
           \/ mu' = mu /\ new.pc \notin {"prepare", "preparing"}
           \/ /\ mu = NoOne /\ mu' = t
              /\ new.query \notin store /\ state = "open"
    PROVE  PreparedInv'
  <1>1. store' \subseteq Queries /\ open' = [q \in Queries |-> IF q \in store' THEN 1 ELSE 0]
    BY DEF PreparedInv
  <1>2. conns' = Without(t) \cup HeldBy(t, new) /\ conns' \subseteq conns
    BY HeldSplit
  <1>3. \/ UNCHANGED <<mu, store>>
        \/ mu \in {t, NoOne} /\ mu' \in {t, NoOne}
    OBVIOUS
  <1> QED BY CallerStep, <1>1, <1>2, <1>3

-----------------------------------------------------------------------------
(* One lemma per action. *)

LEMMA CallKeeps ==
    ASSUME PreparedInv, NEW t \in Callers, Call(t)
    PROVE  PreparedInv'
  <1>1. PICK q \in Queries : /\ At(t, "idle")
                             /\ th' = [th EXCEPT ![t].pc = "lookup", ![t].query = q]
                             /\ UNCHANGED <<mu, store, open, conns, state>>
    BY DEF Call, Query, Execute, Queries
  <1> DEFINE new == [th[t] EXCEPT !.pc = "lookup", !.query = q]
  <1>2. th[t] \in ThreadState /\ TxOK(t, th[t])
    BY DEF PreparedInv
  <1>3. /\ new \in ThreadState
        /\ new.pc = "lookup" /\ new.tx = th[t].tx
    BY <1>2 DEF ThreadState
  <1>4. TxOK(t, new)
    BY <1>1, <1>2, <1>3 DEF TxOK, At
  <1>5. HeldBy(t, new) = HeldBy(t, th[t])
    BY <1>1, <1>3 DEF HeldBy, At
  <1>6. th' = [th EXCEPT ![t] = new]
    BY <1>1 DEF PreparedInv
  <1> HIDE DEF new
  <1> QED BY GoOnStep, <1>1, <1>3, <1>4, <1>5, <1>6

LEMMA LookupKeeps ==
    ASSUME PreparedInv, NEW t \in Callers, Lookup(t)
    PROVE  PreparedInv'
  <1>1. PICK pc \in {"use", "lock"} : Goto(t, pc)
    BY DEF Lookup
  <1> DEFINE new == [th[t] EXCEPT !.pc = pc]
  <1>2. th[t] \in ThreadState /\ TxOK(t, th[t])
    BY DEF PreparedInv
  <1>3. /\ new \in ThreadState
        /\ new.pc = pc /\ new.tx = th[t].tx /\ new.todo = th[t].todo
    BY <1>2 DEF ThreadState
  <1>4. TxOK(t, new)
    BY <1>2, <1>3 DEF TxOK, Lookup, At
  <1>5. HeldBy(t, new) = HeldBy(t, th[t])
    BY <1>3 DEF HeldBy, Lookup, At
  <1>6. th' = [th EXCEPT ![t] = new]
    BY <1>1 DEF PreparedInv, Goto
  <1>7. UNCHANGED <<mu, store, open, conns, state>>
    BY DEF Lookup
  <1> HIDE DEF new
  <1> QED BY GoOnStep, <1>3, <1>4, <1>5, <1>6, <1>7

LEMMA LockKeeps ==
    ASSUME PreparedInv, NEW t \in Callers, Lock(t)
    PROVE  PreparedInv'
  <1>1. CASE state = "closed"
    BY <1>1, ReturnStep DEF Lock
  <1>2. CASE state # "closed"
    <2>1. PICK pc \in {"use", "prepare"} :
             /\ Goto(t, pc)
             /\ pc = "use" => mu' = mu
             /\ pc = "prepare" => mu' = t /\ th[t].query \notin store
      BY <1>2 DEF Lock
    <2> DEFINE new == [th[t] EXCEPT !.pc = pc]
    <2>2. th[t] \in ThreadState /\ TxOK(t, th[t])
      BY DEF PreparedInv
    <2>3. /\ new \in ThreadState
          /\ new.pc = pc /\ new.tx = th[t].tx /\ new.todo = th[t].todo
          /\ new.query = th[t].query
      BY <2>2 DEF ThreadState
    <2>4. TxOK(t, new)
      BY <2>2, <2>3 DEF TxOK, Lock, At
    <2>5. HeldBy(t, new) = HeldBy(t, th[t])
      BY <2>3 DEF HeldBy, Lock, At
    <2>6. th' = [th EXCEPT ![t] = new]
      BY <2>1 DEF PreparedInv, Goto
    <2>7. UNCHANGED <<store, open, conns, state>> /\ mu = NoOne
      BY <1>2 DEF Lock
    <2>8. state = "open"
      BY <1>2, <2>7, PreparedAssumption DEF PreparedInv
    <2> HIDE DEF new
    <2> QED BY GoOnStep, <2>1, <2>3, <2>4, <2>5, <2>6, <2>7, <2>8
  <1> QED BY <1>1, <1>2

LEMMA PrepareKeeps ==
    ASSUME PreparedInv, NEW t \in Callers, Prepare(t)
    PROVE  PreparedInv'
  <1>1. /\ th[t] \in ThreadState /\ TxOK(t, th[t])
        /\ mu = t /\ th[t].query \notin store /\ state = "open"
    BY DEF PreparedInv, LockOK, Prepare, At
  <1>2. /\ At(t, "prepare") /\ Free /\ Goto(t, "preparing")
        /\ conns' = conns \cup {<<t, "call">>}
        /\ UNCHANGED <<mu, writeMu, store, open, state>>
    BY <1>1 DEF Prepare
  <1> DEFINE new == [th[t] EXCEPT !.pc = "preparing"]
  <1>3. /\ new \in ThreadState
        /\ new.pc = "preparing" /\ new.tx = th[t].tx /\ new.query = th[t].query
    BY <1>1 DEF ThreadState
  <1>4. TxOK(t, new)
    BY <1>1, <1>2, <1>3 DEF TxOK, At
  <1>5. HeldBy(t, new) = HeldBy(t, th[t]) \cup {<<t, "call">>}
    BY <1>2, <1>3 DEF HeldBy, At
  <1>6. conns' = Without(t) \cup HeldBy(t, new)
    BY <1>2, <1>5, HeldSplit
  <1>7. th' = [th EXCEPT ![t] = new]
    BY <1>2 DEF PreparedInv, Goto
  <1>8. store' \subseteq Queries /\ open' = [q \in Queries |-> IF q \in store' THEN 1 ELSE 0]
    BY <1>2 DEF PreparedInv
  <1> HIDE DEF new
  <1> QED BY CallerStep, <1>1, <1>2, <1>3, <1>4, <1>6, <1>7, <1>8

LEMMA PreparedKeeps ==
    ASSUME PreparedInv, NEW t \in Callers, Prepared(t)
    PROVE  PreparedInv'
  <1>1. /\ th[t] \in ThreadState /\ TxOK(t, th[t])
        /\ mu = t /\ th[t].query \notin store /\ state = "open"
    BY DEF PreparedInv, LockOK, Prepared, At
  <1> DEFINE new == [th[t] EXCEPT !.pc = "use"]
  <1>2. /\ new \in ThreadState
        /\ new.pc = "use" /\ new.tx = th[t].tx
    BY <1>1 DEF ThreadState
  <1>3. TxOK(t, new)
    BY <1>1, <1>2 DEF TxOK, Prepared, At
  <1>4. HeldBy(t, new) = HeldBy(t, th[t]) \ {<<t, "call">>}
    BY <1>2 DEF HeldBy
  <1>5. <<t, "call">> \notin Without(t)
    BY DEF Without
  <1>6. conns' = Without(t) \cup HeldBy(t, new) /\ conns' \subseteq conns
    BY <1>4, <1>5, HeldSplit DEF Prepared
  <1>7. th' = [th EXCEPT ![t] = new]
    BY DEF PreparedInv, Goto, Prepared
  <1>8. store' \subseteq Queries /\ open' = [q \in Queries |-> IF q \in store' THEN 1 ELSE 0]
    <2>1. th[t].query \in Queries
      BY <1>1 DEF ThreadState
    <2> QED BY <1>1, <2>1 DEF PreparedInv, Prepared
  <1>9. mu' = NoOne /\ state' = state
    BY DEF Prepared
  <1> HIDE DEF new
  <1> QED BY CallerStep, <1>1, <1>2, <1>3, <1>6, <1>7, <1>8, <1>9

\* What Fails does is a Return.
LEMMA FailsIs ==
    ASSUME PreparedInv, NEW t \in Callers, Fails(t)
    PROVE  \E pc \in {"idle", "begin"} : Return(t, pc) /\ (pc = "begin" => t = Compactor)
  BY DEF Fails, PreparedInv, TxOK

LEMMA FailKeeps ==
    ASSUME PreparedInv, NEW t \in Callers, PrepareFails(t) \/ Rollback(t)
    PROVE  PreparedInv'
  <1>1. PICK pc \in {"idle", "begin"} : Return(t, pc) /\ (pc = "begin" => t = Compactor)
    BY FailsIs DEF PrepareFails, Rollback
  <1>2. mu' = mu \/ (mu = t /\ mu' = NoOne)
    BY DEF PrepareFails, Rollback, PreparedInv, LockOK
  <1> QED BY ReturnStep, <1>1, <1>2 DEF PrepareFails, Rollback

LEMMA UseKeeps ==
    ASSUME PreparedInv, NEW t \in Callers, Use(t)
    PROVE  PreparedInv'
  <1>1. th[t] \in ThreadState /\ TxOK(t, th[t]) /\ ~th[t].tx /\ th[t].pc = "use"
    BY DEF PreparedInv, Use, At
  <1>2. HeldBy(t, th[t]) = {}
    BY <1>1 DEF HeldBy
  <1>3. CASE Return(t, "idle")
    BY <1>2, <1>3, HeldSplit, ReturnStep DEF Use
  <1>4. CASE Goto(t, "connect")
    <2> DEFINE new == [th[t] EXCEPT !.pc = "connect"]
    <2>1. /\ new \in ThreadState
          /\ new.pc = "connect" /\ ~new.tx
      BY <1>1 DEF ThreadState
    <2>2. TxOK(t, new) /\ HeldBy(t, new) = {}
      BY <2>1 DEF TxOK, HeldBy
    <2>3. th' = [th EXCEPT ![t] = new]
      BY <1>4 DEF PreparedInv, Goto
    <2>4. UNCHANGED <<mu, store, open, conns, state>>
      BY DEF Use
    <2> HIDE DEF new
    <2> QED BY GoOnStep, <1>2, <2>1, <2>2, <2>3, <2>4
  <1> QED BY <1>3, <1>4 DEF Use

LEMMA ConnectKeeps ==
    ASSUME PreparedInv, NEW t \in Callers, Connect(t)
    PROVE  PreparedInv'
  <1>1. th[t] \in ThreadState /\ TxOK(t, th[t]) /\ th[t].pc = "connect"
    BY DEF PreparedInv, Connect, At
  <1> DEFINE new == [th[t] EXCEPT !.pc = "rows"]
  <1>2. /\ new \in ThreadState
        /\ new.pc = "rows" /\ new.tx = th[t].tx
    BY <1>1 DEF ThreadState
  <1>3. TxOK(t, new)
    BY <1>1, <1>2 DEF TxOK
  <1>4. HeldBy(t, new) = HeldBy(t, th[t]) \cup {<<t, "call">>}
    BY <1>1, <1>2 DEF HeldBy
  <1>5. conns' = Without(t) \cup HeldBy(t, new)
    BY <1>4, HeldSplit DEF Connect
  <1>6. th' = [th EXCEPT ![t] = new]
    BY DEF PreparedInv, Goto, Connect
  <1>7. store' \subseteq Queries /\ open' = [q \in Queries |-> IF q \in store' THEN 1 ELSE 0]
    BY DEF PreparedInv, Connect
  <1>8. UNCHANGED <<mu, store, state>> /\ Free /\ conns' = conns \cup {<<t, "call">>}
    BY DEF Connect
  <1> HIDE DEF new
  <1> QED BY CallerStep, <1>2, <1>3, <1>5, <1>6, <1>7, <1>8

LEMMA ConnectFailsKeeps ==
    ASSUME PreparedInv, NEW t \in Callers, ConnectFails(t)
    PROVE  PreparedInv'
  <1>1. th[t] \in ThreadState /\ TxOK(t, th[t]) /\ th[t].pc = "connect"
    BY DEF PreparedInv, ConnectFails, At
  <1>2. HeldBy(t, th[t]) = {}
    BY <1>1 DEF HeldBy, TxOK
  <1> QED BY <1>2, HeldSplit, ReturnStep DEF ConnectFails

LEMMA BeginFailsKeeps ==
    ASSUME PreparedInv, NEW t \in Callers, BeginFails(t)
    PROVE  PreparedInv'
  <1>1. th[t].pc = "begin" /\ ~th[t].tx
    BY DEF PreparedInv, BeginFails, At, TxOK
  <1>2. HeldBy(t, th[t]) = {}
    BY <1>1 DEF HeldBy
  <1> QED BY <1>2, HeldSplit, ReturnStep DEF BeginFails

LEMMA CloseRowsKeeps ==
    ASSUME PreparedInv, NEW t \in Callers, CloseRows(t)
    PROVE  PreparedInv'
  <1>1. PICK pc \in {"idle", "begin"} : Return(t, pc) /\ (pc = "begin" => t = Compactor)
    BY DEF CloseRows, AfterRows
  <1> QED BY <1>1, ReturnStep DEF CloseRows

LEMMA BeginTxKeeps ==
    ASSUME PreparedInv, NEW t \in Callers, BeginTx(t)
    PROVE  PreparedInv'
  <1>1. /\ th[t] \in ThreadState /\ th[t].pc = "begin"
        /\ t = Compactor /\ ~th[t].tx /\ th[t].todo = TxQueries
    BY DEF PreparedInv, BeginTx, At, TxOK
  <1>2. HeldBy(t, th[t]) = {}
    BY <1>1 DEF HeldBy
  <1>3. CASE state = "closed"
    <2> DEFINE new == [th[t] EXCEPT !.pc = "panicked"]
    <2>1. /\ new \in ThreadState
          /\ new.pc = "panicked" /\ ~new.tx /\ new.todo = TxQueries
      BY <1>1 DEF ThreadState
    <2>2. TxOK(t, new) /\ HeldBy(t, new) = {}
      BY <1>1, <2>1 DEF TxOK, HeldBy
    <2>3. th' = [th EXCEPT ![t] = new]
      BY <1>3 DEF PreparedInv, Goto, BeginTx
    <2>4. UNCHANGED <<mu, store, open, conns, state>>
      BY <1>3 DEF BeginTx
    <2> HIDE DEF new
    <2> QED BY GoOnStep, <1>2, <2>1, <2>2, <2>3, <2>4
  <1>4. CASE state # "closed"
    <2> DEFINE new == [th[t] EXCEPT !.pc = "next", !.tx = TRUE]
    <2>1. /\ new \in ThreadState
          /\ new.pc = "next" /\ new.tx
      BY <1>1 DEF ThreadState
    <2>2. TxOK(t, new) /\ HeldBy(t, new) = {<<t, "tx">>}
      BY <1>1, <2>1 DEF TxOK, HeldBy
    <2>3. th' = [th EXCEPT ![t] = new]
      BY <1>4 DEF PreparedInv, BeginTx
    <2>4. UNCHANGED <<mu, store, state>> /\ Free /\ conns' = conns \cup {<<t, "tx">>}
      BY <1>4 DEF BeginTx
    <2>5. conns' = Without(t) \cup HeldBy(t, new)
      BY <1>2, <2>2, <2>4, HeldSplit
    <2>6. store' \subseteq Queries /\ open' = [q \in Queries |-> IF q \in store' THEN 1 ELSE 0]
      BY DEF PreparedInv, BeginTx
    <2> HIDE DEF new
    <2> QED BY CallerStep, <2>1, <2>2, <2>3, <2>4, <2>5, <2>6
  <1> QED BY <1>3, <1>4

LEMMA NextInTxKeeps ==
    ASSUME PreparedInv, NEW t \in Callers, NextInTx(t)
    PROVE  PreparedInv'
  <1>1. th[t] \in ThreadState /\ TxOK(t, th[t]) /\ th[t].pc = "next"
    BY DEF PreparedInv, NextInTx, At
  <1>2. CASE Return(t, "idle") /\ conns' = Without(t)
    BY <1>2, ReturnStep DEF NextInTx
  <1>3. ASSUME NEW q \in th[t].todo,
               th' = [th EXCEPT ![t].pc = "lookup", ![t].query = q, ![t].todo = @ \ {q}],
               UNCHANGED <<writeMu, conns>>
        PROVE  PreparedInv'
    <2> DEFINE new == [th[t] EXCEPT !.pc = "lookup", !.query = q, !.todo = @ \ {q}]
    <2>1. q \in Queries
      BY <1>1, <1>3 DEF ThreadState, Queries
    <2>2. /\ new \in ThreadState
          /\ new.pc = "lookup" /\ new.tx = th[t].tx
      BY <1>1, <2>1 DEF ThreadState
    <2>3. TxOK(t, new)
      BY <1>1, <2>2 DEF TxOK
    <2>4. HeldBy(t, new) = HeldBy(t, th[t])
      BY <1>1, <2>2 DEF HeldBy
    <2>5. th' = [th EXCEPT ![t] = new]
      BY <1>3 DEF PreparedInv
    <2>6. UNCHANGED <<mu, store, open, conns, state>>
      BY <1>3 DEF NextInTx
    <2> HIDE DEF new
    <2> QED BY GoOnStep, <2>2, <2>3, <2>4, <2>5, <2>6
  <1> QED BY <1>2, <1>3 DEF NextInTx

LEMMA UseInTxKeeps ==
    ASSUME PreparedInv, NEW t \in Callers, UseInTx(t)
    PROVE  PreparedInv'
  <1>1. th[t] \in ThreadState /\ TxOK(t, th[t]) /\ th[t].pc = "use"
    BY DEF PreparedInv, UseInTx, At
  <1>2. CASE Return(t, "idle") /\ conns' = Without(t)
    BY <1>2, ReturnStep DEF UseInTx
  <1>3. CASE Goto(t, "next") /\ UNCHANGED <<writeMu, conns>>
    <2> DEFINE new == [th[t] EXCEPT !.pc = "next"]
    <2>1. /\ new \in ThreadState
          /\ new.pc = "next" /\ new.tx = th[t].tx
      BY <1>1 DEF ThreadState
    <2>2. TxOK(t, new)
      BY <1>1, <2>1 DEF TxOK
    <2>3. HeldBy(t, new) = HeldBy(t, th[t])
      BY <1>1, <2>1 DEF HeldBy
    <2>4. th' = [th EXCEPT ![t] = new]
      BY <1>3 DEF PreparedInv, Goto
    <2>5. UNCHANGED <<mu, store, open, conns, state>>
      BY <1>3 DEF UseInTx
    <2> HIDE DEF new
    <2> QED BY GoOnStep, <2>1, <2>2, <2>3, <2>4, <2>5
  <1> QED BY <1>2, <1>3 DEF UseInTx

\* Close waits for the lock: whoever prepares is done before it begins.
LEMMA CloseKeeps ==
    ASSUME PreparedInv, Close
    PROVE  PreparedInv'
  <1>1. /\ UNCHANGED <<th, conns>>
        /\ conns' = UNION {HeldBy(t, th[t])' : t \in Callers}
        /\ IsFiniteSet(conns') /\ Cardinality(conns') <= MaxOpen
    BY DEF Close, CloseLock, CloseStmt, CloseDB, PreparedInv, HeldBy
  <1>2. \A t \in Callers : TxOK(t, th[t])' /\ th'[t] = th[t] /\ t # Closer /\ t # NoOne
    BY <1>1, PreparedAssumption DEF PreparedInv, TxOK, Callers
  <1>3. \A t \in Callers : LockOK(t, th[t])'
    BY <1>1, <1>2 DEF PreparedInv, LockOK, Close, CloseLock, CloseStmt, CloseDB
  <1>4. store' \subseteq Queries /\ open' = [q \in Queries |-> IF q \in store' THEN 1 ELSE 0]
    BY DEF Close, CloseLock, CloseStmt, CloseDB, PreparedInv
  <1>5. /\ state' \in {"open", "closing", "closed"}
        /\ state' = "closing" <=> mu' = Closer
    BY PreparedAssumption DEF Close, CloseLock, CloseStmt, CloseDB, PreparedInv
  <1> QED BY <1>1, <1>2, <1>3, <1>4, <1>5 DEF PreparedInv

LEMMA PreparedInit == Init => PreparedInv
  <1> SUFFICES ASSUME Init PROVE PreparedInv
    OBVIOUS
  <1>1. th \in [Callers -> ThreadState] /\ \A t \in Callers : th[t] = Idle
    BY ThreadTypes DEF Init
  <1>2. \A t \in Callers : LockOK(t, th[t]) /\ TxOK(t, th[t]) /\ HeldBy(t, th[t]) = {}
    BY <1>1 DEF LockOK, TxOK, HeldBy, Idle
  <1>3. conns = UNION {HeldBy(t, th[t]) : t \in Callers}
    BY <1>2 DEF Init
  <1>4. IsFiniteSet(conns) /\ Cardinality(conns) <= MaxOpen
    BY FS_EmptySet, PreparedAssumption DEF Init
  <1> QED BY <1>1, <1>2, <1>3, <1>4, PreparedAssumption DEF PreparedInv, Init

LEMMA PreparedNext == PreparedInv /\ [Next]_vars => PreparedInv'
  <1> SUFFICES ASSUME PreparedInv, [Next]_vars PROVE PreparedInv'
    OBVIOUS
  <1>1. CASE UNCHANGED vars
    BY <1>1 DEF PreparedInv, vars, LockOK, TxOK, HeldBy
  <1>2. ASSUME NEW t \in Callers, Call(t) \/ Step(t) \/ Fail(t)
        PROVE  PreparedInv'
    BY <1>2, CallKeeps, LookupKeeps, LockKeeps, PrepareKeeps, PreparedKeeps, FailKeeps,
       UseKeeps, ConnectKeeps, ConnectFailsKeeps, BeginFailsKeeps, CloseRowsKeeps, BeginTxKeeps,
       NextInTxKeeps, UseInTxKeeps DEF Step, Fail
  <1> QED BY <1>1, <1>2, CloseKeeps DEF Next

THEOREM PreparedInvariance == Spec => []PreparedInv
  BY PreparedInit, PreparedNext, PTL DEF Spec

-----------------------------------------------------------------------------

\* DB.prepare keeps one statement per query, whoever races whom.
THEOREM StatementsFound == Spec => []StatementsAreFound
  <1>1. PreparedInv => StatementsAreFound
    BY DEF PreparedInv, StatementsAreFound
  <1> QED BY <1>1, PreparedInvariance, PTL

\* No path through db.go, tx.go or the driver leaks a connection.
THEOREM ConnectionsHeld == Spec => []ConnectionsAreHeld
  <1>1. ASSUME PreparedInv PROVE ConnectionsAreHeld
    <2> DEFINE InTx == {<<t, "tx">> : t \in {u \in Callers : th[u].tx}}
               InCall == {<<t, "call">> : t \in {u \in Callers : th[u].pc \in {"preparing", "rows"}}}
    <2>1. ASSUME NEW c \in conns PROVE c \in InTx \cup InCall
      BY <1>1 DEF PreparedInv, HeldBy
    <2>2. InTx \subseteq conns
      BY <1>1 DEF PreparedInv, HeldBy
    <2>3. InCall \subseteq conns
      BY <1>1 DEF PreparedInv, HeldBy
    <2> QED BY <1>1, <2>1, <2>2, <2>3 DEF ConnectionsAreHeld, PreparedInv
  <1> QED BY <1>1, PreparedInvariance, PTL

\* Only DB.BeginTx can meet the database that Close has set to nil.
THEOREM NilOnlyThere == Spec => []NilOnlyInBeginTx
  <1>1. PreparedInv => NilOnlyInBeginTx
    BY DEF PreparedInv, NilOnlyInBeginTx, TxOK, At
  <1> QED BY <1>1, PreparedInvariance, PTL
=============================================================================
