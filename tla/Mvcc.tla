-------------------------------- MODULE Mvcc --------------------------------
(***************************************************************************)
(* What the datastore promises its clients: a versioned key-value store.   *)
(* Every revision from the compact revision to the current one has a       *)
(* snapshot that never changes.  A write is a compare-and-swap on the      *)
(* newest snapshot and appends the next one; compaction only forgets the   *)
(* oldest ones and never the newest.                                       *)
(***************************************************************************)
EXTENDS Integers

CONSTANTS Keys, Values, Leases

VARIABLES
    compactRev,  \* the oldest revision that can be read
    currentRev,  \* the newest revision
    at           \* the snapshot of every readable revision

vars == <<compactRev, currentRev, at>>

Init ==
    /\ compactRev = 0
    /\ currentRev = 0
    /\ at = [r \in 0..0 |-> {}]

Versions(k) == {kv \in at[currentRev] : kv.key = k}

Others(k) == at[currentRev] \ Versions(k)

\* The next revision shows the given snapshot, the older ones stay as they are.
Append(snapshot) ==
    /\ currentRev' = currentRev + 1
    /\ at' = [r \in compactRev..currentRev + 1 |->
                 IF r <= currentRev THEN at[r] ELSE snapshot]
    /\ UNCHANGED compactRev

Version(k, v, lease, createRev) ==
    [key |-> k, value |-> v, lease |-> lease,
     createRev |-> createRev, modRev |-> currentRev + 1]

Create(k, v, lease) ==
    /\ Versions(k) = {}
    /\ Append(Others(k) \cup {Version(k, v, lease, currentRev + 1)})

Update(k, v, rev, lease) ==
    \E kv \in Versions(k) :
        /\ kv.modRev = rev
        /\ Append(Others(k) \cup {Version(k, v, lease, kv.createRev)})

Delete(k, rev) ==
    \E kv \in Versions(k) :
        /\ kv.modRev = rev
        /\ Append(Others(k))

\* The store uses a revision for itself.
Internal == Append(at[currentRev])

Compact(rev) ==
    /\ compactRev < rev
    /\ compactRev' = rev
    /\ at' = [r \in rev..currentRev |-> at[r]]
    /\ UNCHANGED currentRev

Write ==
    \/ \E k \in Keys, v \in Values, lease \in Leases :
          \/ Create(k, v, lease)
          \/ \E rev \in 1..currentRev : Update(k, v, rev, lease)
    \/ \E k \in Keys, rev \in 1..currentRev : Delete(k, rev)

\* Only a write or an internal step issues a revision, and one at a time.
Next ==
    \/ currentRev' # currentRev /\ (Write \/ Internal)
    \/ \E rev \in 0..currentRev - 1 : Compact(rev)

Spec == Init /\ [][Next]_vars
=============================================================================
