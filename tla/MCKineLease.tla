---------------------------- MODULE MCKineLease ----------------------------
(***************************************************************************)
(* KineLease for TLC: two keys in their order, so that a list has pages.   *)
(***************************************************************************)
EXTENDS KineLease, TLC

CONSTANTS k1, k2

MCKeys == {k1, k2}

MCRank == (k1 :> 1) @@ (k2 :> 2)

\* Only the behaviours in which the poll loop has published nothing.
PollerIsAsleep == feed.last = 0
=============================================================================
