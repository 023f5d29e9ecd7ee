---------------------------- MODULE MCKineReads ----------------------------
(***************************************************************************)
(* KineReads for TLC.  A request touches no other request, so one client   *)
(* meets every interleaving; the keys are ordered, so they are not         *)
(* interchangeable.                                                        *)
(***************************************************************************)
EXTENDS KineReads, TLC

CONSTANTS k1, k2

MCKeys == {k1, k2}

MCRank == (k1 :> 1) @@ (k2 :> 2)
=============================================================================
