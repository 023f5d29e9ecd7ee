----------------------------- MODULE MCServer ------------------------------
(***************************************************************************)
(* Server for TLC.  n1 founds the cluster or has been there before; n2     *)
(* joins it or founds another.                                             *)
(***************************************************************************)
EXTENDS Server, TLC

CONSTANTS n1, n2

MCNodes == {n1, n2}
=============================================================================
