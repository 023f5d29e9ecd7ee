---------------------------- MODULE MCKineStore ----------------------------
(***************************************************************************)
(* KineStore for TLC.  The keys and the nodes are interchangeable.         *)
(***************************************************************************)
EXTENDS KineStore, TLC

Symmetry == Permutations(Keys) \cup Permutations(Nodes) \cup Permutations(Values)
=============================================================================
